------------------------------ MODULE AtomicFile ------------------------------
(***************************************************************************)
(* What a rewrite of a tracked file promises its readers and the commit    *)
(* that follows: the file goes from one whole text to the next in one      *)
(* step, with the mode it had when that rewrite began; a rewrite that      *)
(* fails changes nothing; and a power cut leaves a file that was there.    *)
(***************************************************************************)
CONSTANTS
  Writers,     \* the processes that rewrite the file
  Texts,
  Modes,
  DefaultMode, \* of a file that was not there
  NoFile,      \* nothing is at the path
  NoRewrite    \* the writer is not rewriting the file

VARIABLES
  file,    \* the file at the path, or NoFile
  onDisk,  \* what the disk holds of it
  promised \* [Writers -> Files \cup {NoRewrite}]: what each is to publish

fileVars == <<file, onDisk, promised>>

Files == [text : Texts, mode : Modes]

ModeOf(f) == IF f = NoFile THEN DefaultMode ELSE f.mode

FileInit ==
  /\ file \in Files \cup {NoFile}
  /\ onDisk = file
  /\ promised = [w \in Writers |-> NoRewrite]

Undertake(w) ==
  /\ promised[w] = NoRewrite
  /\ \E t \in Texts :
       promised' = [promised EXCEPT ![w] = [text |-> t, mode |-> ModeOf(file)]]
  /\ UNCHANGED <<file, onDisk>>

Publish(w) ==
  /\ promised[w] # NoRewrite
  /\ file' = promised[w]
  /\ promised' = [promised EXCEPT ![w] = NoRewrite]
  /\ UNCHANGED onDisk

GiveUp(w) ==
  /\ promised[w] # NoRewrite
  /\ promised' = [promised EXCEPT ![w] = NoRewrite]
  /\ UNCHANGED <<file, onDisk>>

Chmod ==
  /\ file # NoFile
  /\ \E m \in Modes : file' = [file EXCEPT !.mode = m]
  /\ UNCHANGED <<onDisk, promised>>

Settle ==
  /\ onDisk' = file
  /\ UNCHANGED <<file, promised>>

PowerCut ==
  /\ file' \in {file, onDisk}
  /\ onDisk' = file'
  /\ promised' = [w \in Writers |-> NoRewrite]

FileNext ==
  \/ \E w \in Writers : Undertake(w) \/ Publish(w) \/ GiveUp(w)
  \/ Chmod \/ Settle \/ PowerCut

FileSpec == FileInit /\ [][FileNext]_fileVars
=============================================================================
