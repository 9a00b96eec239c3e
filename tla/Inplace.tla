------------------------------- MODULE Inplace -------------------------------
(***************************************************************************)
(* tools/inplace.py: a tracked file is rewritten through a temporary file  *)
(* beside it, made with mode 0600, that is written, synced, given the mode *)
(* the file had and renamed over it.  Processes may rewrite the file at    *)
(* once, it may be chmodded meanwhile, a process may fail or be killed     *)
(* between two steps, and the power may go.                                *)
(*                                                                         *)
(* `mode` is not passed (it is for a deliberate chmod).  The disk and the  *)
(* rename are the file system's: a rename is atomic and reaches the disk   *)
(* at its leisure, and the text of a file that was not synced may not.     *)
(***************************************************************************)
CONSTANTS
  Writers, Texts, Modes, DefaultMode, NoFile, NoRewrite,
  PrivateMode, \* of a file mkstemp has just made
  Torn         \* a text of which part is missing

VARIABLES
  path,    \* the file at the path, or NoFile
  disk,    \* what the disk holds of it
  temp,    \* [Writers -> Inodes \cup {NoFile}]: each writer's temporary file
  step,    \* [Writers -> Steps]: the last thing its rewrite did
  text,    \* [Writers -> Texts]: the argument
  outMode, \* [Writers -> Modes]: out_mode
  litter   \* some temporary file was left behind

inplaceVars == <<path, disk, temp, step, text, outMode, litter>>

\* synced: the text is on the disk, wherever the name is.
Inodes == [text : Texts \cup {Torn}, mode : Modes \cup {PrivateMode}, synced : BOOLEAN]
Steps == {"idle", "made", "written", "synced", "moded"}

ASSUME InplaceAssumption ==
  /\ DefaultMode \in Modes /\ Texts # {} /\ Torn \notin Texts
  /\ NoFile \notin Inodes
  /\ {NoFile, NoRewrite} \cap [text : Texts, mode : Modes] = {}

InplaceTypeOK ==
  /\ path \in Inodes \cup {NoFile} /\ disk \in Inodes \cup {NoFile}
  /\ temp \in [Writers -> Inodes \cup {NoFile}]
  /\ step \in [Writers -> Steps]
  /\ text \in [Writers -> Texts] /\ outMode \in [Writers -> Modes]
  /\ litter \in BOOLEAN

InplaceInit ==
  /\ path = NoFile /\ disk = NoFile
  /\ temp = [w \in Writers |-> NoFile]
  /\ step = [w \in Writers |-> "idle"]
  /\ text = [w \in Writers |-> CHOOSE t \in Texts : TRUE]
  /\ outMode = [w \in Writers |-> DefaultMode]
  /\ litter = FALSE

Step(w, from, to) == step[w] = from /\ step' = [step EXCEPT ![w] = to]

\* stat, the mode to keep, mkstemp.
MakeTemp(w) ==
  /\ Step(w, "idle", "made")
  /\ text' \in {[text EXCEPT ![w] = t] : t \in Texts}
  /\ outMode' = [outMode EXCEPT ![w] = IF path = NoFile THEN DefaultMode ELSE path.mode]
  /\ temp' = [temp EXCEPT ![w] = [text |-> Torn, mode |-> PrivateMode, synced |-> TRUE]]
  /\ UNCHANGED <<path, disk, litter>>

\* write and flush: to the kernel.
WriteText(w) ==
  /\ Step(w, "made", "written")
  /\ temp' = [temp EXCEPT ![w].text = text[w], ![w].synced = FALSE]
  /\ UNCHANGED <<path, disk, text, outMode, litter>>

\* Wrong on purpose, for a mutant: no fsync.
SyncTextNot(w) ==
  /\ Step(w, "written", "synced")
  /\ UNCHANGED <<path, disk, temp, text, outMode, litter>>

SyncText(w) ==
  /\ Step(w, "written", "synced")
  /\ temp' = [temp EXCEPT ![w].synced = TRUE]
  /\ UNCHANGED <<path, disk, text, outMode, litter>>

\* Wrong on purpose, for a mutant: the mode the temporary file was made with stays.
SetModeNot(w) ==
  /\ Step(w, "synced", "moded")
  /\ UNCHANGED <<path, disk, temp, text, outMode, litter>>

SetMode(w) ==
  /\ Step(w, "synced", "moded")
  /\ temp' = [temp EXCEPT ![w].mode = outMode[w]]
  /\ UNCHANGED <<path, disk, text, outMode, litter>>

Replace(w) ==
  /\ Step(w, "moded", "idle")
  /\ path' = temp[w]
  /\ temp' = [temp EXCEPT ![w] = NoFile]
  /\ UNCHANGED <<disk, text, outMode, litter>>

\* Something raises: the temporary file is unlinked.
Raise(w) ==
  /\ step[w] # "idle"
  /\ step' = [step EXCEPT ![w] = "idle"]
  /\ temp' = [temp EXCEPT ![w] = NoFile]
  /\ UNCHANGED <<path, disk, text, outMode, litter>>

\* The process is killed: nothing removes the temporary file.
KillWriter(w) ==
  /\ step[w] # "idle"
  /\ step' = [step EXCEPT ![w] = "idle"]
  /\ temp' = [temp EXCEPT ![w] = NoFile]
  /\ litter' = TRUE
  /\ UNCHANGED <<path, disk, text, outMode>>

ChmodPath ==
  /\ path # NoFile
  /\ \E m \in Modes : path' = [path EXCEPT !.mode = m]
  /\ UNCHANGED <<disk, temp, step, text, outMode, litter>>

\* The file as the disk gets it: its text may be cut if nobody synced it.
OnDisk == IF path = NoFile \/ path.synced THEN {path}
          ELSE {path, [path EXCEPT !.text = Torn]}

Writeback ==
  /\ disk' \in OnDisk
  /\ UNCHANGED <<path, temp, step, text, outMode, litter>>

LosePower ==
  /\ path' \in OnDisk \cup {disk} /\ disk' = path'
  /\ litter' = (litter \/ \E w \in Writers : step[w] # "idle")
  /\ temp' = [w \in Writers |-> NoFile]
  /\ step' = [w \in Writers |-> "idle"]
  /\ UNCHANGED <<text, outMode>>

InplaceNext ==
  \/ \E w \in Writers :
       \/ MakeTemp(w) \/ WriteText(w) \/ SyncText(w) \/ SetMode(w) \/ Replace(w)
       \/ Raise(w) \/ KillWriter(w)
  \/ ChmodPath \/ Writeback \/ LosePower

InplaceSpec == InplaceInit /\ [][InplaceNext]_inplaceVars
-----------------------------------------------------------------------------
Seen(i) == IF i = NoFile THEN NoFile ELSE [text |-> i.text, mode |-> i.mode]

Contract == INSTANCE AtomicFile WITH
  file <- Seen(path),
  onDisk <- Seen(disk),
  promised <- [w \in Writers |-> IF step[w] = "idle" THEN NoRewrite
                                  ELSE [text |-> text[w], mode |-> outMode[w]]]

\* A rewrite is one step to every reader: at any moment, with processes racing,
\* raising, killed and losing power, the path holds a whole text under the mode
\* the file had when that rewrite began, or what it held before.
RewritesAreAtomic == Contract!FileSpec
=============================================================================
