--------------------------- MODULE EvaluationProofs ---------------------------
(***************************************************************************)
(* Proofs about the evaluation tools, for any number of shells, version    *)
(* IDs, builds, opponents, pairs, openings, starts and kills.              *)
(*                                                                         *)
(* The registry of versions: types, who owns a directory, and what holds   *)
(* as long as no two writers overlapped.  An evaluation run: its three     *)
(* records of a game agree, and a report counts every planned game once.   *)
(***************************************************************************)
EXTENDS VersionRegistry, EvaluationRun, WellFoundedInduction, SequenceTheorems, TLAPS

-----------------------------------------------------------------------------
(* The registry of versions. *)

(* A step by a process changes the command of that process only. *)
LEMMA OneCommand ==
  ASSUME RegistryTypeOK, NEW p \in Process, Act(p)
  PROVE  \A q \in Process : q # p => cmd'[q] = cmd[q]
<1> USE DEF RegistryTypeOK, Goto, Return
<1>1. ASSUME NEW command, Begin(p, command)
      PROVE  \A q \in Process : q # p => cmd'[q] = cmd[q]
  BY <1>1 DEF Begin
<1>2. ASSUME FreezeLoads(p) \/ MakeDirectory(p) \/ Refuse(p) \/ WriteFile(p) \/ Register(p)
      PROVE  \A q \in Process : q # p => cmd'[q] = cmd[q]
  BY <1>2 DEF FreezeLoads, MakeDirectory, Refuse, WriteFile, Register
<1>3. ASSUME (\E v \in Version : VerifyFinds(p, v)) \/ VerifyReads(p) \/ VerifyFails(p)
      PROVE  \A q \in Process : q # p => cmd'[q] = cmd[q]
  BY <1>3 DEF VerifyFinds, VerifyReads, VerifyFails
<1>4. ASSUME Interrupt(p) \/ Cleanup(p) \/ Die(p)
      PROVE  \A q \in Process : q # p => cmd'[q] = cmd[q]
  BY <1>4 DEF Interrupt, Cleanup, Die
<1>5. ASSUME PromoteDecides(p) \/ PromoteLoads(p) \/ PromoteSaves(p)
      PROVE  \A q \in Process : q # p => cmd'[q] = cmd[q]
  BY <1>5 DEF PromoteDecides, PromoteLoads, PromoteSaves
<1> QED
  BY <1>1, <1>2, <1>3, <1>4, <1>5
  DEF Act, StartFreeze, StartPromote, StartVerify, StartSelect, BeginWriting

LEMMA IdleIsCommand == Idle \in Command /\ Bootstrapped \in Registry
<1>1. NewEntry(AnchorBuild) \in Entry
  BY RegistryConstants DEF NewEntry, Entry
<1>2. [NewEntry(AnchorBuild) EXCEPT !.accepted = TRUE] \in Entry
  BY <1>1 DEF Entry
<1>3. Bootstrapped \in Registry
  BY <1>2, RegistryConstants DEF Bootstrapped, Registry
<1>4. [program |-> ProgramOf[AnchorBuild], accepted |-> FALSE, override |-> FALSE] \in Promotion
  BY RegistryConstants DEF Promotion
<1>5. 0 \in 0 .. Files
  BY RegistryConstants
<1> QED BY <1>3, <1>4, <1>5, RegistryConstants DEF Idle, Command, Op, PC

LEMMA TypesInit == RegistryInit => RegistryTypeOK
<1> SUFFICES ASSUME RegistryInit PROVE RegistryTypeOK
  OBVIOUS
<1>1. directory \in [Version -> Directory \cup {NoDirectory}]
  BY RegistryConstants DEF RegistryInit, Directory
<1>2. started \in 0 .. MaxCommands
  BY RegistryConstants DEF RegistryInit
<1>3. cmd \in [Process -> Command] /\ registry \in Registry /\ overlapped \in BOOLEAN
  BY IdleIsCommand DEF RegistryInit
<1> QED BY <1>1, <1>2, <1>3 DEF RegistryTypeOK

LEMMA StartKeepsTypes ==
  ASSUME RegistryTypeOK, NEW p \in Process, NEW command \in Command, Begin(p, command),
         overlapped' \in BOOLEAN
  PROVE  RegistryTypeOK'
<1>1. started' \in 0 .. MaxCommands
  BY RegistryConstants DEF Begin, RegistryTypeOK
<1> QED BY <1>1 DEF Begin, RegistryTypeOK

(* A freeze writes one more file into a directory that is there, because   *)
(* it is its own.                                                          *)
LEMMA TypesStep ==
  ASSUME RegistryTypeOK, FreezeOwnsItsDirectory, NEW p \in Process, Act(p)
  PROVE  RegistryTypeOK'
<1> USE RegistryConstants, IdleIsCommand
<1>0. cmd[p] \in Command
  BY DEF RegistryTypeOK
<1>1. ASSUME NEW v \in Version, NEW b \in Build, StartFreeze(p, v, b)
      PROVE  RegistryTypeOK'
  <2>1. [Idle EXCEPT !.op = "freeze", !.pc = "load", !.version = v, !.build = b] \in Command
    BY DEF Command, Op, PC
  <2> QED BY <1>1, <2>1, StartKeepsTypes DEF StartFreeze, BeginWriting, RegistryTypeOK
<1>2. ASSUME NEW v \in Version, StartPromote(p, v) PROVE RegistryTypeOK'
  <2>1. [Idle EXCEPT !.op = "promote", !.pc = "find", !.todo = {v}] \in Command
    BY DEF Command, Op, PC
  <2> QED BY <1>2, <2>1, StartKeepsTypes DEF StartPromote, BeginWriting, RegistryTypeOK
<1>3. ASSUME NEW v \in Version, StartVerify(p, v) PROVE RegistryTypeOK'
  <2>1. [Idle EXCEPT !.op = "verify", !.pc = "find", !.todo = {v}] \in Command
    BY DEF Command, Op, PC
  <2> QED BY <1>3, <2>1, StartKeepsTypes DEF StartVerify, RegistryTypeOK
<1>4. ASSUME StartSelect(p) PROVE RegistryTypeOK'
  <2>1. PICK previous \in {{}} \cup {{v} : v \in Accepted(registry)} :
          Begin(p, [Idle EXCEPT !.op = "select", !.pc = "find",
                                !.todo = {registry.champion, Anchor} \cup previous])
    BY <1>4 DEF StartSelect
  <2>2. {registry.champion, Anchor} \cup previous \subseteq Version
    BY DEF Accepted, RegistryTypeOK, Registry
  <2>3. [Idle EXCEPT !.op = "select", !.pc = "find",
                     !.todo = {registry.champion, Anchor} \cup previous] \in Command
    BY <2>2 DEF Command, Op, PC
  <2> QED BY <1>4, <2>1, <2>3, StartKeepsTypes DEF StartSelect, RegistryTypeOK
<1>5. CASE FreezeLoads(p)
  <2>1. [cmd[p] EXCEPT !.pc = "make", !.snapshot = registry] \in Command
    BY <1>0 DEF RegistryTypeOK, Command, PC
  <2> QED BY <1>5, <2>1 DEF FreezeLoads, RegistryTypeOK
<1>6. ASSUME NEW to \in PC, Goto(p, to) PROVE cmd' \in [Process -> Command]
  <2>1. [cmd[p] EXCEPT !.pc = to] \in Command
    BY <1>0 DEF Command
  <2> QED BY <1>6, <2>1 DEF Goto, RegistryTypeOK
<1>7. ASSUME Return(p) PROVE cmd' \in [Process -> Command]
  BY <1>7 DEF Return, RegistryTypeOK
<1>8. CASE MakeDirectory(p)
  <2>1. [build |-> cmd[p].build, files |-> 0] \in Directory
    BY <1>0 DEF Command, Directory
  <2> QED BY <1>8, <2>1, <1>6 DEF MakeDirectory, RegistryTypeOK, PC
<1>9. CASE Refuse(p) \/ VerifyFails(p) \/ Die(p)
  BY <1>9, <1>7 DEF Refuse, VerifyFails, Die, RegistryTypeOK
<1>10. CASE WriteFile(p)
  <2>1. [cmd[p] EXCEPT !.written = @ + 1] \in Command
    BY <1>0, <1>10 DEF WriteFile, Command
  <2>2. directory[cmd[p].version] = [build |-> cmd[p].build, files |-> cmd[p].written]
    BY <1>10 DEF WriteFile, At, FreezeOwnsItsDirectory
  <2>3. [directory[cmd[p].version] EXCEPT !.files = @ + 1] \in Directory
    BY <1>0, <1>10, <2>2 DEF WriteFile, Command, Directory
  <2> QED BY <1>10, <2>1, <2>3 DEF WriteFile, RegistryTypeOK
<1>11. CASE Register(p)
  <2>1. NewEntry(cmd[p].build) \in Entry
    BY <1>0 DEF NewEntry, Entry, Command
  <2>2. [cmd[p].snapshot EXCEPT !.entries[cmd[p].version] = NewEntry(cmd[p].build)] \in Registry
    BY <1>0, <2>1 DEF Command, Registry
  <2>3. [cmd[p] EXCEPT !.pc = "find", !.todo = {cmd[p].version}, !.snapshot = Bootstrapped]
          \in Command
    BY <1>0 DEF Command, PC
  <2> QED BY <1>11, <2>2, <2>3 DEF Register, RegistryTypeOK
<1>12. ASSUME NEW v \in Version, VerifyFinds(p, v) PROVE RegistryTypeOK'
  <2>1. registry.entries[v] \in Entry
    BY <1>12 DEF VerifyFinds, RegistryTypeOK, Registry
  <2>2. [cmd[p] EXCEPT !.pc = "files", !.version = v, !.found = registry.entries[v]] \in Command
    BY <1>0, <2>1 DEF Command, PC
  <2> QED BY <1>12, <2>2 DEF VerifyFinds, RegistryTypeOK
<1>13. CASE VerifyReads(p)
  <2>1. [cmd[p] EXCEPT !.pc = "find", !.todo = cmd[p].todo \ {cmd[p].version}] \in Command
    BY <1>0 DEF Command, PC
  <2>2. cmd' \in [Process -> Command]
    BY <1>13, <2>1, <1>6, <1>7 DEF VerifyReads, RegistryTypeOK, PC
  <2> QED BY <1>13, <2>2 DEF VerifyReads, RegistryTypeOK
<1>14. CASE Interrupt(p)
  BY <1>14, <1>6 DEF Interrupt, RegistryTypeOK, PC
<1>15. CASE Cleanup(p)
  <2>1. ASSUME directory[cmd[p].version] # NoDirectory, directory[cmd[p].version].files > 0
        PROVE  [directory[cmd[p].version] EXCEPT !.files = @ - 1] \in Directory
    BY <1>0, <2>1 DEF RegistryTypeOK, Command, Directory
  <2> QED BY <1>15, <2>1, <1>7 DEF Cleanup, RegistryTypeOK
<1>16. CASE PromoteDecides(p)
  <2>1. PICK given \in Report, override \in BOOLEAN :
          cmd' = [cmd EXCEPT ![p].pc = "reload",
            ![p].promotion = [program |-> given.program, accepted |-> given.accepted,
                              override |-> override]]
    BY <1>16 DEF PromoteDecides
  <2>2. [program |-> given.program, accepted |-> given.accepted, override |-> override]
          \in Promotion
    BY DEF Report, Promotion
  <2>3. [cmd[p] EXCEPT !.pc = "reload",
           !.promotion = [program |-> given.program, accepted |-> given.accepted,
                          override |-> override]] \in Command
    BY <1>0, <2>2 DEF Command, PC
  <2> QED BY <1>16, <2>1, <2>3 DEF PromoteDecides, RegistryTypeOK
<1>17. CASE PromoteLoads(p)
  <2>1. [cmd[p] EXCEPT !.pc = "save", !.snapshot = registry] \in Command
    BY <1>0 DEF RegistryTypeOK, Command, PC
  <2> QED BY <1>17, <2>1 DEF PromoteLoads, RegistryTypeOK
<1>18. CASE PromoteSaves(p)
  <2>1. /\ cmd[p].version \in Version /\ cmd[p].snapshot \in Registry
        /\ cmd[p].promotion \in Promotion
    BY <1>0 DEF Command
  <2>2. registry' \in Registry
    <3>1. CASE cmd[p].snapshot.entries[cmd[p].version] = NoEntry
      BY <1>18, <2>1, <3>1 DEF PromoteSaves, Registry
    <3>2. CASE cmd[p].snapshot.entries[cmd[p].version] # NoEntry
      <4>1. cmd[p].snapshot.entries[cmd[p].version] \in Entry
        BY <2>1, <3>2 DEF Registry
      <4>2. [cmd[p].snapshot.entries[cmd[p].version] EXCEPT
               !.accepted = TRUE, !.promotions = @ \cup {cmd[p].promotion}] \in Entry
        BY <2>1, <4>1 DEF Entry
      <4> QED BY <1>18, <2>1, <3>2, <4>2 DEF PromoteSaves, Registry
    <3> QED BY <3>1, <3>2
  <2> QED BY <1>18, <2>2, <1>7 DEF PromoteSaves, RegistryTypeOK
<1> QED
  BY <1>1, <1>2, <1>3, <1>4, <1>5, <1>8, <1>9, <1>10, <1>11, <1>12, <1>13, <1>14, <1>15,
     <1>16, <1>17, <1>18
  DEF Act

(***************************************************************************)
(* Directories.  A freeze owns the directory of its version ID from its    *)
(* mkdir to its end, and no other freeze owns it: mkdir needs that there   *)
(* is none, and an owner's directory exists.                               *)
(***************************************************************************)
Owns(c) == c.op = "freeze" /\ c.pc \in {"write", "find", "files", "cleanup"}

OneOwner ==
  \A p, q \in Process :
    Owns(cmd[p]) /\ Owns(cmd[q]) /\ p # q => cmd[p].version # cmd[q].version

(* Which program counters a command has, what a freeze has written before  *)
(* its mkdir, and what it verifies.                                        *)
CommandShape(c) ==
  /\ c.pc \in {"load", "make"} => c.written = 0
  /\ c.pc \in {"load", "make", "write", "cleanup"} => c.op = "freeze"
  /\ c.pc \in {"decide", "reload", "save"} => c.op = "promote"
  /\ c.op = "freeze" /\ c.pc \in {"find", "files"} => c.todo = {c.version}

Shapes == \A p \in Process : CommandShape(cmd[p])

(* The part of FreezeOwnsItsDirectory about one command. *)
Owned(c, d) ==
  /\ c.op = "freeze" /\ c.pc \in {"write", "find", "files"} =>
       d[c.version] = [build |-> c.build, files |-> c.written]
  /\ c.pc = "cleanup" =>
       /\ d[c.version] # NoDirectory
       /\ d[c.version].build = c.build
       /\ d[c.version].files <= c.written

DirectoryInv == RegistryTypeOK /\ Shapes /\ OneOwner /\ FreezeOwnsItsDirectory

LEMMA OwnedIsFreezeOwns ==
  FreezeOwnsItsDirectory <=> \A p \in Process : Owned(cmd[p], directory)
  BY DEF FreezeOwnsItsDirectory, Owned

LEMMA IdleOwnsNothing == CommandShape(Idle) /\ ~Owns(Idle) /\ \A d : Owned(Idle, d)
<1>1. Idle.op = "select" /\ Idle.pc = "idle"
  BY DEF Idle
<1> QED BY <1>1 DEF CommandShape, Owns, Owned

LEMMA DirectoryInvInit == RegistryInit => DirectoryInv
  BY TypesInit
  DEF RegistryInit, DirectoryInv, Shapes, CommandShape, OneOwner, Owns,
      FreezeOwnsItsDirectory, Idle

(* A step that leaves the directories alone keeps the invariant if its     *)
(* command owns nothing new and what it owns is as it was.                 *)
LEMMA QuietStep ==
  ASSUME DirectoryInv, NEW p \in Process, Act(p), directory' = directory,
         CommandShape(cmd'[p]),
         Owns(cmd'[p]) => Owns(cmd[p]) /\ cmd'[p].version = cmd[p].version,
         Owned(cmd'[p], directory)
  PROVE  DirectoryInv'
<1>1. RegistryTypeOK'
  BY TypesStep DEF DirectoryInv
<1>2. \A q \in Process : q # p => cmd'[q] = cmd[q]
  BY OneCommand DEF DirectoryInv
<1>3. Shapes'
  BY <1>2 DEF Shapes, DirectoryInv
<1>4. OneOwner'
  BY <1>2 DEF OneOwner, DirectoryInv
<1>5. FreezeOwnsItsDirectory'
  <2>1. \A q \in Process : Owned(cmd'[q], directory')
    BY <1>2, OwnedIsFreezeOwns DEF DirectoryInv
  <2> QED BY <2>1 DEF FreezeOwnsItsDirectory, Owned
<1> QED BY <1>1, <1>3, <1>4, <1>5 DEF DirectoryInv

(* A step that changes the directory its command owns, and no other. *)
LEMMA OwnerStep ==
  ASSUME DirectoryInv, NEW p \in Process, Act(p),
         CommandShape(cmd'[p]),
         Owns(cmd'[p]) => cmd'[p].version = cmd[p].version,
         Owned(cmd'[p], directory'),
         \A q \in Process : q # p /\ Owns(cmd[q]) => cmd[q].version # cmd[p].version,
         \A v \in Version : v # cmd[p].version => directory'[v] = directory[v]
  PROVE  DirectoryInv'
<1>1. RegistryTypeOK'
  BY TypesStep DEF DirectoryInv
<1>2. \A q \in Process : q # p => cmd'[q] = cmd[q]
  BY OneCommand DEF DirectoryInv
<1>3. Shapes'
  BY <1>2 DEF Shapes, DirectoryInv
<1>4. OneOwner'
  BY <1>2 DEF OneOwner, DirectoryInv
<1>5. \A q \in Process : q # p => Owned(cmd'[q], directory')
  <2> SUFFICES ASSUME NEW q \in Process, q # p PROVE Owned(cmd[q], directory')
    BY <1>2
  <2>1. Owned(cmd[q], directory) /\ CommandShape(cmd[q]) /\ cmd[q].version \in Version
    BY OwnedIsFreezeOwns DEF DirectoryInv, Shapes, RegistryTypeOK, Command
  <2>2. CASE Owns(cmd[q])
    BY <2>1, <2>2 DEF Owned
  <2>3. CASE ~Owns(cmd[q])
    BY <2>1, <2>3 DEF Owned, Owns, CommandShape
  <2> QED BY <2>2, <2>3
<1>6. FreezeOwnsItsDirectory'
  BY <1>5 DEF FreezeOwnsItsDirectory, Owned
<1> QED BY <1>1, <1>3, <1>4, <1>6 DEF DirectoryInv

LEMMA DirectoryInvStep ==
  ASSUME DirectoryInv, NEW p \in Process, Act(p)
  PROVE  DirectoryInv'
<1> USE DEF DirectoryInv
<1>0. /\ cmd[p] \in Command /\ cmd \in [Process -> Command]
      /\ directory \in [Version -> Directory \cup {NoDirectory}]
      /\ CommandShape(cmd[p]) /\ Owned(cmd[p], directory)
  BY OwnedIsFreezeOwns DEF RegistryTypeOK, Shapes
<1>1. ASSUME NEW command, Begin(p, command), command.op # "freeze" \/ command.pc = "load",
             command.pc \in {"load", "find"}, command.pc = "load" => command.op = "freeze",
             command.written = 0
      PROVE  DirectoryInv'
  <2>1. cmd'[p] = command
    BY <1>0, <1>1 DEF Begin
  <2> QED BY <1>1, <2>1, QuietStep DEF Begin, CommandShape, Owns, Owned
<1>2. ASSUME NEW v \in Version, NEW b \in Build, StartFreeze(p, v, b)
      PROVE  DirectoryInv'
  <2>1. /\ [Idle EXCEPT !.op = "freeze", !.pc = "load", !.version = v, !.build = b].op = "freeze"
        /\ [Idle EXCEPT !.op = "freeze", !.pc = "load", !.version = v, !.build = b].pc = "load"
        /\ [Idle EXCEPT !.op = "freeze", !.pc = "load", !.version = v, !.build = b].written = 0
    BY DEF Idle
  <2> QED BY <1>1, <1>2, <2>1 DEF StartFreeze, BeginWriting
<1>3. ASSUME NEW v \in Version, StartPromote(p, v) PROVE DirectoryInv'
  <2>1. /\ [Idle EXCEPT !.op = "promote", !.pc = "find", !.todo = {v}].op = "promote"
        /\ [Idle EXCEPT !.op = "promote", !.pc = "find", !.todo = {v}].pc = "find"
        /\ [Idle EXCEPT !.op = "promote", !.pc = "find", !.todo = {v}].written = 0
    BY DEF Idle
  <2> QED BY <1>1, <1>3, <2>1 DEF StartPromote, BeginWriting
<1>4. ASSUME NEW v \in Version, StartVerify(p, v) PROVE DirectoryInv'
  <2>1. /\ [Idle EXCEPT !.op = "verify", !.pc = "find", !.todo = {v}].op = "verify"
        /\ [Idle EXCEPT !.op = "verify", !.pc = "find", !.todo = {v}].pc = "find"
        /\ [Idle EXCEPT !.op = "verify", !.pc = "find", !.todo = {v}].written = 0
    BY DEF Idle
  <2> QED BY <1>1, <1>4, <2>1 DEF StartVerify
<1>5. ASSUME StartSelect(p) PROVE DirectoryInv'
  <2>1. PICK todo : Begin(p, [Idle EXCEPT !.op = "select", !.pc = "find", !.todo = todo])
    BY <1>5 DEF StartSelect
  <2>2. /\ [Idle EXCEPT !.op = "select", !.pc = "find", !.todo = todo].op = "select"
        /\ [Idle EXCEPT !.op = "select", !.pc = "find", !.todo = todo].pc = "find"
        /\ [Idle EXCEPT !.op = "select", !.pc = "find", !.todo = todo].written = 0
    BY DEF Idle
  <2> QED BY <1>1, <2>1, <2>2
<1>6. CASE FreezeLoads(p)
  <2>1. /\ cmd'[p].op = "freeze" /\ cmd'[p].pc = "make" /\ cmd'[p].written = 0
        /\ directory' = directory
    BY <1>0, <1>6 DEF FreezeLoads, At, Command, CommandShape
  <2> QED BY <2>1, QuietStep DEF CommandShape, Owns, Owned
<1>7. CASE MakeDirectory(p)
  <2>1. /\ cmd'[p] = [cmd[p] EXCEPT !.pc = "write"]
        /\ cmd[p].op = "freeze" /\ cmd[p].pc = "make" /\ cmd[p].version \in Version
    BY <1>0, <1>7 DEF MakeDirectory, Goto, At, Command
  <2>2. \A q \in Process : q # p /\ Owns(cmd[q]) => cmd[q].version # cmd[p].version
    <3> SUFFICES ASSUME NEW q \in Process, Owns(cmd[q])
                 PROVE  directory[cmd[q].version] # NoDirectory
      BY <1>7 DEF MakeDirectory
    <3>1. Owned(cmd[q], directory) /\ cmd[q] \in Command
      BY OwnedIsFreezeOwns DEF RegistryTypeOK
    <3>2. [build |-> cmd[q].build, files |-> cmd[q].written] \in Directory
      BY <3>1 DEF Command, Directory
    <3> QED BY <3>1, <3>2, RegistryConstants DEF Owned, Owns
  <2>3. directory'[cmd[p].version] = [build |-> cmd[p].build, files |-> 0]
    BY <1>0, <1>7, <2>1 DEF MakeDirectory
  <2>4. cmd[p].written = 0
    BY <1>0, <2>1 DEF CommandShape
  <2>5. \A v \in Version : v # cmd[p].version => directory'[v] = directory[v]
    BY <1>0, <1>7 DEF MakeDirectory
  <2>6. Owned(cmd'[p], directory')
    BY <1>0, <2>1, <2>3, <2>4 DEF Owned, Command
  <2> QED BY <1>0, <2>1, <2>2, <2>5, <2>6, OwnerStep DEF CommandShape, Owns, Command
<1>8. CASE Refuse(p) \/ VerifyFails(p) \/ Die(p)
  <2>1. cmd'[p] = Idle /\ directory' = directory
    BY <1>0, <1>8 DEF Refuse, VerifyFails, Die, Return
  <2> QED BY <2>1, QuietStep, IdleOwnsNothing
<1>9. CASE WriteFile(p)
  <2>1. /\ cmd'[p] = [cmd[p] EXCEPT !.written = @ + 1]
        /\ cmd[p].op = "freeze" /\ cmd[p].pc = "write" /\ cmd[p].version \in Version
    BY <1>0, <1>9 DEF WriteFile, At, Command
  <2>2. directory[cmd[p].version] = [build |-> cmd[p].build, files |-> cmd[p].written]
    BY <1>0, <2>1 DEF Owned
  <2>3. directory'[cmd[p].version] = [build |-> cmd[p].build, files |-> cmd[p].written + 1]
    BY <1>0, <1>9, <2>1, <2>2 DEF WriteFile
  <2>4. \A v \in Version : v # cmd[p].version => directory'[v] = directory[v]
    BY <1>0, <1>9 DEF WriteFile
  <2>5. Owned(cmd'[p], directory')
    BY <1>0, <2>1, <2>3 DEF Owned, Command
  <2>6. Owns(cmd[p])
    BY <2>1 DEF Owns
  <2>7. \A q \in Process : q # p /\ Owns(cmd[q]) => cmd[q].version # cmd[p].version
    BY <2>6 DEF OneOwner
  <2> QED BY <1>0, <2>1, <2>4, <2>5, <2>7, OwnerStep DEF CommandShape, Command
<1>10. CASE Register(p)
  <2>1. /\ cmd'[p] = [cmd[p] EXCEPT !.pc = "find", !.todo = {cmd[p].version},
                                    !.snapshot = Bootstrapped]
        /\ cmd[p].op = "freeze" /\ cmd[p].pc = "write" /\ directory' = directory
    BY <1>0, <1>10 DEF Register, At
  <2>2. Owned(cmd'[p], directory) /\ CommandShape(cmd'[p])
    BY <1>0, <2>1 DEF Owned, CommandShape, Command
  <2> QED BY <1>0, <2>1, <2>2, QuietStep DEF Owns, Command
<1>11. ASSUME NEW v \in Version, VerifyFinds(p, v) PROVE DirectoryInv'
  <2>1. /\ cmd'[p] = [cmd[p] EXCEPT !.pc = "files", !.version = v,
                                    !.found = registry.entries[v]]
        /\ cmd[p].pc = "find" /\ v \in cmd[p].todo /\ directory' = directory
    BY <1>0, <1>11 DEF VerifyFinds
  <2>2. cmd[p].op = "freeze" => v = cmd[p].version
    BY <1>0, <2>1 DEF CommandShape
  <2>3. Owned(cmd'[p], directory) /\ CommandShape(cmd'[p])
    BY <1>0, <2>1, <2>2 DEF Owned, CommandShape, Command
  <2> QED BY <1>0, <2>1, <2>2, <2>3, QuietStep DEF Owns, Command
<1>12. CASE VerifyReads(p)
  <2>1. cmd[p].pc = "files" /\ directory' = directory
    BY <1>12 DEF VerifyReads
  <2>2. CASE cmd[p].op = "promote"
    <3>1. cmd'[p] = [cmd[p] EXCEPT !.pc = "decide"]
      BY <1>0, <1>12, <2>2 DEF VerifyReads, Goto
    <3> QED BY <1>0, <2>1, <2>2, <3>1, QuietStep DEF Owns, Owned, CommandShape, Command
  <2>3. CASE cmd'[p] = Idle
    BY <2>1, <2>3, QuietStep, IdleOwnsNothing
  <2>4. CASE /\ cmd[p].todo \ {cmd[p].version} # {}
             /\ cmd'[p] = [cmd[p] EXCEPT !.pc = "find", !.todo = @ \ {cmd[p].version}]
    <3>1. cmd[p].op # "freeze"
      BY <1>0, <2>1, <2>4 DEF CommandShape
    <3> QED BY <1>0, <2>1, <2>4, <3>1, QuietStep DEF Owns, Owned, CommandShape, Command
  <2> QED BY <1>0, <1>12, <2>2, <2>3, <2>4 DEF VerifyReads, Return
<1>13. CASE Interrupt(p)
  <2>1. /\ cmd'[p] = [cmd[p] EXCEPT !.pc = "cleanup"] /\ cmd[p].op = "freeze"
        /\ cmd[p].pc \in {"write", "find", "files"} /\ directory' = directory
    BY <1>0, <1>13 DEF Interrupt, Goto
  <2>2. directory[cmd[p].version] = [build |-> cmd[p].build, files |-> cmd[p].written]
    BY <1>0, <2>1 DEF Owned
  <2>3. directory[cmd[p].version] \in Directory
    BY <1>0, <2>2 DEF Command, Directory
  <2>4. Owned(cmd'[p], directory) /\ CommandShape(cmd'[p])
    BY <1>0, <2>1, <2>2, <2>3, RegistryConstants DEF Owned, CommandShape, Command
  <2> QED BY <1>0, <2>1, <2>4, QuietStep DEF Owns, Command
<1>14. CASE Cleanup(p)
  <2>1. /\ cmd[p].op = "freeze" /\ cmd[p].pc = "cleanup" /\ cmd[p].version \in Version
        /\ directory[cmd[p].version] \in Directory
        /\ directory[cmd[p].version].build = cmd[p].build
        /\ directory[cmd[p].version].files <= cmd[p].written
    BY <1>0, <1>14 DEF Cleanup, At, Owned, Command
  <2>2. Owns(cmd[p])
    BY <2>1 DEF Owns
  <2>3. \A q \in Process : q # p /\ Owns(cmd[q]) => cmd[q].version # cmd[p].version
    BY <2>2 DEF OneOwner
  <2>4. \A v \in Version : v # cmd[p].version => directory'[v] = directory[v]
    BY <1>0, <1>14 DEF Cleanup
  <2>5. CASE directory[cmd[p].version].files > 0
    <3>1. /\ cmd'[p] = cmd[p]
          /\ directory'[cmd[p].version] = [directory[cmd[p].version] EXCEPT !.files = @ - 1]
      BY <1>0, <1>14, <2>1, <2>5, RegistryConstants DEF Cleanup
    <3>2. directory'[cmd[p].version] \in Directory
      <4>1. directory[cmd[p].version].files - 1 \in 0 .. Files
        BY <2>1, <2>5, RegistryConstants DEF Directory
      <4> QED BY <2>1, <3>1, <4>1 DEF Directory
    <3>3. /\ directory'[cmd[p].version].build = cmd[p].build
          /\ directory'[cmd[p].version].files <= cmd[p].written
      BY <1>0, <2>1, <3>1 DEF Directory, Command
    <3>4. Owned(cmd'[p], directory')
      BY <2>1, <3>1, <3>2, <3>3, RegistryConstants DEF Owned
    <3> QED BY <1>0, <2>3, <2>4, <3>1, <3>4, OwnerStep
  <2>6. CASE ~(directory[cmd[p].version].files > 0)
    <3>1. cmd'[p] = Idle
      BY <1>0, <1>14, <2>1, <2>6 DEF Cleanup, Return
    <3> QED BY <2>3, <2>4, <3>1, OwnerStep, IdleOwnsNothing
  <2> QED BY <2>5, <2>6
<1>15. CASE PromoteDecides(p)
  <2>1. /\ cmd'[p].pc = "reload" /\ cmd'[p].op = "promote" /\ directory' = directory
    BY <1>0, <1>15 DEF PromoteDecides, At, Command
  <2> QED BY <2>1, QuietStep DEF CommandShape, Owns, Owned
<1>16. CASE PromoteLoads(p)
  <2>1. /\ cmd'[p].pc = "save" /\ cmd'[p].op = "promote" /\ directory' = directory
    BY <1>0, <1>16 DEF PromoteLoads, At, Command
  <2> QED BY <2>1, QuietStep DEF CommandShape, Owns, Owned
<1>17. CASE PromoteSaves(p)
  <2>1. cmd'[p] = Idle /\ directory' = directory
    BY <1>0, <1>17 DEF PromoteSaves, Return
  <2> QED BY <2>1, QuietStep, IdleOwnsNothing
<1> QED
  BY <1>2, <1>3, <1>4, <1>5, <1>6, <1>7, <1>8, <1>9, <1>10, <1>11, <1>12, <1>13, <1>14,
     <1>15, <1>16, <1>17
  DEF Act

(* DirectoryInv is inductive: types, and each freeze's directory, of every *)
(* interleaving of any number of commands on any number of versions.       *)
THEOREM DirectoryInvariant == RegistrySpec => []DirectoryInv
<1>1. ASSUME DirectoryInv, [RegistryNext]_registryVars PROVE DirectoryInv'
  <2>1. CASE UNCHANGED registryVars
    BY <1>1, <2>1
    DEF DirectoryInv, RegistryTypeOK, Shapes, OneOwner, FreezeOwnsItsDirectory, registryVars
  <2>2. CASE RegistryNext
    BY <1>1, <2>2, DirectoryInvStep DEF RegistryNext
  <2> QED BY <1>1, <2>1, <2>2
<1> QED BY <1>1, DirectoryInvInit, PTL DEF RegistrySpec

(* The registry file, the directories and the commands keep their types.   *)
THEOREM RegistryTypesCorrect == RegistrySpec => []RegistryTypeOK
<1>1. DirectoryInv => RegistryTypeOK
  BY DEF DirectoryInv
<1> QED BY <1>1, DirectoryInvariant, PTL

(* Two freezes of one version ID never mix their artifacts, nor does the   *)
(* handler of one remove what the other has written (version_registry.py,  *)
(* freeze), for any number of shells, versions and files.                  *)
THEOREM FreezesOwnTheirDirectories == RegistrySpec => []FreezeOwnsItsDirectory
<1>1. DirectoryInv => FreezeOwnsItsDirectory
  BY DEF DirectoryInv
<1> QED BY <1>1, DirectoryInvariant, PTL

(***************************************************************************)
(* Registries on which no two writers overlapped.  Then what a writer read *)
(* is what it will overwrite, a freeze works on a version ID that is not   *)
(* accepted, and a promotion on one that stays as it was verified.         *)
(***************************************************************************)
Writes(c) == c.op \in {"freeze", "promote"} /\ c.pc # "idle"

SoleWriter == \A p, q \in Process : Writes(cmd[p]) /\ Writes(cmd[q]) => p = q

(* What a command may rely on, in registry r with directories d. *)
FreezeKnows(c, r) ==
  c.op = "freeze" =>
    /\ c.pc \in {"make", "write"} => c.snapshot = r /\ r.entries[c.version] = NoEntry
    /\ c.pc \in {"make", "write", "find", "files", "cleanup"} => c.version \notin Accepted(r)

PromoteKnows(c, r, d) ==
  c.op = "promote" =>
    /\ c.pc \in {"files", "decide", "reload", "save"} =>
         c.found = r.entries[c.version] /\ c.found # NoEntry
    /\ c.pc \in {"decide", "reload", "save"} => d[c.version] = Whole(c.found.build)
    /\ c.pc \in {"reload", "save"} =>
         /\ c.promotion.program = ProgramOf[c.found.build]
         /\ c.promotion.accepted \/ c.promotion.override
    /\ c.pc = "save" => c.snapshot = r

SelectKnows(c, r) == c.op = "select" /\ c.pc # "idle" => c.todo \subseteq Accepted(r)

Knows(c, r, d) == FreezeKnows(c, r) /\ PromoteKnows(c, r, d) /\ SelectKnows(c, r)

AcceptedWhole == \A v \in Accepted(registry) : directory[v] = Whole(registry.entries[v].build)

Proven(r) ==
  r.champion # Anchor =>
    \E m \in r.entries[r.champion].promotions :
      m.program = ProgramOf[r.entries[r.champion].build] /\ (m.accepted \/ m.override)

OrderlyInv ==
  /\ SoleWriter
  /\ \A p \in Process : Knows(cmd[p], registry, directory)
  /\ AcceptedWhole
  /\ {registry.champion, Anchor} \subseteq Accepted(registry)
  /\ Proven(registry)

OverlapInv == ~overlapped => OrderlyInv

(* What AcceptedStays asks of a step without overlap. *)
AcceptedKept ==
  \A v \in Accepted(registry) :
    /\ v \in Accepted(registry')
    /\ registry'.entries[v].build = registry.entries[v].build
    /\ registry.entries[v].promotions \subseteq registry'.entries[v].promotions
    /\ directory'[v] = directory[v]

LEMMA IdleKnowsNothing == ~Writes(Idle) /\ \A r, d : Knows(Idle, r, d)
<1>1. Idle.op = "select" /\ Idle.pc = "idle"
  BY DEF Idle
<1> QED BY <1>1 DEF Writes, Knows, FreezeKnows, PromoteKnows, SelectKnows

LEMMA OverlapInvInit == RegistryInit => OverlapInv
<1> SUFFICES ASSUME RegistryInit PROVE OrderlyInv
  BY DEF OverlapInv
<1> USE RegistryConstants
<1>1. Accepted(Bootstrapped) = {Anchor}
  <2>1. NewEntry(AnchorBuild) \in Entry
    BY DEF NewEntry, Entry
  <2>2. [NewEntry(AnchorBuild) EXCEPT !.accepted = TRUE] \in Entry
    BY <2>1 DEF Entry
  <2>3. [NewEntry(AnchorBuild) EXCEPT !.accepted = TRUE].accepted
    BY DEF NewEntry
  <2> QED BY <2>2, <2>3 DEF Accepted, Bootstrapped
<1>2. Bootstrapped.champion = Anchor /\ Bootstrapped.entries[Anchor].build = AnchorBuild
  BY DEF Bootstrapped, NewEntry
<1>3. AcceptedWhole
  BY <1>1, <1>2 DEF RegistryInit, AcceptedWhole, Whole
<1>4. \A p \in Process : cmd[p] = Idle
  BY DEF RegistryInit
<1> QED
  BY <1>1, <1>2, <1>3, <1>4, IdleKnowsNothing DEF RegistryInit, OrderlyInv, SoleWriter, Proven

(* Overlap is remembered, so a step that ends without began without. *)
LEMMA OverlapStays ==
  ASSUME RegistryTypeOK, NEW p \in Process, Act(p), ~overlapped'
  PROVE  ~overlapped
  BY DEF Act, StartFreeze, StartPromote, StartVerify, StartSelect, BeginWriting, FreezeLoads,
         MakeDirectory, Refuse, WriteFile, Register, VerifyFinds, VerifyReads, VerifyFails,
         Interrupt, Cleanup, PromoteDecides, PromoteLoads, PromoteSaves, Die

(* A step that changes no file. *)
LEMMA ReadingStep ==
  ASSUME RegistryTypeOK, OrderlyInv, NEW p \in Process, Act(p),
         registry' = registry, directory' = directory,
         Writes(cmd'[p]) => Writes(cmd[p]) \/ \A q \in Process : ~Writes(cmd[q]),
         Knows(cmd'[p], registry, directory)
  PROVE  OrderlyInv' /\ AcceptedKept
<1>1. \A q \in Process : q # p => cmd'[q] = cmd[q]
  BY OneCommand
<1>2. SoleWriter'
  BY <1>1 DEF SoleWriter, OrderlyInv
<1>3. \A q \in Process : Knows(cmd'[q], registry', directory')
  BY <1>1 DEF OrderlyInv
<1>4. /\ AcceptedWhole' /\ Proven(registry')
      /\ {registry'.champion, Anchor} \subseteq Accepted(registry')
  BY DEF OrderlyInv, AcceptedWhole
<1>5. AcceptedKept
  BY DEF AcceptedKept
<1> QED BY <1>2, <1>3, <1>4, <1>5 DEF OrderlyInv

(* A step that changes files: the other commands are readers, and rely on  *)
(* nothing but what stays accepted.                                        *)
LEMMA WritingStep ==
  ASSUME RegistryTypeOK, OrderlyInv, NEW p \in Process, Act(p),
         Writes(cmd[p]), AcceptedKept,
         Knows(cmd'[p], registry', directory'),
         \A v \in Accepted(registry') :
           v \in Accepted(registry) \/ directory'[v] = Whole(registry'.entries[v].build),
         registry'.champion \in Accepted(registry'),
         Proven(registry')
  PROVE  OrderlyInv'
<1>1. \A q \in Process : q # p => cmd'[q] = cmd[q] /\ ~Writes(cmd[q])
  BY OneCommand DEF OrderlyInv, SoleWriter
<1>2. SoleWriter'
  BY <1>1 DEF SoleWriter
<1>3. ASSUME NEW q \in Process, q # p PROVE Knows(cmd'[q], registry', directory')
  <2>1. SelectKnows(cmd[q], registry) /\ ~Writes(cmd[q]) /\ cmd'[q] = cmd[q]
    BY <1>1, <1>3 DEF OrderlyInv, Knows
  <2>2. SelectKnows(cmd[q], registry')
    BY <2>1 DEF SelectKnows, AcceptedKept
  <2> QED
    BY <2>1, <2>2 DEF Knows, FreezeKnows, PromoteKnows, Writes
<1>4. AcceptedWhole'
  BY DEF AcceptedWhole, AcceptedKept, OrderlyInv
<1>5. {registry'.champion, Anchor} \subseteq Accepted(registry')
  BY DEF AcceptedKept, OrderlyInv
<1> QED BY <1>2, <1>3, <1>4, <1>5 DEF OrderlyInv

(* A freeze that changes the directory of its version ID, which is not     *)
(* accepted.                                                               *)
LEMMA FreezingStep ==
  ASSUME RegistryTypeOK, OrderlyInv, NEW p \in Process, Act(p),
         cmd[p].op = "freeze", cmd[p].pc \in {"make", "write", "cleanup"},
         registry' = registry, Knows(cmd'[p], registry, directory'),
         \A v \in Version : v # cmd[p].version => directory'[v] = directory[v]
  PROVE  OrderlyInv' /\ AcceptedKept
<1>1. cmd[p].version \notin Accepted(registry)
  BY DEF OrderlyInv, Knows, FreezeKnows
<1>2. AcceptedKept
  BY <1>1 DEF AcceptedKept, Accepted
<1>3. Writes(cmd[p])
  BY DEF Writes
<1> QED BY <1>2, <1>3, WritingStep DEF OrderlyInv

(* Every command, at every file access, alone or among readers.            *)
LEMMA OrderlyStep ==
  ASSUME DirectoryInv, OrderlyInv, NEW p \in Process, Act(p), ~overlapped'
  PROVE  OrderlyInv' /\ AcceptedKept
<1> DEFINE Goal == OrderlyInv' /\ AcceptedKept
<1>0. /\ RegistryTypeOK /\ cmd[p] \in Command /\ cmd \in [Process -> Command]
      /\ directory \in [Version -> Directory \cup {NoDirectory}] /\ registry \in Registry
      /\ CommandShape(cmd[p]) /\ Knows(cmd[p], registry, directory)
  BY DEF DirectoryInv, RegistryTypeOK, Shapes, OrderlyInv
<1>1. ASSUME NEW command, BeginWriting(p, command),
             \/ command.op = "freeze" /\ command.pc = "load"
             \/ command.op = "promote" /\ command.pc = "find"
      PROVE  Goal
  <2>1. cmd'[p] = command /\ registry' = registry /\ directory' = directory
    BY <1>0, <1>1 DEF BeginWriting, Begin
  <2>2. \A q \in Process : ~Writes(cmd[q])
    BY <1>1 DEF BeginWriting, Writing, Writes
  <2>3. Knows(command, registry, directory)
    BY <1>1 DEF Knows, FreezeKnows, PromoteKnows, SelectKnows
  <2> QED BY <1>0, <2>1, <2>2, <2>3, ReadingStep
<1>2. ASSUME NEW v \in Version, NEW b \in Build, StartFreeze(p, v, b) PROVE Goal
  <2>1. /\ [Idle EXCEPT !.op = "freeze", !.pc = "load", !.version = v, !.build = b].op = "freeze"
        /\ [Idle EXCEPT !.op = "freeze", !.pc = "load", !.version = v, !.build = b].pc = "load"
    BY DEF Idle
  <2> QED BY <1>1, <1>2, <2>1 DEF StartFreeze
<1>3. ASSUME NEW v \in Version, StartPromote(p, v) PROVE Goal
  <2>1. /\ [Idle EXCEPT !.op = "promote", !.pc = "find", !.todo = {v}].op = "promote"
        /\ [Idle EXCEPT !.op = "promote", !.pc = "find", !.todo = {v}].pc = "find"
    BY DEF Idle
  <2> QED BY <1>1, <1>3, <2>1 DEF StartPromote
<1>4. ASSUME NEW v \in Version, StartVerify(p, v) PROVE Goal
  <2>1. cmd'[p].op = "verify" /\ registry' = registry /\ directory' = directory
    BY <1>0, <1>4 DEF StartVerify, Begin, Idle
  <2>2. Knows(cmd'[p], registry, directory) /\ ~Writes(cmd'[p])
    BY <2>1 DEF Knows, FreezeKnows, PromoteKnows, SelectKnows, Writes
  <2> QED BY <1>0, <2>1, <2>2, ReadingStep
<1>5. CASE StartSelect(p)
  <2>1. PICK previous \in {{}} \cup {{v} : v \in Accepted(registry)} :
          Begin(p, [Idle EXCEPT !.op = "select", !.pc = "find",
                                !.todo = {registry.champion, Anchor} \cup previous])
    BY <1>5 DEF StartSelect
  <2>2. /\ cmd'[p].op = "select" /\ cmd'[p].todo = {registry.champion, Anchor} \cup previous
        /\ registry' = registry /\ directory' = directory
    BY <1>0, <2>1 DEF Begin, Idle
  <2>3. cmd'[p].todo \subseteq Accepted(registry)
    BY <2>2 DEF OrderlyInv
  <2>4. Knows(cmd'[p], registry, directory) /\ ~Writes(cmd'[p])
    BY <2>2, <2>3 DEF Knows, FreezeKnows, PromoteKnows, SelectKnows, Writes
  <2> QED BY <1>0, <2>2, <2>4, ReadingStep
<1>6. CASE FreezeLoads(p)
  <2>1. /\ cmd'[p] = [cmd[p] EXCEPT !.pc = "make", !.snapshot = registry]
        /\ cmd[p].op = "freeze" /\ cmd[p].pc = "load"
        /\ registry.entries[cmd[p].version] = NoEntry
        /\ registry' = registry /\ directory' = directory
    BY <1>0, <1>6 DEF FreezeLoads, At
  <2>2. cmd[p].version \notin Accepted(registry)
    BY <2>1 DEF Accepted
  <2>3. Knows(cmd'[p], registry, directory) /\ Writes(cmd[p])
    BY <1>0, <2>1, <2>2
    DEF Knows, FreezeKnows, PromoteKnows, SelectKnows, Writes, Command
  <2> QED BY <1>0, <2>1, <2>3, ReadingStep
<1>7. CASE MakeDirectory(p)
  <2>1. /\ cmd'[p] = [cmd[p] EXCEPT !.pc = "write"]
        /\ cmd[p].op = "freeze" /\ cmd[p].pc = "make" /\ registry' = registry
        /\ \A v \in Version : v # cmd[p].version => directory'[v] = directory[v]
    BY <1>0, <1>7 DEF MakeDirectory, At, Goto
  <2>2. Knows(cmd'[p], registry, directory')
    BY <1>0, <2>1 DEF Knows, FreezeKnows, PromoteKnows, SelectKnows, Command
  <2> QED BY <1>0, <2>1, <2>2, FreezingStep
<1>8. CASE Refuse(p) \/ VerifyFails(p) \/ Die(p)
  <2>1. cmd'[p] = Idle /\ registry' = registry /\ directory' = directory
    BY <1>0, <1>8 DEF Refuse, VerifyFails, Die, Return
  <2> QED BY <1>0, <2>1, IdleKnowsNothing, ReadingStep
<1>9. CASE WriteFile(p)
  <2>1. /\ cmd'[p] = [cmd[p] EXCEPT !.written = @ + 1]
        /\ cmd[p].op = "freeze" /\ cmd[p].pc = "write" /\ registry' = registry
        /\ \A v \in Version : v # cmd[p].version => directory'[v] = directory[v]
    BY <1>0, <1>9 DEF WriteFile, At
  <2>2. Knows(cmd'[p], registry, directory')
    BY <1>0, <2>1 DEF Knows, FreezeKnows, PromoteKnows, SelectKnows, Command
  <2> QED BY <1>0, <2>1, <2>2, FreezingStep
<1>10. CASE Register(p)
  <2>1. /\ cmd'[p].op = "freeze" /\ cmd'[p].pc = "find" /\ cmd'[p].version = cmd[p].version
        /\ cmd[p].op = "freeze" /\ cmd[p].pc = "write" /\ directory' = directory
        /\ registry' = [cmd[p].snapshot EXCEPT
             !.entries[cmd[p].version] = NewEntry(cmd[p].build)]
    BY <1>0, <1>10 DEF Register, At, Command
  <2>2. cmd[p].snapshot = registry /\ registry.entries[cmd[p].version] = NoEntry
    BY <1>0, <2>1 DEF Knows, FreezeKnows
  <2>3. /\ registry'.champion = registry.champion
        /\ \A v \in Version : v # cmd[p].version => registry'.entries[v] = registry.entries[v]
        /\ registry'.entries[cmd[p].version] = NewEntry(cmd[p].build)
    BY <1>0, <2>1, <2>2 DEF Registry, Command
  <2>4. Accepted(registry') = Accepted(registry) /\ cmd[p].version \notin Accepted(registry)
    BY <2>2, <2>3 DEF Accepted, NewEntry
  <2>5. AcceptedKept
    BY <2>1, <2>3, <2>4 DEF AcceptedKept, Accepted
  <2>6. Proven(registry')
    BY <2>3, <2>4 DEF Proven, OrderlyInv, Accepted
  <2>7. Knows(cmd'[p], registry', directory') /\ Writes(cmd[p])
    BY <2>1, <2>4 DEF Knows, FreezeKnows, PromoteKnows, SelectKnows, Writes
  <2> QED BY <1>0, <2>3, <2>4, <2>5, <2>6, <2>7, WritingStep DEF OrderlyInv
<1>11. ASSUME NEW v \in Version, VerifyFinds(p, v) PROVE Goal
  <2>1. /\ cmd'[p] = [cmd[p] EXCEPT !.pc = "files", !.version = v,
                                    !.found = registry.entries[v]]
        /\ cmd[p].pc = "find" /\ v \in cmd[p].todo /\ registry.entries[v] # NoEntry
        /\ registry' = registry /\ directory' = directory
    BY <1>0, <1>11 DEF VerifyFinds
  <2>2. cmd[p].op = "freeze" => v = cmd[p].version
    BY <1>0, <2>1 DEF CommandShape
  <2>3. Knows(cmd'[p], registry, directory)
    BY <1>0, <2>1, <2>2 DEF Knows, FreezeKnows, PromoteKnows, SelectKnows, Command
  <2>4. Writes(cmd'[p]) => Writes(cmd[p])
    BY <1>0, <2>1 DEF Writes, Command
  <2> QED BY <1>0, <2>1, <2>3, <2>4, ReadingStep
<1>12. CASE VerifyReads(p)
  <2>1. /\ cmd[p].pc = "files" /\ registry' = registry /\ directory' = directory
        /\ directory[cmd[p].version] = Whole(cmd[p].found.build)
    BY <1>12 DEF VerifyReads
  <2>2. CASE cmd[p].op = "promote"
    <3>1. cmd'[p] = [cmd[p] EXCEPT !.pc = "decide"]
      BY <1>0, <1>12, <2>2 DEF VerifyReads, Goto
    <3>2. Knows(cmd'[p], registry, directory) /\ Writes(cmd[p])
      BY <1>0, <2>1, <2>2, <3>1
      DEF Knows, FreezeKnows, PromoteKnows, SelectKnows, Writes, Command
    <3> QED BY <1>0, <2>1, <3>2, ReadingStep
  <2>3. CASE cmd'[p] = Idle
    BY <1>0, <2>1, <2>3, IdleKnowsNothing, ReadingStep
  <2>4. CASE /\ cmd[p].op # "promote"
             /\ cmd[p].todo \ {cmd[p].version} # {}
             /\ cmd'[p] = [cmd[p] EXCEPT !.pc = "find", !.todo = @ \ {cmd[p].version}]
    <3>1. cmd[p].op # "freeze"
      BY <1>0, <2>1, <2>4 DEF CommandShape
    <3>2. Knows(cmd'[p], registry, directory) /\ ~Writes(cmd'[p])
      BY <1>0, <2>1, <2>4, <3>1
      DEF Knows, FreezeKnows, PromoteKnows, SelectKnows, Writes, Command
    <3> QED BY <1>0, <2>1, <3>2, ReadingStep
  <2> QED BY <1>0, <1>12, <2>2, <2>3, <2>4 DEF VerifyReads, Return
<1>13. CASE Interrupt(p)
  <2>1. /\ cmd'[p] = [cmd[p] EXCEPT !.pc = "cleanup"] /\ cmd[p].op = "freeze"
        /\ cmd[p].pc \in {"write", "find", "files"}
        /\ registry' = registry /\ directory' = directory
    BY <1>0, <1>13 DEF Interrupt, Goto
  <2>2. Knows(cmd'[p], registry, directory) /\ Writes(cmd[p])
    BY <1>0, <2>1 DEF Knows, FreezeKnows, PromoteKnows, SelectKnows, Writes, Command
  <2> QED BY <1>0, <2>1, <2>2, ReadingStep
<1>14. CASE Cleanup(p)
  <2>1. /\ cmd[p].op = "freeze" /\ cmd[p].pc = "cleanup" /\ registry' = registry
        /\ cmd'[p] = cmd[p] \/ cmd'[p] = Idle
        /\ \A v \in Version : v # cmd[p].version => directory'[v] = directory[v]
    BY <1>0, <1>14 DEF Cleanup, At, Return
  <2>2. Knows(cmd'[p], registry, directory')
    BY <1>0, <2>1, IdleKnowsNothing DEF Knows, FreezeKnows, PromoteKnows, SelectKnows
  <2> QED BY <1>0, <2>1, <2>2, FreezingStep
<1>15. CASE PromoteDecides(p)
  <2>1. PICK given \in Report, override \in BOOLEAN :
          /\ given.accepted \/ override
          /\ given.program = ProgramOf[cmd[p].found.build]
          /\ cmd' = [cmd EXCEPT ![p].pc = "reload",
               ![p].promotion = [program |-> given.program, accepted |-> given.accepted,
                                 override |-> override]]
    BY <1>15 DEF PromoteDecides
  <2>2. /\ cmd[p].op = "promote" /\ cmd[p].pc = "decide"
        /\ registry' = registry /\ directory' = directory
        /\ cmd'[p] = [cmd[p] EXCEPT !.pc = "reload",
             !.promotion = [program |-> given.program, accepted |-> given.accepted,
                            override |-> override]]
    BY <1>0, <1>15, <2>1 DEF PromoteDecides, At
  <2>3. Knows(cmd'[p], registry, directory) /\ Writes(cmd[p])
    BY <1>0, <2>1, <2>2 DEF Knows, FreezeKnows, PromoteKnows, SelectKnows, Writes, Command
  <2> QED BY <1>0, <2>2, <2>3, ReadingStep
<1>16. CASE PromoteLoads(p)
  <2>1. /\ cmd'[p] = [cmd[p] EXCEPT !.pc = "save", !.snapshot = registry]
        /\ cmd[p].op = "promote" /\ cmd[p].pc = "reload"
        /\ registry' = registry /\ directory' = directory
    BY <1>0, <1>16 DEF PromoteLoads, At
  <2>2. Knows(cmd'[p], registry, directory) /\ Writes(cmd[p])
    BY <1>0, <2>1 DEF Knows, FreezeKnows, PromoteKnows, SelectKnows, Writes, Command
  <2> QED BY <1>0, <2>1, <2>2, ReadingStep
<1>17. CASE PromoteSaves(p)
  <2> DEFINE v == cmd[p].version
             e == registry.entries[v]
  <2>1. /\ cmd[p].op = "promote" /\ cmd[p].pc = "save" /\ cmd'[p] = Idle
        /\ directory' = directory
    BY <1>0, <1>17 DEF PromoteSaves, At, Return
  <2>2. /\ cmd[p].snapshot = registry /\ v \in Version /\ e \in Entry
        /\ e # NoEntry /\ directory[v] = Whole(e.build)
        /\ cmd[p].promotion.program = ProgramOf[e.build]
        /\ cmd[p].promotion.accepted \/ cmd[p].promotion.override
    BY <1>0, <2>1 DEF Knows, PromoteKnows, Command, Registry
  <2>3. /\ registry'.champion = v
        /\ registry'.entries = [registry.entries EXCEPT ![v].accepted = TRUE,
               ![v].promotions = @ \cup {cmd[p].promotion}]
    BY <1>17, <2>2 DEF PromoteSaves
  <2>4. /\ registry'.entries[v].accepted /\ registry'.entries[v] \in Entry
        /\ registry'.entries[v].build = e.build
        /\ registry'.entries[v].promotions = e.promotions \cup {cmd[p].promotion}
        /\ \A w \in Version : w # v => registry'.entries[w] = registry.entries[w]
    <3>1. [e EXCEPT !.accepted = TRUE, !.promotions = @ \cup {cmd[p].promotion}] \in Entry
      BY <1>0, <2>2 DEF Entry, Command
    <3>2. registry'.entries[v]
            = [e EXCEPT !.accepted = TRUE, !.promotions = @ \cup {cmd[p].promotion}]
      BY <1>0, <2>2, <2>3 DEF Registry
    <3>3. \A w \in Version : w # v => registry'.entries[w] = registry.entries[w]
      BY <1>0, <2>3 DEF Registry
    <3> QED BY <2>2, <3>1, <3>2, <3>3 DEF Entry
  <2>5. v \in Accepted(registry')
    BY <2>2, <2>4, RegistryConstants DEF Accepted
  <2>6. AcceptedKept
    BY <2>1, <2>4, <2>5 DEF AcceptedKept, Accepted
  <2>7. Proven(registry')
    <3>1. cmd[p].promotion \in registry'.entries[v].promotions
      BY <2>4
    <3>2. cmd[p].promotion.program = ProgramOf[registry'.entries[v].build]
      BY <2>2, <2>4
    <3> QED BY <2>2, <2>3, <3>1, <3>2 DEF Proven
  <2>8. \A w \in Accepted(registry') :
          w \in Accepted(registry) \/ directory'[w] = Whole(registry'.entries[w].build)
    BY <2>1, <2>2, <2>4 DEF Accepted
  <2>9. Writes(cmd[p])
    BY <2>1 DEF Writes
  <2> QED
    BY <1>0, <2>1, <2>3, <2>5, <2>6, <2>7, <2>8, <2>9, IdleKnowsNothing, WritingStep
<1> QED
  BY <1>2, <1>3, <1>4, <1>5, <1>6, <1>7, <1>8, <1>9, <1>10, <1>11, <1>12, <1>13, <1>14,
     <1>15, <1>16, <1>17
  DEF Act

(***************************************************************************)
(* The properties that hold until two writers overlap.                     *)
(***************************************************************************)
RegistryInv == DirectoryInv /\ OverlapInv

LEMMA RegistryInvStep ==
  ASSUME RegistryInv, [RegistryNext]_registryVars
  PROVE  RegistryInv' /\ (~overlapped' => AcceptedKept)
<1>1. CASE UNCHANGED registryVars
  <2>1. DirectoryInv'
    BY <1>1
    DEF RegistryInv, DirectoryInv, RegistryTypeOK, Shapes, OneOwner, FreezeOwnsItsDirectory,
        registryVars
  <2>2. OverlapInv'
    BY <1>1 DEF RegistryInv, OverlapInv, OrderlyInv, SoleWriter, AcceptedWhole, registryVars
  <2>3. AcceptedKept
    BY <1>1 DEF AcceptedKept, registryVars
  <2> QED BY <2>1, <2>2, <2>3 DEF RegistryInv
<1>2. CASE RegistryNext
  <2>1. PICK p \in Process : Act(p)
    BY <1>2 DEF RegistryNext
  <2>2. DirectoryInv'
    BY <2>1, DirectoryInvStep DEF RegistryInv
  <2>3. ASSUME ~overlapped' PROVE OrderlyInv' /\ AcceptedKept
    <3>1. OrderlyInv
      BY <2>1, <2>3, OverlapStays DEF RegistryInv, OverlapInv, DirectoryInv
    <3> QED BY <2>1, <2>3, <3>1, OrderlyStep DEF RegistryInv
  <2> QED BY <2>2, <2>3 DEF RegistryInv, OverlapInv
<1> QED BY <1>1, <1>2

(* The whole invariant: who owns a directory, and, until two writers       *)
(* overlap, what each command may rely on.                                 *)
THEOREM RegistryInvariant == RegistrySpec => []RegistryInv
<1>1. RegistryInit => RegistryInv
  BY DirectoryInvInit, OverlapInvInit DEF RegistryInv
<1>2. RegistryInv /\ [RegistryNext]_registryVars => RegistryInv'
  BY RegistryInvStep
<1> QED BY <1>1, <1>2, PTL DEF RegistrySpec

(* The champion is registered, accepted, whole, and proven by a report     *)
(* about its very executable and config (promote), whatever is frozen,     *)
(* interrupted or killed meanwhile, as long as no two writers overlap.     *)
THEOREM ChampionStaysIntact == RegistrySpec => []ChampionIntact
<1>1. RegistryInv => ChampionIntact
  BY DEF RegistryInv, OverlapInv, OrderlyInv, AcceptedWhole, Proven, ChampionIntact
<1> QED BY <1>1, RegistryInvariant, PTL

(* The opponents select_opponents read are there when they are verified.   *)
THEOREM SelectionsSucceed == RegistrySpec => []SelectionSucceeds
<1>1. RegistryInv => SelectionSucceeds
  <2> SUFFICES ASSUME RegistryInv, ~overlapped, NEW p \in Process, cmd[p].op = "select",
                      cmd[p].pc # "idle", NEW v \in cmd[p].todo
               PROVE  /\ registry.entries[v] # NoEntry
                      /\ directory[v] = Whole(registry.entries[v].build)
    BY DEF SelectionSucceeds
  <2>1. v \in Accepted(registry)
    BY DEF RegistryInv, OverlapInv, OrderlyInv, Knows, SelectKnows
  <2> QED BY <2>1 DEF RegistryInv, OverlapInv, OrderlyInv, AcceptedWhole, Accepted
<1> QED BY <1>1, RegistryInvariant, PTL

(* No command changes what was accepted: build, evidence or artifacts.     *)
THEOREM AcceptedVersionsStay == RegistrySpec => AcceptedStays
<1>1. RegistryInv /\ [RegistryNext]_registryVars =>
        [~overlapped' => AcceptedKept]_registryVars
  BY RegistryInvStep
<1>2. [~overlapped' => AcceptedKept]_registryVars =>
        [~overlapped' =>
           \A v \in Accepted(registry) :
             /\ v \in Accepted(registry')
             /\ registry'.entries[v].build = registry.entries[v].build
             /\ registry.entries[v].promotions \subseteq registry'.entries[v].promotions
             /\ directory'[v] = directory[v]]_registryVars
  BY DEF AcceptedKept
<1> QED BY <1>1, <1>2, RegistryInvariant, PTL DEF RegistrySpec, AcceptedStays

-----------------------------------------------------------------------------
(* An evaluation run. *)

(* An extension is what some report recommended, once a start at most.     *)
ExtensionInv ==
  /\ currentAttempt \in 0 .. MaxStarts
  /\ extensionPairs \in Nat
  /\ extensionPairs <= Openings * currentAttempt
  /\ report # NoResult => report.additional \in 0 .. Openings

GamesTyped ==
  /\ completed \in [GameId -> Result \cup {NoResult}]
  /\ games \in Seq(Result)
  /\ log \in [GameId \X (1 .. MaxStarts) -> 0 .. MaxPlies]
  /\ existing \in [GameId -> Result \cup {NoResult}]

ProcessTyped ==
  /\ pc \in {"off", "planning", "matching", "playing", "ended", "recorded"}
  /\ attempt = (IF pc = "off" THEN 0 ELSE currentAttempt)
  /\ pc # "off" => currentAttempt # 0
  /\ game \in GameId \cup {NoResult}
  /\ plies \in 0 .. MaxPlies
  /\ ending \in Ending \cup {NoResult}

RunTypeInv == ExtensionInv /\ GamesTyped /\ ProcessTyped

(* The lines of the file are of planned games and replay; progress.json    *)
(* agrees with them, and so does what the process has in memory.           *)
FilesAgree ==
  /\ ProgressMatchesGames
  /\ RecordedGamesReplay
  /\ \A i \in DOMAIN games : games[i].game \in Planned
  /\ pc \notin {"off", "planning"} => existing = Reload

(* The game being played is one that is not completed.                     *)
GameInPlay ==
  /\ pc \in {"playing", "ended"} =>
       /\ game \in Planned /\ completed[game] = NoResult
       /\ log[<<game, attempt>>] = plies
  /\ pc = "playing" => plies < MaxPlies
  /\ pc = "ended" => ending \in Ending
  /\ pc = "recorded" => game \in GameId /\ existing[game] # NoResult

(* A log has moves only when it is of an attempt made so far; in the       *)
(* present one, only when its game is completed or in play.                *)
LogsAreFresh ==
  \A g \in GameId, a \in 1 .. MaxStarts :
    log[<<g, a>>] # 0 =>
      /\ a <= currentAttempt
      /\ a = attempt =>
           \/ completed[g] # NoResult
           \/ pc \in {"playing", "ended", "recorded"} /\ g = game

RunInv == RunTypeInv /\ FilesAgree /\ GameInPlay /\ LogsAreFresh

-----------------------------------------------------------------------------
(* The last line of a game.                                                *)

LinesOf(file, g) == {i \in DOMAIN file : file[i].game = g}

LastLine(file, g) ==
  IF LinesOf(file, g) = {} THEN NoResult ELSE file[Max(LinesOf(file, g))]

LEMMA ReloadIsLastLine == Reload = [g \in GameId |-> LastLine(games, g)]
BY DEF Reload, LastLine, LinesOf

(* A bounded set of naturals has a largest element, and Max is it.         *)
LEMMA MaxIsLargest ==
  ASSUME NEW n \in Nat, NEW S \in SUBSET (0 .. n), S # {}
  PROVE  Max(S) \in S /\ \A k \in S : k <= Max(S)
<1>1. PICK less : IsWellFoundedOn(less, Nat) /\ \A x, y \in Nat : x < y => <<x, y>> \in less
  <2>1. \A x, y \in Nat : x < y => <<x, y>> \in OpToRel(<, Nat)
    BY Zenon DEF OpToRel
  <2>2. QED
    BY <2>1, NatLessThanWellFounded, Zenon
<1>2. \A k \in S : n - k \in Nat
  OBVIOUS
<1> DEFINE rest == {n - k : k \in S}
<1>3. PICK m \in rest : \A k \in rest : ~(<<k, m>> \in less)
  <2>1. IsWellFoundedOn(less, Nat) /\ rest \subseteq Nat /\ rest # {}
    BY <1>1, <1>2
  <2> HIDE DEF rest
  <2>2. QED
    BY <2>1, WFMin
<1>4. PICK largest \in S : m = n - largest
  BY <1>3
<1>5. \A k \in S : k <= largest
  <2>1. SUFFICES ASSUME NEW k \in S, k > largest
                 PROVE  FALSE
    OBVIOUS
  <2>2. n - k \in rest /\ n - k \in Nat /\ m \in Nat /\ n - k < m
    BY <2>1, <1>4
  <2>3. QED
    BY <2>2, <1>1, <1>3
<1>6. \E x \in S : \A y \in S : x >= y
  BY <1>5
<1>7. Max(S) \in S /\ \A y \in S : Max(S) >= y
  BY <1>6, Zenon DEF Max
<1>8. QED
  BY <1>7

LEMMA LastLineTypes ==
  ASSUME NEW file \in Seq(Result), NEW g
  PROVE  /\ LinesOf(file, g) # {} =>
              /\ Max(LinesOf(file, g)) \in LinesOf(file, g)
              /\ LastLine(file, g) \in Result
         /\ LinesOf(file, g) = {} => LastLine(file, g) = NoResult
         /\ LastLine(file, g) # NoResult => \E i \in DOMAIN file : file[i].game = g
<1>1. DOMAIN file = 1 .. Len(file) /\ Len(file) \in Nat
  BY LenProperties
<1>2. LinesOf(file, g) \in SUBSET (0 .. Len(file))
  BY <1>1 DEF LinesOf
<1>3. ASSUME LinesOf(file, g) # {}
      PROVE  Max(LinesOf(file, g)) \in LinesOf(file, g)
  BY <1>1, <1>2, <1>3, MaxIsLargest
<1>4. ASSUME LinesOf(file, g) # {}
      PROVE  LastLine(file, g) \in Result
  <2>1. Max(LinesOf(file, g)) \in 1 .. Len(file)
    BY <1>1, <1>3, <1>4 DEF LinesOf
  <2>2. file[Max(LinesOf(file, g))] \in Result
    BY <2>1, ElementOfSeq
  <2>3. QED
    BY <1>4, <2>2 DEF LastLine
<1>5. QED
  BY <1>3, <1>4 DEF LastLine, LinesOf

(* Appending a line changes the last line of its own game only.            *)
LEMMA LastLineOfAppend ==
  ASSUME NEW file \in Seq(Result), NEW r \in Result, NEW g
  PROVE  LastLine(Append(file, r), g) = IF g = r.game THEN r ELSE LastLine(file, g)
<1> DEFINE longer == Append(file, r)
           n == Len(file)
<1>1. n \in Nat /\ DOMAIN file = 1 .. n
  BY LenProperties
<1>2. /\ longer \in Seq(Result)
      /\ Len(longer) = n + 1
      /\ \A i \in 1 .. n : longer[i] = file[i]
      /\ longer[n + 1] = r
  BY AppendProperties
<1>3. DOMAIN longer = 1 .. n + 1
  BY <1>2, LenProperties
<1> HIDE DEF longer, n
<1>4. CASE g = r.game
  <2>1. n + 1 \in LinesOf(longer, g)
    BY <1>1, <1>2, <1>3, <1>4 DEF LinesOf
  <2>2. LinesOf(longer, g) \in SUBSET (0 .. n + 1) /\ n + 1 \in Nat
    BY <1>1, <1>3 DEF LinesOf
  <2>3. /\ Max(LinesOf(longer, g)) \in LinesOf(longer, g)
        /\ n + 1 <= Max(LinesOf(longer, g))
    BY <2>1, <2>2, MaxIsLargest
  <2>4. Max(LinesOf(longer, g)) = n + 1
    BY <1>1, <2>2, <2>3
  <2>5. QED
    BY <1>2, <1>4, <2>1, <2>4 DEF LastLine, longer
<1>5. CASE g # r.game
  <2>1. LinesOf(longer, g) = LinesOf(file, g)
    BY <1>1, <1>2, <1>3, <1>5 DEF LinesOf
  <2>2. ASSUME LinesOf(file, g) # {}
        PROVE  longer[Max(LinesOf(file, g))] = file[Max(LinesOf(file, g))]
    <3>1. Max(LinesOf(file, g)) \in 1 .. n
      BY <1>1, <2>2, LastLineTypes DEF LinesOf
    <3>2. QED
      BY <1>2, <3>1
  <2>3. QED
    BY <1>5, <2>1, <2>2 DEF LastLine, longer
<1>6. QED
  BY <1>4, <1>5

(* A reload reads a result for the games that have a line.                 *)
LEMMA ReloadTypes ==
  ASSUME GamesTyped
  PROVE  /\ Reload \in [GameId -> Result \cup {NoResult}]
         /\ \A g \in GameId : Reload[g] # NoResult => \E i \in DOMAIN games : games[i].game = g
<1>1. games \in Seq(Result)
  BY DEF GamesTyped
<1>2. \A g \in GameId : LastLine(games, g) \in Result \cup {NoResult}
  BY <1>1, LastLineTypes
<1>3. \A g \in GameId :
        LastLine(games, g) # NoResult => \E i \in DOMAIN games : games[i].game = g
  BY <1>1, LastLineTypes
<1>4. QED
  BY <1>2, <1>3, ReloadIsLastLine

-----------------------------------------------------------------------------
(* Types.                                                                  *)

LEMMA ProductBound ==
  ASSUME NEW a \in Nat, NEW b \in Nat, NEW c \in Nat, b <= c
  PROVE  /\ a * b \in Nat /\ a * c \in Nat /\ a * b <= a * c
         /\ a * (b + 1) = a * b + a
OBVIOUS

LEMMA ExtensionBound == ExtensionInv => extensionPairs \in 0 .. Openings * MaxStarts
<1>1. SUFFICES ASSUME ExtensionInv
               PROVE  extensionPairs \in 0 .. Openings * MaxStarts
  OBVIOUS
<1>2. /\ Openings \in Nat /\ MaxStarts \in Nat
      /\ currentAttempt \in Nat /\ currentAttempt <= MaxStarts
  BY <1>1, RunConstants DEF ExtensionInv
<1>3. /\ Openings * currentAttempt \in Nat /\ Openings * MaxStarts \in Nat
      /\ Openings * currentAttempt <= Openings * MaxStarts
  BY <1>2, ProductBound
<1>4. QED
  BY <1>1, <1>3 DEF ExtensionInv

(* What an opponent is recommended is no more than the corpus has; nor is  *)
(* the most any of them is.                                                *)
LEMMA MostRecommended ==
  ASSUME NEW n \in [1 .. Opponents -> 0 .. Openings]
  PROVE  Max({n[o] : o \in 1 .. Opponents}) \in 0 .. Openings
<1> DEFINE all == {n[o] : o \in 1 .. Opponents}
<1>1. Openings \in Nat /\ 1 \in 1 .. Opponents
  BY RunConstants
<1>2. all \in SUBSET (0 .. Openings) /\ all # {}
  BY <1>1
<1>3. Max(all) \in all
  <2> HIDE DEF all
  <2>1. QED
    BY <1>1, <1>2, MaxIsLargest
<1>4. QED
  BY <1>2, <1>3

LEMMA ExtensionStep == ExtensionInv /\ [RunNext]_runVars => ExtensionInv'
<1> SUFFICES ASSUME ExtensionInv, [RunNext]_runVars
             PROVE  ExtensionInv'
  OBVIOUS
<1> USE RunConstants
<1>1. CASE Resume
  <2>1. /\ currentAttempt \in Nat /\ Openings \in Nat
        /\ currentAttempt' = currentAttempt + 1 /\ currentAttempt' \in 0 .. MaxStarts
        /\ report' = report
    BY <1>1 DEF Resume, NextAttempt, ExtensionInv
  <2>2. Openings * (currentAttempt + 1) = Openings * currentAttempt + Openings
    BY <2>1, ProductBound
  <2>3. Openings * currentAttempt \in Nat
    BY <2>1, ProductBound
  <2>4. extensionPairs' \in Nat /\ extensionPairs' <= extensionPairs + Openings
    BY <1>1 DEF Resume, ExtensionInv
  <2>5. extensionPairs' <= Openings * currentAttempt'
    BY <2>1, <2>2, <2>3, <2>4 DEF ExtensionInv
  <2>6. QED
    BY <2>1, <2>4, <2>5 DEF ExtensionInv
<1>2. CASE Start
  <2>1. /\ currentAttempt = 0 /\ currentAttempt' = 1
        /\ UNCHANGED <<extensionPairs, report>>
    BY <1>2 DEF Start
  <2>2. Openings * 0 = 0 /\ Openings * 1 \in Nat
    BY ProductBound
  <2>3. QED
    BY <2>1, <2>2 DEF ExtensionInv
<1>3. CASE Finish
  <2>1. UNCHANGED <<currentAttempt, extensionPairs>>
    BY <1>3 DEF Finish
  <2>2. PICK n \in [1 .. Opponents -> 0 .. Openings], c \in Classifications :
          report' = [games |-> [g \in Returned |-> existing[g]],
                     extension |-> extensionPairs,
                     classification |-> c,
                     additional |-> Max({n[o] : o \in 1 .. Opponents})]
    BY <1>3, Zenon DEF Finish
  <2>3. report'.additional \in 0 .. Openings
    BY <2>2, MostRecommended
  <2>4. QED
    BY <2>1, <2>3 DEF ExtensionInv
<1>4. CASE UNCHANGED <<currentAttempt, extensionPairs, report>>
  BY <1>4 DEF ExtensionInv
<1>5. QED
  BY <1>1, <1>2, <1>3, <1>4
  DEF RunNext, Step, Plan, PlanRefused, Play, Move, EngineFails, RefereeFails,
      ReplayImpossible, Record, Mark, Kill, runVars, disk

LEMMA TypesCorrect == RunTypeInv => RunTypeOK
BY ExtensionBound DEF RunTypeInv, ExtensionInv, GamesTyped, ProcessTyped, RunTypeOK

LEMMA ProcessStep ==
  ASSUME RunTypeInv, GameInPlay, [RunNext]_runVars
  PROVE  ProcessTyped'
<1> USE RunConstants DEF RunTypeInv, ExtensionInv, ProcessTyped
<1>1. CASE Start
  BY <1>1 DEF Start, match
<1>2. CASE Resume
  BY <1>2 DEF Resume, NextAttempt, match
<1>3. CASE Plan \/ Record
  BY <1>3 DEF Plan, Record, disk, match
<1>4. CASE Play
  BY <1>4 DEF Play, Planned, disk
<1>5. CASE Move
  BY <1>5 DEF Move, GameInPlay, Ending
<1>6. CASE EngineFails
  BY <1>6 DEF EngineFails, GameInPlay, Ending
<1>7. CASE RefereeFails
  BY <1>7 DEF RefereeFails, disk, Ending
<1>8. CASE Mark
  BY <1>8 DEF Mark
<1>9. CASE Off
  BY <1>9 DEF Off
<1>10. CASE UNCHANGED runVars
  BY <1>10 DEF runVars, disk, match
<1>11. QED
  BY <1>1, <1>2, <1>3, <1>4, <1>5, <1>6, <1>7, <1>8, <1>9, <1>10
  DEF RunNext, Step, PlanRefused, ReplayImpossible, Finish, Kill

(* The move just made is the last of the log.                              *)
LEMMA LoggedLog ==
  ASSUME RunTypeInv, GameInPlay, pc = "playing", Logged
  PROVE  /\ log' \in [GameId \X (1 .. MaxStarts) -> 0 .. MaxPlies]
         /\ log'[<<game, attempt>>] = plies + 1
         /\ \A g \in GameId, a \in 1 .. MaxStarts :
              <<g, a>> # <<game, attempt>> => log'[<<g, a>>] = log[<<g, a>>]
<1>1. <<game, attempt>> \in GameId \X (1 .. MaxStarts)
  BY RunConstants DEF RunTypeInv, ExtensionInv, ProcessTyped, GameInPlay, Planned
<1>2. /\ plies + 1 \in 0 .. MaxPlies
      /\ log[<<game, attempt>>] = plies
  BY RunConstants DEF RunTypeInv, ProcessTyped, GameInPlay
<1>3. /\ log' = [log EXCEPT ![<<game, attempt>>] = @ + 1]
      /\ log \in [GameId \X (1 .. MaxStarts) -> 0 .. MaxPlies]
  BY DEF Logged, RunTypeInv, GamesTyped
<1>4. log' = [log EXCEPT ![<<game, attempt>>] = plies + 1]
  BY <1>2, <1>3
<1>5. QED
  BY <1>1, <1>2, <1>3, <1>4

(* What is recorded is a result of the game in play, and it replays.       *)
LEMMA PlayedTypes ==
  ASSUME RunTypeInv, GameInPlay, pc = "ended"
  PROVE  /\ Played \in Result /\ Played # NoResult
         /\ Played.game = game /\ Played.replayPassed
<1>1. game \in GameId /\ attempt \in 1 .. MaxStarts
  BY RunConstants DEF RunTypeInv, ExtensionInv, ProcessTyped, GameInPlay, Planned
<1>2. plies \in 0 .. MaxPlies /\ ending \in Ending /\ Logs = plies
  BY DEF RunTypeInv, ProcessTyped, GameInPlay, Logs
<1>3. Played \in Result
  BY <1>1, <1>2 DEF Played, Result
<1>4. QED
  BY <1>2, <1>3, NoResultIsNone DEF Played

LEMMA GamesStep ==
  ASSUME RunTypeInv, GameInPlay, [RunNext]_runVars
  PROVE  GamesTyped'
<1> USE DEF RunTypeInv, GamesTyped
<1>1. CASE Plan
  BY <1>1, ReloadTypes DEF Plan, disk
<1>2. CASE Move \/ EngineFails
  BY <1>2, LoggedLog DEF Move, EngineFails
<1>3. CASE Record
  <2>1. games' = Append(games, Played) /\ Played \in Result
    BY <1>3, PlayedTypes DEF Record, Lines
  <2>2. existing' = [existing EXCEPT ![game] = Played]
    BY <1>3 DEF Record
  <2>3. UNCHANGED <<completed, log>>
    BY <1>3 DEF Record
  <2>4. games' \in Seq(Result)
    BY <2>1, AppendProperties
  <2>5. QED
    BY <2>1, <2>2, <2>3, <2>4
<1>4. CASE Mark
  <2>1. existing[game] \in Result \cup {NoResult}
    BY <1>4 DEF Mark, GameInPlay
  <2>2. QED
    BY <1>4, <2>1 DEF Mark
<1>5. CASE Off /\ UNCHANGED <<completed, games, log>>
  BY <1>5 DEF Off
<1>6. CASE UNCHANGED <<completed, games, log, existing>>
  BY <1>6
<1>7. QED
  BY <1>1, <1>2, <1>3, <1>4, <1>5, <1>6
  DEF RunNext, Start, Resume, Step, PlanRefused, Play, RefereeFails, ReplayImpossible,
      Finish, Kill, runVars, disk

-----------------------------------------------------------------------------
(* The records agree.                                                      *)

(* Extensions only add games to the plan.                                  *)
LEMMA PlanGrows ==
  ASSUME RunTypeInv, [RunNext]_runVars
  PROVE  Planned \subseteq Planned'
<1> USE RunConstants DEF RunTypeInv, ExtensionInv
<1>1. extensionPairs' \in Nat /\ extensionPairs' >= extensionPairs
  <2>1. CASE Resume
    BY <2>1 DEF Resume
  <2>2. CASE UNCHANGED extensionPairs
    BY <2>2
  <2>3. QED
    BY <2>1, <2>2
    DEF RunNext, Start, Step, Plan, PlanRefused, Play, Move, EngineFails, RefereeFails,
        ReplayImpossible, Record, Mark, Finish, Kill, runVars, disk
<1>2. ASSUME NEW g \in Planned
      PROVE  g \in Planned'
  <2>1. g \in GameId /\ g[1] \in 1 .. Opponents /\ g[2] \in Nat
    BY <1>2 DEF Planned, GameId
  <2>2. g[2] < BasePairs[g[1]] + extensionPairs /\ BasePairs[g[1]] \in Nat
    BY <1>2, <2>1 DEF Planned, Pairs
  <2>3. g[2] < BasePairs[g[1]] + extensionPairs'
    BY <1>1, <2>1, <2>2
  <2>4. QED
    BY <2>1, <2>3 DEF Planned, Pairs
<1>3. QED
  BY <1>2

(* A game is skipped exactly when it is completed.                         *)
LEMMA DoneIsCompleted ==
  ASSUME FilesAgree, pc \notin {"off", "planning"}, NEW g \in GameId
  PROVE  Done(g) <=> completed[g] # NoResult
BY DEF FilesAgree, ProgressMatchesGames, Done

(* A new line replaces what a reload finds for its own game only.          *)
LEMMA ReloadAfterRecord ==
  ASSUME RunTypeInv, GameInPlay, Record
  PROVE  \A g \in GameId : Reload'[g] = IF g = game THEN Played ELSE Reload[g]
<1>1. pc = "ended" /\ games' = Append(games, Played)
  BY DEF Record, Lines
<1>2. Played \in Result /\ Played.game = game
  BY <1>1, PlayedTypes
<1>3. games \in Seq(Result)
  BY DEF RunTypeInv, GamesTyped
<1>4. Reload' = [g \in GameId |-> LastLine(games', g)]
  BY DEF Reload, LastLine, LinesOf
<1>5. \A g \in GameId :
        LastLine(games', g) = IF g = game THEN Played ELSE LastLine(games, g)
  BY <1>1, <1>2, <1>3, LastLineOfAppend
<1>6. QED
  BY <1>4, <1>5, ReloadIsLastLine

LEMMA FilesStep ==
  ASSUME RunTypeInv, FilesAgree, GameInPlay, [RunNext]_runVars
  PROVE  FilesAgree'
<1> USE DEF FilesAgree, ProgressMatchesGames, RecordedGamesReplay
<1>1. CASE Plan
  <2>1. UNCHANGED <<games, completed, Planned>> /\ existing' = Reload
    BY <1>1 DEF Plan, disk, Planned, Pairs
  <2>2. Reload' = Reload
    BY <2>1 DEF Reload
  <2>3. QED
    BY <2>1, <2>2
<1>2. CASE Record
  <2>1. pc = "ended" /\ pc' = "recorded" /\ games' = Append(games, Played)
        /\ existing' = [existing EXCEPT ![game] = Played]
        /\ UNCHANGED <<completed, Planned>>
    BY <1>2 DEF Record, Lines, Planned, Pairs
  <2>2. Played \in Result /\ Played.game = game /\ Played.replayPassed
    BY <2>1, PlayedTypes
  <2>3. game \in Planned /\ game \in GameId /\ completed[game] = NoResult
    BY <2>1 DEF GameInPlay, Planned
  <2>4. \A g \in GameId : Reload'[g] = IF g = game THEN Played ELSE Reload[g]
    BY <1>2, ReloadAfterRecord
  <2>5. ProgressMatchesGames'
    BY <2>1, <2>3, <2>4
  <2>6. /\ existing \in [GameId -> Result \cup {NoResult}]
        /\ existing = Reload
    BY <2>1 DEF RunTypeInv, GamesTyped
  <2>7. existing' = Reload'
    <3>1. Reload' = [g \in GameId |-> Reload'[g]]
      BY DEF Reload
    <3>2. existing' = [g \in GameId |-> existing'[g]]
      BY <2>1, <2>6
    <3>3. \A g \in GameId : existing'[g] = Reload'[g]
      BY <2>1, <2>3, <2>4, <2>6
    <3>4. QED
      BY <3>1, <3>2, <3>3
  <2>8. \A i \in DOMAIN games' :
          \/ i \in DOMAIN games /\ games'[i] = games[i]
          \/ games'[i] = Played
    <3>1. games \in Seq(Result)
      BY DEF RunTypeInv, GamesTyped
    <3>2. /\ games' \in Seq(Result) /\ Len(games') = Len(games) + 1 /\ Len(games) \in Nat
          /\ \A i \in 1 .. Len(games) : games'[i] = games[i]
          /\ games'[Len(games) + 1] = Played
      BY <2>1, <2>2, <3>1, AppendProperties, LenProperties
    <3>3. DOMAIN games' = 1 .. Len(games) + 1 /\ DOMAIN games = 1 .. Len(games)
      BY <3>1, <3>2, LenProperties
    <3>4. QED
      BY <3>2, <3>3
  <2>9. /\ RecordedGamesReplay'
        /\ \A i \in DOMAIN games' : games'[i].game \in Planned'
    BY <2>1, <2>2, <2>3, <2>8
  <2>10. QED
    BY <2>5, <2>7, <2>9
<1>3. CASE Mark
  <2>1. /\ pc = "recorded" /\ game \in GameId
        /\ completed' = [completed EXCEPT ![game] = existing[game]]
        /\ UNCHANGED <<games, existing, Planned>>
    BY <1>3 DEF Mark, GameInPlay, Planned, Pairs
  <2>2. Reload' = Reload /\ existing = Reload
    BY <2>1 DEF Reload
  <2>3. completed \in [GameId -> Result \cup {NoResult}]
    BY DEF RunTypeInv, GamesTyped
  <2>4. ProgressMatchesGames'
    BY <2>1, <2>2, <2>3
  <2>5. QED
    BY <2>1, <2>2, <2>4
<1>4. CASE /\ UNCHANGED <<games, completed>>
           /\ \/ pc' \in {"off", "planning"}
              \/ UNCHANGED existing /\ pc \notin {"off", "planning"}
              \/ UNCHANGED <<existing, pc>>
  <2>1. Reload' = Reload
    BY <1>4 DEF Reload
  <2>2. Planned \subseteq Planned'
    BY PlanGrows
  <2>3. QED
    BY <1>4, <2>1, <2>2
<1>5. QED
  BY <1>1, <1>2, <1>3, <1>4
  DEF RunNext, Start, Resume, Step, PlanRefused, Play, Move, EngineFails, RefereeFails,
      ReplayImpossible, Finish, Kill, Off, runVars, disk, match

LEMMA InPlayStep ==
  ASSUME RunInv, [RunNext]_runVars
  PROVE  GameInPlay'
<1> USE DEF RunInv, GameInPlay
<1>1. CASE Play
  <2>1. PICK g \in Planned : ~Done(g) /\ game' = g
    BY <1>1 DEF Play
  <2>2. /\ pc = "matching" /\ pc' = "playing" /\ plies' = 0
        /\ UNCHANGED <<completed, log, attempt, Planned>>
    BY <1>1 DEF Play, disk, Planned, Pairs
  <2>3. g \in GameId /\ completed[g] = NoResult
    BY <2>1, <2>2, DoneIsCompleted DEF Planned
  <2>4. attempt \in 1 .. MaxStarts
    BY <2>2, RunConstants DEF RunTypeInv, ExtensionInv, ProcessTyped
  <2>5. log[<<g, attempt>>] = 0
    BY <2>2, <2>3, <2>4 DEF LogsAreFresh
  <2>6. 0 < MaxPlies
    BY RunConstants
  <2>7. QED
    BY <2>1, <2>2, <2>3, <2>5, <2>6
<1>2. CASE Move
  <2>1. /\ pc = "playing" /\ Logged /\ plies' = plies + 1
        /\ UNCHANGED <<completed, attempt, game, Planned>>
        /\ \/ pc' = "ended" /\ ending' = "valid"
           \/ plies' < MaxPlies /\ pc' = "playing"
    BY <1>2 DEF Move, Planned, Pairs
  <2>2. log'[<<game, attempt>>] = plies'
    BY <2>1, LoggedLog
  <2>3. QED
    BY <2>1, <2>2 DEF Ending
<1>3. CASE EngineFails
  <2>1. /\ pc = "playing" /\ Logged /\ plies' = plies + 1
        /\ UNCHANGED <<completed, attempt, game, Planned>>
        /\ pc' = "ended" /\ ending' = "engine_failure"
    BY <1>3 DEF EngineFails, Planned, Pairs
  <2>2. log'[<<game, attempt>>] = plies'
    BY <2>1, LoggedLog
  <2>3. QED
    BY <2>1, <2>2 DEF Ending
<1>4. CASE RefereeFails
  BY <1>4 DEF RefereeFails, disk, Ending, Planned, Pairs
<1>5. CASE Record
  <2>1. /\ pc = "ended" /\ pc' = "recorded"
        /\ existing' = [existing EXCEPT ![game] = Played]
        /\ game' = game
    BY <1>5 DEF Record, match
  <2>2. game \in GameId /\ Played # NoResult
    BY <2>1, PlayedTypes DEF Planned
  <2>3. existing \in [GameId -> Result \cup {NoResult}]
    BY DEF RunTypeInv, GamesTyped
  <2>4. QED
    BY <2>1, <2>2, <2>3
<1>6. CASE pc' \in {"off", "planning", "matching"}
  BY <1>6
<1>7. CASE UNCHANGED runVars
  BY <1>7 DEF runVars, disk, match, Planned, Pairs
<1>8. QED
  BY <1>1, <1>2, <1>3, <1>4, <1>5, <1>6, <1>7
  DEF RunNext, Start, Resume, Step, Plan, PlanRefused, ReplayImpossible, Mark, Finish,
      Kill, Off

LEMMA LogsStep ==
  ASSUME RunInv, [RunNext]_runVars
  PROVE  LogsAreFresh'
<1> SUFFICES ASSUME NEW g \in GameId, NEW a \in 1 .. MaxStarts, log'[<<g, a>>] # 0
             PROVE  /\ a <= currentAttempt'
                    /\ a = attempt' =>
                         \/ completed'[g] # NoResult
                         \/ pc' \in {"playing", "ended", "recorded"} /\ g = game'
  BY DEF LogsAreFresh
<1> USE RunConstants DEF RunInv
<1>1. log[<<g, a>>] # 0 =>
        /\ a <= currentAttempt
        /\ a = attempt =>
             \/ completed[g] # NoResult
             \/ pc \in {"playing", "ended", "recorded"} /\ g = game
  BY DEF LogsAreFresh
<1>2. CASE Start \/ Resume
  <2>1. log[<<g, a>>] # 0
    BY <1>2 DEF Start, Resume
  <2>2. currentAttempt \in Nat /\ attempt' = currentAttempt + 1 /\ currentAttempt' = attempt'
    BY <1>2 DEF Start, Resume, NextAttempt, RunTypeInv, ExtensionInv
  <2>3. QED
    BY <1>1, <2>1, <2>2
<1>3. CASE Move \/ EngineFails
  <2>1. /\ pc = "playing" /\ Logged /\ pc' \in {"playing", "ended"}
        /\ UNCHANGED <<currentAttempt, completed, attempt, game>>
    BY <1>3 DEF Move, EngineFails
  <2>2. <<g, a>> # <<game, attempt>> => log'[<<g, a>>] = log[<<g, a>>]
    BY <2>1, LoggedLog
  <2>3. attempt \in Nat /\ attempt = currentAttempt
    BY <2>1 DEF RunTypeInv, ExtensionInv, ProcessTyped
  <2>4. QED
    BY <1>1, <2>1, <2>2, <2>3
<1>4. CASE Mark
  <2>1. /\ pc = "recorded" /\ game \in GameId /\ existing[game] # NoResult
        /\ completed' = [completed EXCEPT ![game] = existing[game]]
        /\ UNCHANGED <<currentAttempt, log, attempt>>
    BY <1>4 DEF Mark, GameInPlay
  <2>2. completed \in [GameId -> Result \cup {NoResult}]
    BY DEF RunTypeInv, GamesTyped
  <2>3. QED
    BY <1>1, <2>1, <2>2
<1>5. CASE Play \/ RefereeFails \/ Record \/ Plan
  BY <1>1, <1>5 DEF Play, RefereeFails, Record, Plan, disk, match
<1>6. CASE Off /\ UNCHANGED <<log, currentAttempt>>
  BY <1>1, <1>6 DEF Off
<1>7. CASE UNCHANGED runVars
  BY <1>1, <1>7 DEF runVars, disk, match
<1>8. QED
  BY <1>2, <1>3, <1>4, <1>5, <1>6, <1>7
  DEF RunNext, Step, PlanRefused, ReplayImpossible, Finish, Kill, disk

-----------------------------------------------------------------------------
(* The theorems.                                                           *)

LEMMA RunInvInit == RunInit => RunInv
<1>1. SUFFICES ASSUME RunInit
               PROVE  RunInv
  OBVIOUS
<1> USE RunConstants DEF RunInit
<1>2. RunTypeInv
  <2>1. Openings * 0 = 0
    BY ProductBound
  <2>2. QED
    BY <1>1, <2>1, EmptySeq DEF RunTypeInv, ExtensionInv, GamesTyped, ProcessTyped
<1>3. FilesAgree
  BY <1>1 DEF FilesAgree, ProgressMatchesGames, RecordedGamesReplay
<1>4. GameInPlay /\ LogsAreFresh
  BY <1>1 DEF GameInPlay, LogsAreFresh
<1>5. QED
  BY <1>2, <1>3, <1>4 DEF RunInv

LEMMA RunInvStep == RunInv /\ [RunNext]_runVars => RunInv'
<1>1. SUFFICES ASSUME RunInv, [RunNext]_runVars
               PROVE  RunInv'
  OBVIOUS
<1>2. RunTypeInv /\ FilesAgree /\ GameInPlay
  BY <1>1 DEF RunInv
<1>3. RunTypeInv'
  <2>1. ExtensionInv'
    BY <1>1, <1>2, ExtensionStep DEF RunTypeInv
  <2>2. QED
    BY <1>1, <1>2, <2>1, GamesStep, ProcessStep DEF RunTypeInv
<1>4. FilesAgree' /\ GameInPlay' /\ LogsAreFresh'
  BY <1>1, <1>2, FilesStep, InPlayStep, LogsStep
<1>5. QED
  BY <1>3, <1>4 DEF RunInv

LEMMA RunInvAlways == RunSpec => []RunInv
BY RunInvInit, RunInvStep, PTL DEF RunSpec

(* Types of the three records, the report and the process; the number of   *)
(* extended pairs stays bounded.                                           *)
THEOREM RunTypesCorrect == RunSpec => []RunTypeOK
<1>1. RunInv => RunTypeOK
  BY TypesCorrect DEF RunInv
<1>2. QED
  BY <1>1, RunInvAlways, PTL

(* progress.json and games.jsonl tell the same of a completed game, at any *)
(* moment a kill may hit (Progress.mark_complete after append_jsonl).      *)
THEOREM RecordsAgree == RunSpec => []ProgressMatchesGames
<1>1. RunInv => ProgressMatchesGames
  BY DEF RunInv, FilesAgree
<1>2. QED
  BY <1>1, RunInvAlways, PTL

(* Every line of games.jsonl passed its replay: the log of its attempt is  *)
(* of that game alone (play_game, replay_game).                            *)
THEOREM RecordedGamesAreSound == RunSpec => []RecordedGamesReplay
<1>1. RunInv => RecordedGamesReplay
  BY DEF RunInv, FilesAgree
<1>2. QED
  BY <1>1, RunInvAlways, PTL

(* A report counts the planned games, each with its result.                *)
LEMMA FinishReports ==
  ASSUME RunInv, Finish
  PROVE  report'.games = [g \in Planned |-> completed[g]]
<1>1. pc = "matching" /\ \A g \in Planned : Done(g)
  BY DEF Finish
<1>2. report'.games = [g \in Returned |-> existing[g]]
  <2>1. PICK n \in [1 .. Opponents -> 0 .. Openings], c \in Classifications :
          report' = [games |-> [g \in Returned |-> existing[g]],
                     extension |-> extensionPairs,
                     classification |-> c,
                     additional |-> Max({n[o] : o \in 1 .. Opponents})]
    BY Zenon DEF Finish
  <2>2. QED
    BY <2>1
<1>3. existing = Reload /\ ProgressMatchesGames
  BY <1>1 DEF RunInv, FilesAgree
<1>4. Returned = Planned
  <2>1. ASSUME NEW g \in Returned
        PROVE  g \in Planned
    <3>1. g \in GameId /\ Reload[g] # NoResult
      BY <1>3, <2>1 DEF Returned
    <3>2. PICK i \in DOMAIN games : games[i].game = g
      BY <3>1, ReloadTypes DEF RunInv, RunTypeInv
    <3>3. QED
      BY <3>2 DEF RunInv, FilesAgree
  <2>2. ASSUME NEW g \in Planned
        PROVE  g \in Returned
    BY <1>1, <2>2 DEF Returned, Done, Planned
  <2>3. QED
    BY <2>1, <2>2
<1>5. \A g \in Planned : existing[g] = completed[g]
  BY <1>1, <1>3 DEF Done, ProgressMatchesGames, Planned
<1>6. QED
  BY <1>2, <1>4, <1>5

(* However often it was killed, resumed and extended, a run reports every  *)
(* planned game once, with the result progress.json has for it             *)
(* (run_paired_matches, generate_report).                                  *)
THEOREM ReportsAreWhole == RunSpec => ReportIsWhole
<1>1. RunInv /\ [RunNext]_runVars =>
        [report' # report => report'.games = [g \in Planned |-> completed[g]]]_runVars
  <2>1. SUFFICES ASSUME RunInv, [RunNext]_runVars, report' # report
                 PROVE  report'.games = [g \in Planned |-> completed[g]]
    OBVIOUS
  <2>2. Finish
    BY <2>1
    DEF RunNext, Start, Resume, Step, Plan, PlanRefused, Play, Move, EngineFails,
        RefereeFails, ReplayImpossible, Record, Mark, Kill, runVars, disk
  <2>3. QED
    BY <2>1, <2>2, FinishReports
<1>2. QED
  BY <1>1, RunInvAlways, PTL DEF RunSpec, ReportIsWhole

==============================================================================
