---------------------------- MODULE VersionRegistry ----------------------------
(***************************************************************************)
(* The registry of frozen versions: VersionRegistry of version_registry.py *)
(* as the commands of version_cli.py and the pipelines use it.             *)
(*                                                                         *)
(* versions.json names a champion, an anchor and the frozen versions; each *)
(* version has a directory of read-only artifacts.  A command is a process *)
(* of its own: it reads versions.json, works for minutes, and writes the   *)
(* whole file again.  Nothing locks the file or the directories, so        *)
(* commands of different shells interleave at every file access, and each  *)
(* can be interrupted (the handler of freeze runs) or killed (it does      *)
(* not).                                                                   *)
(*                                                                         *)
(* A build stands for a program, that is an executable with its config,    *)
(* and a benchmark companion: equal hashes are equal builds.  A promotion  *)
(* compares programs only.  The order of the versions list is left out.    *)
(***************************************************************************)
EXTENDS Naturals

CONSTANTS
  Process,       \* shells that run a command
  Version,       \* version IDs
  Program,       \* what an executable and a config may contain
  Build,         \* a program with a companion
  ProgramOf,     \* [Build -> Program]
  Anchor,        \* stable_anchor, the version the registry was bootstrapped with
  AnchorBuild,
  NoEntry,       \* a version ID that is not registered
  NoDirectory,
  Files,         \* artifacts of a version, in the order they are written:
                 \* qas.exe, engine_config.json, benchmark.exe, manifest.json
                 \* and source_commit.txt; verify asks for all of them
  MaxCommands    \* bound: commands ever started

VARIABLES
  registry,    \* versions.json
  directory,   \* versions/<version_id>
  cmd,         \* the command of a process: where it is, and its locals
  started,     \* commands started so far
  overlapped   \* two freezes or promotions were in progress at once

registryVars == <<registry, directory, cmd, started, overlapped>>

(* What a promotion leaves in the entry about the report it was given. *)
Promotion == [program : Program, accepted : BOOLEAN, override : BOOLEAN]
Entry == [build : Build, accepted : BOOLEAN, promotions : SUBSET Promotion]
Registry == [champion : Version, entries : [Version -> Entry \cup {NoEntry}]]
Directory == [build : Build, files : 0 .. Files]

ASSUME RegistryConstants ==
  /\ Anchor \in Version
  /\ AnchorBuild \in Build
  /\ ProgramOf \in [Build -> Program]
  /\ Files \in Nat \ {0}
  /\ MaxCommands \in Nat
  /\ NoEntry \notin Entry
  /\ NoDirectory \notin Directory

(* manifest.json and run_config.json beside the report of a promotion, as  *)
(* far as promote reads them: they name no companion.                      *)
Report ==
  [version : Version, program : Program, complete : BOOLEAN, accepted : BOOLEAN,
   sameRun : BOOLEAN]

Op == {"freeze", "promote", "verify", "select"}
PC == {"idle", "load", "make", "write", "find", "files", "decide", "reload", "save",
       "cleanup"}
Command ==
  [op : Op, pc : PC, version : Version, build : Build, written : 0 .. Files,
   snapshot : Registry, todo : SUBSET Version, found : Entry \cup {NoEntry},
   promotion : Promotion]

NewEntry(b) == [build |-> b, accepted |-> FALSE, promotions |-> {}]

Bootstrapped ==
  [champion |-> Anchor,
   entries |-> [v \in Version |->
     IF v = Anchor THEN [NewEntry(AnchorBuild) EXCEPT !.accepted = TRUE] ELSE NoEntry]]

Idle ==
  [op |-> "select", pc |-> "idle", version |-> Anchor, build |-> AnchorBuild,
   written |-> 0, snapshot |-> Bootstrapped, todo |-> {}, found |-> NoEntry,
   promotion |-> [program |-> ProgramOf[AnchorBuild], accepted |-> FALSE,
                  override |-> FALSE]]

RegistryInit ==
  /\ registry = Bootstrapped
  /\ directory = [v \in Version |->
       IF v = Anchor THEN [build |-> AnchorBuild, files |-> Files] ELSE NoDirectory]
  /\ cmd = [p \in Process |-> Idle]
  /\ started = 0
  /\ overlapped = FALSE

At(p, op, pc) == cmd[p].op \in op /\ cmd[p].pc = pc
Goto(p, pc) == cmd' = [cmd EXCEPT ![p].pc = pc]
Return(p) == cmd' = [cmd EXCEPT ![p] = Idle]

Writing(p) == cmd[p].op \in {"freeze", "promote"} /\ cmd[p].pc # "idle"

(* A command line starts a process. *)
Begin(p, command) ==
  /\ cmd[p].pc = "idle"
  /\ started < MaxCommands
  /\ cmd' = [cmd EXCEPT ![p] = command]
  /\ started' = started + 1
  /\ UNCHANGED <<registry, directory>>

BeginWriting(p, command) ==
  /\ Begin(p, command)
  /\ overlapped' = (overlapped \/ \E q \in Process : Writing(q))

StartFreeze(p, v, b) ==
  BeginWriting(p, [Idle EXCEPT !.op = "freeze", !.pc = "load", !.version = v, !.build = b])

StartPromote(p, v) ==
  BeginWriting(p, [Idle EXCEPT !.op = "promote", !.pc = "find", !.todo = {v}])

(* The verify command, and an opponent named on a command line. *)
StartVerify(p, v) ==
  /\ Begin(p, [Idle EXCEPT !.op = "verify", !.pc = "find", !.todo = {v}])
  /\ UNCHANGED overlapped

(* freeze reads the registry and refuses a version ID in use, by an entry  *)
(* or by a directory.  Everything else it refuses for (the category, the   *)
(* executable, a dirty worktree, the parent; --accepted, since the         *)
(* registry is not empty) ends the command before it changed anything.     *)
FreezeLoads(p) ==
  /\ At(p, {"freeze"}, "load")
  /\ registry.entries[cmd[p].version] = NoEntry
  /\ directory[cmd[p].version] = NoDirectory
  /\ cmd' = [cmd EXCEPT ![p].pc = "make", ![p].snapshot = registry]
  /\ UNCHANGED <<registry, directory, started, overlapped>>

(* Mutant of MakeDirectory: exist_ok=True, as everywhere else. *)
MakeDirectoryAnyway(p) ==
  /\ At(p, {"freeze"}, "make")
  /\ directory' = [directory EXCEPT
       ![cmd[p].version] = [build |-> cmd[p].build, files |-> 0]]
  /\ Goto(p, "write")
  /\ UNCHANGED <<registry, started, overlapped>>

(* destination.mkdir, which fails when the directory has appeared since. *)
MakeDirectory(p) ==
  /\ At(p, {"freeze"}, "make")
  /\ directory[cmd[p].version] = NoDirectory
  /\ directory' = [directory EXCEPT
       ![cmd[p].version] = [build |-> cmd[p].build, files |-> 0]]
  /\ Goto(p, "write")
  /\ UNCHANGED <<registry, started, overlapped>>

Refuse(p) ==
  /\ \/ cmd[p].pc \in {"load", "make", "decide", "reload"}
     \/ At(p, {"promote", "verify", "select"}, "find") /\ \E v \in cmd[p].todo :
          registry.entries[v] = NoEntry
  /\ Return(p)
  /\ UNCHANGED <<registry, directory, started, overlapped>>

(* copy_read_only, atomic_write_json and write_text: one more file. *)
WriteFile(p) ==
  /\ At(p, {"freeze"}, "write")
  /\ cmd[p].written < Files
  /\ directory' = [directory EXCEPT ![cmd[p].version].files = @ + 1]
  /\ cmd' = [cmd EXCEPT ![p].written = @ + 1]
  /\ UNCHANGED <<registry, started, overlapped>>

(* Mutant of Register: a new version counts as accepted at once. *)
RegisterAccepted(p) ==
  /\ At(p, {"freeze"}, "write")
  /\ cmd[p].written = Files
  /\ registry' = [cmd[p].snapshot EXCEPT
       !.entries[cmd[p].version] = [NewEntry(cmd[p].build) EXCEPT !.accepted = TRUE]]
  /\ cmd' = [cmd EXCEPT ![p].pc = "find", ![p].todo = {cmd[p].version}]
  /\ UNCHANGED <<directory, started, overlapped>>

(* The registry that was read at the start, with the new entry, is written *)
(* whole.                                                                  *)
Register(p) ==
  /\ At(p, {"freeze"}, "write")
  /\ cmd[p].written = Files
  /\ registry' = [cmd[p].snapshot EXCEPT
       !.entries[cmd[p].version] = NewEntry(cmd[p].build)]
  /\ cmd' = [cmd EXCEPT ![p].pc = "find", ![p].todo = {cmd[p].version},
                        ![p].snapshot = Bootstrapped]
  /\ UNCHANGED <<directory, started, overlapped>>

Whole(b) == [build |-> b, files |-> Files]

(* verify, first part: find reads the registry again. *)
VerifyFinds(p, v) ==
  /\ cmd[p].pc = "find"
  /\ v \in cmd[p].todo
  /\ registry.entries[v] # NoEntry
  /\ cmd' = [cmd EXCEPT ![p].pc = "files", ![p].version = v,
                        ![p].found = registry.entries[v]]
  /\ UNCHANGED <<registry, directory, started, overlapped>>

(* verify, second part: the files exist and have the hashes of the entry. *)
VerifyReads(p) ==
  /\ cmd[p].pc = "files"
  /\ directory[cmd[p].version] = Whole(cmd[p].found.build)
  /\ LET left == cmd[p].todo \ {cmd[p].version} IN
     IF cmd[p].op = "promote" THEN Goto(p, "decide")
     ELSE IF left = {} THEN Return(p)
     ELSE cmd' = [cmd EXCEPT ![p].pc = "find", ![p].todo = left]
  /\ UNCHANGED <<registry, directory, started, overlapped>>

VerifyFails(p) ==
  /\ At(p, {"promote", "verify", "select"}, "files")
  /\ directory[cmd[p].version] # Whole(cmd[p].found.build)
  /\ Return(p)
  /\ UNCHANGED <<registry, directory, started, overlapped>>

(* The handler around everything freeze does after mkdir: an exception of  *)
(* any file operation or of verify, or Ctrl-C.                             *)
Interrupt(p) ==
  /\ cmd[p].op = "freeze"
  /\ cmd[p].pc \in {"write", "find", "files"}
  /\ Goto(p, "cleanup")
  /\ UNCHANGED <<registry, directory, started, overlapped>>

(* rmtree takes the files one by one; the entry, if written, stays. *)
Cleanup(p) ==
  /\ At(p, {"freeze"}, "cleanup")
  /\ LET v == cmd[p].version IN
     IF directory[v] # NoDirectory /\ directory[v].files > 0
     THEN /\ directory' = [directory EXCEPT ![v].files = @ - 1]
          /\ UNCHANGED cmd
     ELSE /\ directory' = [directory EXCEPT ![v] = NoDirectory]
          /\ Return(p)
  /\ UNCHANGED <<registry, started, overlapped>>

(* Mutant of PromoteDecides: the report may be about another binary. *)
PromoteDecidesUnbound(p) ==
  /\ At(p, {"promote"}, "decide")
  /\ \E given \in Report, override \in BOOLEAN :
       /\ given.complete
       /\ given.accepted \/ override
       /\ given.sameRun
       /\ given.version = cmd[p].version
       /\ cmd' = [cmd EXCEPT ![p].pc = "reload",
            ![p].promotion = [program |-> given.program, accepted |-> given.accepted,
                              override |-> override]]
  /\ UNCHANGED <<registry, directory, started, overlapped>>

(* promote, after verify: the run is complete, accepted or overridden, and *)
(* its two files name this version, its program and one run.               *)
PromoteDecides(p) ==
  /\ At(p, {"promote"}, "decide")
  /\ \E given \in Report, override \in BOOLEAN :
       /\ given.complete
       /\ given.accepted \/ override
       /\ given.sameRun
       /\ given.version = cmd[p].version
       /\ given.program = ProgramOf[cmd[p].found.build]
       /\ cmd' = [cmd EXCEPT ![p].pc = "reload",
            ![p].promotion = [program |-> given.program, accepted |-> given.accepted,
                              override |-> override]]
  /\ UNCHANGED <<registry, directory, started, overlapped>>

PromoteLoads(p) ==
  /\ At(p, {"promote"}, "reload")
  /\ cmd' = [cmd EXCEPT ![p].pc = "save", ![p].snapshot = registry]
  /\ UNCHANGED <<registry, directory, started, overlapped>>

(* Mutant of PromoteSaves: the old champion's entry loses its mark. *)
PromoteSavesAlone(p) ==
  /\ At(p, {"promote"}, "save")
  /\ LET v == cmd[p].version
         s == cmd[p].snapshot
     IN registry' =
          [champion |-> v,
           entries |-> [w \in Version |->
             IF s.entries[w] = NoEntry THEN NoEntry
             ELSE [s.entries[w] EXCEPT !.accepted = (w = v),
                     !.promotions = IF w = v THEN @ \cup {cmd[p].promotion} ELSE @]]]
  /\ Return(p)
  /\ UNCHANGED <<directory, started, overlapped>>

PromoteSaves(p) ==
  /\ At(p, {"promote"}, "save")
  /\ LET v == cmd[p].version
         s == cmd[p].snapshot
     IN registry' =
          [champion |-> v,
           entries |-> IF s.entries[v] = NoEntry THEN s.entries
                       ELSE [s.entries EXCEPT ![v].accepted = TRUE,
                               ![v].promotions = @ \cup {cmd[p].promotion}]]
  /\ Return(p)
  /\ UNCHANGED <<directory, started, overlapped>>

Accepted(r) == {v \in Version : r.entries[v] # NoEntry /\ r.entries[v].accepted}

(* select_opponents reads the registry, takes the champion, the anchor and *)
(* possibly an accepted predecessor, and verifies each.                    *)
StartSelect(p) ==
  /\ \E previous \in {{}} \cup {{v} : v \in Accepted(registry)} :
       Begin(p, [Idle EXCEPT !.op = "select", !.pc = "find",
                             !.todo = {registry.champion, Anchor} \cup previous])
  /\ UNCHANGED overlapped

(* kill -9, or a second Ctrl-C in the handler: nothing is cleaned up. *)
Die(p) ==
  /\ cmd[p].pc # "idle"
  /\ Return(p)
  /\ UNCHANGED <<registry, directory, started, overlapped>>

Act(p) ==
  \/ \E v \in Version, b \in Build : StartFreeze(p, v, b)
  \/ \E v \in Version : StartPromote(p, v) \/ StartVerify(p, v)
  \/ StartSelect(p)
  \/ FreezeLoads(p) \/ MakeDirectory(p) \/ Refuse(p)
  \/ WriteFile(p) \/ Register(p)
  \/ \E v \in Version : VerifyFinds(p, v)
  \/ VerifyReads(p) \/ VerifyFails(p)
  \/ Interrupt(p) \/ Cleanup(p)
  \/ PromoteDecides(p) \/ PromoteLoads(p) \/ PromoteSaves(p)
  \/ Die(p)

RegistryNext == \E p \in Process : Act(p)

RegistrySpec == RegistryInit /\ [][RegistryNext]_registryVars
-----------------------------------------------------------------------------
RegistryTypeOK ==
  /\ registry \in Registry
  /\ directory \in [Version -> Directory \cup {NoDirectory}]
  /\ cmd \in [Process -> Command]
  /\ started \in 0 .. MaxCommands
  /\ overlapped \in BOOLEAN

(* Two freezes of one version ID never mix their artifacts, however they   *)
(* interleave: the one whose mkdir succeeded finds in the directory what   *)
(* it wrote itself until it ends, and only that one ever removes a file.   *)
FreezeOwnsItsDirectory ==
  \A p \in Process : LET c == cmd[p] IN
    /\ c.op = "freeze" /\ c.pc \in {"write", "find", "files"} =>
         directory[c.version] = [build |-> c.build, files |-> c.written]
    /\ c.pc = "cleanup" =>
         /\ directory[c.version] # NoDirectory
         /\ directory[c.version].build = c.build
         /\ directory[c.version].files <= c.written

(* The champion is what candidates are measured against and what a         *)
(* promotion replaces: it is registered and accepted, its artifacts are    *)
(* the ones its entry has the hashes of, and unless it is the anchor some  *)
(* report about this very executable and config was accepted or            *)
(* overridden, which is what promote binds; a report with another          *)
(* companion will do.  The registry file is rewritten whole from a copy    *)
(* read earlier, so this is claimed of registries no two freezes or        *)
(* promotions overlapped on.                                               *)
ChampionIntact ==
  ~overlapped =>
    LET e == registry.entries[registry.champion] IN
    /\ registry.champion \in Accepted(registry)
    /\ directory[registry.champion] = Whole(e.build)
    /\ registry.champion # Anchor =>
         \E m \in e.promotions : m.program = ProgramOf[e.build] /\ (m.accepted \/ m.override)

(* A reader that took the opponents from the registry finds each of them   *)
(* whole, whatever is frozen, interrupted or promoted while it verifies    *)
(* them one after the other.                                               *)
SelectionSucceeds ==
  ~overlapped =>
    \A p \in Process : cmd[p].op = "select" /\ cmd[p].pc # "idle" =>
      \A v \in cmd[p].todo :
        /\ registry.entries[v] # NoEntry
        /\ directory[v] = Whole(registry.entries[v].build)

(* What was accepted is never changed: neither its entry's build and       *)
(* evidence nor its artifacts, by any command.                             *)
AcceptedStays ==
  [][~overlapped' =>
       \A v \in Accepted(registry) :
         /\ v \in Accepted(registry')
         /\ registry'.entries[v].build = registry.entries[v].build
         /\ registry.entries[v].promotions \subseteq registry'.entries[v].promotions
         /\ directory'[v] = directory[v]]_registryVars
=============================================================================
