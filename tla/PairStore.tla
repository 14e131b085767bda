----------------------------- MODULE PairStore -----------------------------
(***************************************************************************)
(* The installed pair store: `cyclops update`, `cyclops rollback` and the  *)
(* uninstaller changing which matched pair of binaries (client and daemon) *)
(* the two public names run.  The store is a directory tree: pair          *)
(* directories, immutable selection records naming an active and a         *)
(* known-good pair, one `active` selector link, an owner marker and a      *)
(* lease file; the two public names are links through `active`, or, before *)
(* the first managed update, the binaries themselves.                      *)
(*                                                                         *)
(* A directory entry is the sequence of the values it has had since its    *)
(* directory was last synced.  The last is what every process sees; losing *)
(* power leaves any one of them, and killing a process changes none.       *)
(* Every step of an operation is one action, so a kill, a power loss, a    *)
(* failing call or another updater may come between any two.               *)
(***************************************************************************)
EXTENDS Integers, Sequences, FiniteSets, SequencesExt

CONSTANTS
  Updaters,        \* processes that run one operation at a time
  MaxPairs,        \* pair directories that can ever be created
  MaxSelections,   \* selection records that can ever be created
  Scenarios        \* layouts the prefix may begin with, and how much happens

ASSUME ScenariosAssumption ==
  Scenarios \subseteq
    [start : {"empty", "direct", "legacy", "managed"},
     ops : Nat,      \* operations begun
     width : Nat,    \* operations running at once
     kills : Nat,    \* updaters killed between two steps
     losses : Nat,   \* power losses
     faults : Nat,   \* calls that fail
     starts : Nat,   \* daemons started by hand from the public name
     looks : Nat]    \* health inspections, which take no lease

VARIABLES
  fs,       \* entry -> the values it has had since its directory was synced
  proc,     \* updater -> its program counter and locals
  daemon,   \* the executable the running daemon was started from, or 0
  ids,      \* the next pair, selection and inode numbers
  budget,   \* what the scenario still has in store
  told,     \* what the last operation to end reported, until the next begins
            \* or changes the selection
  legacy,   \* the direct binaries are of two builds
  removal,  \* ghost: remove_managed has "never" run, has begun on this store
            \* ("now") or on an "earlier" one
  reader    \* the health inspection: where it is, what it read, its answer

vars == <<fs, proc, daemon, ids, budget, told, legacy, removal, reader>>

(***************************************************************************)
(* The tree.                                                               *)
(***************************************************************************)
PairIds == 1..MaxPairs
SelectionIds == 1..MaxSelections
Direct == MaxPairs + 1    \* the direct binaries: their path and their bytes

InPrefix == {"root", "tmppub", "cyclops", "cyclopsd"}
InRoot == {"owner", "lease", "dirs", "active", "tmp"}
Cell(name) == <<name, 0>>
Cells == {Cell(n) : n \in InPrefix \cup InRoot}
           \cup {<<"pair", p>> : p \in PairIds}
           \cup {<<"sel", s>> : s \in SelectionIds}
Dir(c) == CASE c[1] \in InPrefix -> "prefix"
            [] c[1] \in InRoot -> "root"
            [] OTHER -> c[1]

NoOwner == [ino |-> 0, whole |-> FALSE]
NoPair == [st |-> "none", bytes |-> 0]
NoSelection == [st |-> "none", active |-> 0, known |-> 0, legacy |-> FALSE]
Blank(c) == CASE c[1] \in {"root", "lease", "dirs", "active"} -> 0
              [] c[1] \in {"tmp", "tmppub"} -> FALSE
              [] c[1] \in {"cyclops", "cyclopsd"} -> "none"
              [] c[1] = "owner" -> NoOwner
              [] c[1] = "pair" -> NoPair
              [] c[1] = "sel" -> NoSelection

At(name) == Last(fs[Cell(name)])
PairAt(p) == Last(fs[<<"pair", p>>])
SelAt(s) == Last(fs[<<"sel", s>>])
Selected == At("active")

\* An entry after one more change: what it was before may still be on disk.
Changed(h, v) == Append(SelectSeq(h, LAMBDA x : x # v), v)
Write(c, v) == fs' = [fs EXCEPT ![c] = Changed(@, v)]
Write2(c, v, d, w) == fs' = [fs EXCEPT ![c] = Changed(@, v), ![d] = Changed(@, w)]
sync_directory(d) ==
  fs' = [c \in Cells |-> IF Dir(c) = d THEN <<Last(fs[c])>> ELSE fs[c]]

require_pair(p) == p \in PairIds /\ PairAt(p).st = "full"
require_selection(s) ==
  /\ SelAt(s).st = "full"
  /\ require_pair(SelAt(s).active)
  /\ require_pair(SelAt(s).known)
\* selection(): no selector, or one that names a complete record.
Readable == Selected = 0 \/ require_selection(Selected)

\* The executable and the bytes a public name runs; 0 when it runs nothing.
Executable(name) ==
  CASE At(name) = "direct" -> Direct
    [] At(name) = "link" /\ At("root") # 0 /\ Selected # 0
         /\ SelAt(Selected).st = "full" /\ require_pair(SelAt(Selected).active)
         -> SelAt(Selected).active
    [] OTHER -> 0
Runs(name) == IF Executable(name) \in PairIds
                THEN PairAt(Executable(name)).bytes ELSE Executable(name)
\* prove_pair_identity: both binaries report one build.
Matched(bytes) == bytes # 0 /\ (bytes = Direct => ~legacy)

(***************************************************************************)
(* Updaters.                                                               *)
(***************************************************************************)
Idle == [pc |-> "idle", op |-> "none", phase |-> "none", locked |-> FALSE,
         made |-> FALSE, root |-> 0, owner |-> 0, lease |-> 0, cand |-> 0,
         old |-> 0, sel |-> 0, prev |-> 0, exe |-> 0, stopped |-> FALSE,
         discard |-> "no", name |-> "cyclopsd", cell |-> Cell("root")]

Unread == [pc |-> "idle", root |-> 0, sel |-> 0, record |-> NoSelection,
           sound |-> FALSE, answer |-> "none"]

Go(p, pc) == proc' = [proc EXCEPT ![p].pc = pc]
GoIn(p, phase, pc) == proc' = [proc EXCEPT ![p].pc = pc, ![p].phase = phase]
Nothing == [op |-> "none", result |-> "none", active |-> 0, known |-> 0]
Report(p, result) ==
  [op |-> proc[p].op, result |-> result,
   active |-> IF Selected = 0 THEN 0 ELSE SelAt(Selected).active,
   known |-> IF Selected = 0 THEN 0 ELSE SelAt(Selected).known]
End(p, result) ==
  /\ proc' = [proc EXCEPT ![p] = Idle]
  /\ told' = Report(p, result)

\* Mutant: the store at the path is not compared with the store opened.
RootUnchecked(p) == At("root") # 0

\* The store opened is still the one at the path: same directory, same owner
\* marker, same lease file.
require_root(p) ==
  /\ At("root") = proc[p].root
  /\ At("owner").ino = proc[p].owner
  /\ At("lease") = proc[p].lease

Creates(p) == proc[p].op # "remove"
ExeOfSelection(s) == IF s = 0 THEN 0 ELSE SelAt(s).active

\* Where an operation goes when the step it is at fails: what it undoes,
\* restores and restarts before it reports the failure.
OpenPcs == {"root", "rootsync", "owner", "ownerwrite", "ownersync", "ownerread",
            "lease", "leasesync", "flock", "dirs", "dirsync", "recover",
            "recsync1", "recsync2", "recsel"}
LinkPcs == {"link", "linkmv", "linksync"}
SweepPcs == {"sweep", "rmdir", "rmsync"}
BeforeVisible == {"migrate", "activate", "prepare", "describe", "selsync",
                  "select", "rename"}
\* Mutant: a rename whose sync failed counts as no change at all.
RecoveredBlind(r) ==
  CASE r.pc = "publish" /\ r.phase = "act" ->
         [r EXCEPT !.discard = "ifok", !.pc = "restart"]
    [] OTHER -> Idle

Recovered(r) ==
  CASE r.pc \in {"copy", "stagesync"} ->
         [r EXCEPT !.phase = IF @ = "mig" THEN "unmig" ELSE "unstage", !.pc = "sweep"]
    [] r.pc \in {"before", "stop"} /\ r.op = "install" ->
         [r EXCEPT !.phase = "discard", !.pc = "sweep"]
    [] r.pc = "replay" ->
         [r EXCEPT !.discard = IF r.op = "install" THEN "always" ELSE "no",
                   !.pc = "restart"]
    [] \/ r.pc \in BeforeVisible /\ r.phase # "back"
       \/ r.pc = "stage" /\ r.phase = "mig"
       \/ r.pc \in SweepPcs /\ r.phase = "unmig" ->
         [r EXCEPT !.discard = IF r.op = "install" THEN "ifok" ELSE "no",
                   !.pc = "restart"]
    [] r.pc \in {"publish", "names"} \cup LinkPcs /\ r.phase \in {"act", "rb"} /\ r.prev # 0 ->
         [r EXCEPT !.discard = IF r.op = "install" THEN "ifok" ELSE "no",
                   !.phase = "back", !.pc = "select"]
    [] r.pc = "start" -> [r EXCEPT !.pc = "unstart"]
    [] r.pc = "restart" /\ r.discard = "always" ->
         [r EXCEPT !.phase = "discard", !.pc = "sweep"]
    [] OTHER -> Idle
\* A failed prune is only reported: the operation has already succeeded.
Fail(p, why) ==
  /\ proc' = [proc EXCEPT ![p] = Recovered(@)]
  /\ told' = IF Recovered(proc[p]) # Idle THEN told
               ELSE Report(p, IF proc[p].phase = "prune" THEN "ok" ELSE why)

(***************************************************************************)
(* Opening the store: PairStore::open_inner.                               *)
(***************************************************************************)
rest == <<daemon, budget, legacy, removal, reader>>
Quiet == UNCHANGED <<rest, ids, told>>

\* An operation begins.  The uninstaller first proves the two public names
\* one build and takes down the daemon's path, before it holds the lease.
Begin(p, op) ==
  /\ proc[p].pc = "idle" /\ budget.ops > 0
  /\ Cardinality({q \in Updaters : proc[q].pc # "idle"}) < budget.width
  /\ op = "rollback" => Runs("cyclops") # 0
  /\ op = "remove" => /\ Runs("cyclops") = Runs("cyclopsd")
                      /\ Matched(Runs("cyclops"))
  /\ proc' = [proc EXCEPT ![p] =
                [Idle EXCEPT !.op = op, !.pc = "root",
                             !.exe = IF op = "remove" THEN Executable("cyclopsd") ELSE 0]]
  /\ budget' = [budget EXCEPT !.ops = @ - 1]
  /\ told' = Nothing
  /\ UNCHANGED <<fs, daemon, ids, legacy, removal, reader>>

OpenRoot(p) ==
  /\ proc[p].pc = "root"
  /\ \/ /\ At("root") # 0
        /\ Go(p, "owner") /\ UNCHANGED <<fs, ids, told, rest>>
     \/ /\ At("root") = 0 /\ ~Creates(p)     \* no store: nothing but the daemon
        /\ Go(p, "stop") /\ UNCHANGED <<fs, ids, told, rest>>
     \/ /\ At("root") = 0 /\ Creates(p)
        /\ fs' = [c \in Cells |-> CASE c = Cell("root") -> Changed(fs[c], ids.ino)
                                      [] Dir(c) = "prefix" /\ c # Cell("root") -> fs[c]
                                      [] OTHER -> <<Blank(c)>>]
        /\ ids' = [ids EXCEPT !.ino = @ + 1]
        /\ removal' = IF removal = "never" THEN "never" ELSE "earlier"
        /\ proc' = [proc EXCEPT ![p].pc = "rootsync", ![p].made = TRUE]
        /\ UNCHANGED <<daemon, budget, legacy, told, reader>>

SyncThen(p, from, dir, to) ==
  /\ proc[p].pc = from
  /\ sync_directory(dir)
  /\ Go(p, to)
  /\ Quiet

OpenOwner(p) ==
  /\ proc[p].pc = "owner"
  /\ UNCHANGED rest
  /\ \/ /\ At("root") = 0 \/ (At("owner").ino # 0 /\ proc[p].made)
        /\ Fail(p, "failed") /\ UNCHANGED <<fs, ids>>
     \/ /\ At("root") # 0
        /\ IF At("owner").ino # 0 THEN ~proc[p].made ELSE ~Creates(p)
        /\ Go(p, "ownerread") /\ UNCHANGED <<fs, ids, told>>
     \/ /\ At("root") # 0 /\ At("owner").ino = 0 /\ Creates(p)
        /\ \E n \in InRoot : At(n) # Blank(Cell(n))      \* unexpected entries
        /\ Fail(p, "unrepaired") /\ UNCHANGED <<fs, ids>>
     \/ /\ At("root") # 0 /\ Creates(p)
        /\ \A n \in InRoot : At(n) = Blank(Cell(n))
        /\ Write(Cell("owner"), [ino |-> ids.ino, whole |-> FALSE])
        /\ ids' = [ids EXCEPT !.ino = @ + 1]
        /\ Go(p, "ownerwrite") /\ UNCHANGED told

\* write_new creates the marker before it writes the user id into it.
OwnerWrite(p) ==
  /\ proc[p].pc = "ownerwrite"
  /\ Write(Cell("owner"), [At("owner") EXCEPT !.whole = TRUE])
  /\ Go(p, "ownersync") /\ Quiet

OwnerRead(p) ==
  /\ proc[p].pc = "ownerread"
  /\ IF At("owner").whole THEN Go(p, "lease") /\ UNCHANGED told
       ELSE Fail(p, IF At("owner").ino = 0 THEN "failed" ELSE "torn")
  /\ UNCHANGED <<fs, ids, rest>>

OpenLease(p) ==
  /\ proc[p].pc = "lease"
  /\ UNCHANGED rest
  /\ \/ /\ At("root") = 0 \/ (At("lease") = 0 /\ ~Creates(p))
        /\ Fail(p, "failed") /\ UNCHANGED <<fs, ids>>
     \/ /\ At("lease") # 0
        /\ proc' = [proc EXCEPT ![p].pc = "flock", ![p].lease = At("lease")]
        /\ UNCHANGED <<fs, ids, told>>
     \/ /\ At("root") # 0 /\ At("lease") = 0 /\ Creates(p)
        /\ Write(Cell("lease"), ids.ino)
        /\ ids' = [ids EXCEPT !.ino = @ + 1]
        /\ proc' = [proc EXCEPT ![p].pc = "leasesync", ![p].lease = ids.ino]
        /\ UNCHANGED told

\* A non-blocking flock on the open file, then the identities by path.
Flock(p) ==
  /\ proc[p].pc = "flock"
  /\ IF \/ \E q \in Updaters \ {p} : proc[q].locked /\ proc[q].lease = proc[p].lease
        \/ At("root") = 0 \/ At("owner").ino = 0
       THEN Fail(p, "failed")
       ELSE /\ proc' = [proc EXCEPT ![p].pc = "dirs", ![p].locked = TRUE,
                          ![p].root = At("root"), ![p].owner = At("owner").ino]
            /\ UNCHANGED told
  /\ UNCHANGED <<fs, ids, rest>>

OpenDirs(p) ==
  /\ proc[p].pc = "dirs"
  /\ UNCHANGED <<ids, rest>>
  /\ \/ /\ At("dirs") = 2
        /\ Go(p, IF Creates(p) THEN "recover" ELSE "stop") /\ UNCHANGED <<fs, told>>
     \/ /\ At("dirs") < 2 /\ (At("root") = 0 \/ ~Creates(p))
        /\ Fail(p, "failed") /\ UNCHANGED fs
     \/ /\ At("dirs") < 2 /\ At("root") # 0 /\ Creates(p)
        /\ Write(Cell("dirs"), At("dirs") + 1)
        /\ Go(p, "dirsync") /\ UNCHANGED told

(***************************************************************************)
(* recover_interrupted_update: temporary selectors go first and both       *)
(* directories are synced, so that the selector seen is the selector kept; *)
(* then the public links are repaired and unselected residue removed.      *)
(***************************************************************************)
remove_temporary_selectors(p) ==
  /\ proc[p].pc = "recover"
  /\ IF require_root(p)
       THEN /\ Write2(Cell("tmp"), FALSE, Cell("tmppub"), FALSE)
            /\ Go(p, "recsync1") /\ UNCHANGED told
       ELSE Fail(p, "failed") /\ UNCHANGED fs
  /\ UNCHANGED <<ids, rest>>

\* Mutant: a public name that is not there yet is refused, not repaired.
RecoverStrict(p) ==
  /\ proc[p].pc = "recsel"
  /\ IF Selected # 0 /\ At("cyclops") = "none" THEN Fail(p, "unrepaired")
       ELSE GoIn(p, "repair", IF Selected # 0 THEN "link" ELSE "sweep") /\ UNCHANGED told
  /\ UNCHANGED <<fs, ids, rest>>

recover_interrupted_update(p) ==
  /\ proc[p].pc = "recsel"
  /\ CASE ~require_root(p) -> Fail(p, "failed")
       [] require_root(p) /\ ~Readable -> Fail(p, "unrepaired")
       [] OTHER -> /\ GoIn(p, "repair", IF Selected # 0 THEN "link" ELSE "sweep")
                   /\ UNCHANGED told
  /\ UNCHANGED <<fs, ids, rest>>

(***************************************************************************)
(* replace_public_link, cyclopsd before cyclops, in the phases that        *)
(* use it; repair_public_links keeps a link and refuses foreign bytes.     *)
(***************************************************************************)
NextLink(p) ==
  IF proc[p].name = "cyclopsd"
    THEN proc' = [proc EXCEPT ![p].name = "cyclops", ![p].pc = "link"]
    ELSE proc' = [proc EXCEPT ![p].name = "cyclopsd",
           ![p].pc = CASE proc[p].phase = "repair" -> "sweep"
                       [] proc[p].phase \in {"mig", "migrepair"} -> "activate"
                       [] proc[p].phase = "act" -> "start"]

\* Mutant: the public name is unlinked before its replacement is made.
LinkUnlinked(p) ==
  /\ proc[p].pc = "link"
  /\ Write(Cell(proc[p].name), "none")
  /\ Go(p, "linkmv") /\ Quiet

LinkTemporary(p) ==
  LET name == proc[p].name
      repairing == proc[p].phase \in {"repair", "migrepair"}
      kept == repairing /\ At(name) = "link"
      foreign == /\ repairing /\ At(name) = "direct"
                 /\ PairAt(SelAt(Selected).active).bytes # Direct
  IN /\ proc[p].pc = "link"
     /\ CASE kept -> NextLink(p) /\ UNCHANGED <<fs, told>>
          [] ~kept /\ (foreign \/ ~require_root(p)) ->
               /\ Fail(p, IF foreign /\ proc[p].phase = "repair" THEN "unrepaired" ELSE "failed")
               /\ UNCHANGED fs
          [] OTHER -> /\ Write(Cell("tmppub"), TRUE)
                      /\ Go(p, "linkmv") /\ UNCHANGED told
     /\ UNCHANGED <<ids, rest>>

LinkRename(p) ==
  /\ proc[p].pc = "linkmv"
  /\ Write2(Cell("tmppub"), FALSE, Cell(proc[p].name), "link")
  /\ Go(p, "linksync") /\ Quiet

\* Mutant: the public name's rename is taken for granted.
LinkUnsynced(p) ==
  /\ proc[p].pc = "linksync"
  /\ NextLink(p) /\ UNCHANGED fs /\ Quiet

LinkSync(p) ==
  /\ proc[p].pc = "linksync"
  /\ sync_directory("prefix")
  /\ NextLink(p) /\ Quiet

(***************************************************************************)
(* Removing directories: residue at open, stale pairs after an update, a   *)
(* candidate given up, or the whole store.  Each is emptied, removed, and  *)
(* its parent synced; selections go before pairs.                          *)
(***************************************************************************)
Stale ==
  LET sels == {<<"sel", s>> : s \in {t \in SelectionIds : t # Selected /\ SelAt(t).st # "none"}}
      pairs == {<<"pair", q>> : q \in {r \in PairIds :
                  /\ PairAt(r).st # "none"
                  /\ Selected # 0 => r \notin {SelAt(Selected).active, SelAt(Selected).known}}}
  IN IF sels # {} THEN sels ELSE pairs
Doomed(p) ==
  CASE proc[p].phase \in {"repair", "prune", "remove"} -> Stale
    [] proc[p].phase = "unmig" -> {<<"pair", proc[p].old>>}
    [] OTHER -> {<<"pair", proc[p].cand>>}
Left(p) == {c \in Doomed(p) : Last(fs[c]).st # "none"}
\* discard() and prune() check before they remove anything.
MaySweep(p) ==
  CASE proc[p].phase = "discard" ->
         /\ require_root(p) /\ Readable /\ require_pair(proc[p].cand)
         /\ Selected # 0 => proc[p].cand \notin {SelAt(Selected).active, SelAt(Selected).known}
    [] proc[p].phase \in {"prune", "remove"} ->
         \A c \in Left(p) : c[1] = "sel" => SelAt(c[2]).st = "full"
    [] OTHER -> TRUE

Sweep(p) ==
  /\ proc[p].pc = "sweep" /\ Left(p) # {}
  /\ IF MaySweep(p)
       THEN /\ \E c \in Left(p) :
                 /\ Write(c, [Last(fs[c]) EXCEPT !.st = "part"])
                 /\ proc' = [proc EXCEPT ![p].pc = "rmdir", ![p].cell = c]
            /\ UNCHANGED told
       ELSE Fail(p, "failed") /\ UNCHANGED fs
  /\ UNCHANGED <<ids, rest>>

RemoveDir(p) ==
  /\ proc[p].pc = "rmdir"
  /\ Write(proc[p].cell, Blank(proc[p].cell))
  /\ Go(p, "rmsync") /\ Quiet

RemoveSync(p) ==
  /\ proc[p].pc = "rmsync"
  /\ sync_directory(Dir(proc[p].cell))
  /\ Go(p, "sweep") /\ Quiet

Swept(p) ==
  /\ proc[p].pc = "sweep" /\ Left(p) = {}
  /\ CASE proc[p].phase = "repair" ->
            /\ proc' = [proc EXCEPT ![p].phase = "none",
                 ![p].pc = IF proc[p].op = "install" THEN "stage" ELSE "before"]
            /\ UNCHANGED told
       [] proc[p].phase = "remove" -> Go(p, "rmdirs") /\ UNCHANGED told
       [] proc[p].phase = "unmig" ->
            /\ proc' = [proc EXCEPT ![p].pc = "restart", ![p].discard = "ifok"]
            /\ UNCHANGED told
       [] OTHER -> End(p, IF proc[p].phase = "prune" THEN "ok" ELSE "failed")
  /\ UNCHANGED <<fs, ids, rest>>

(***************************************************************************)
(* Staging: stage for a candidate and for a matched direct pair,           *)
(* stage_legacy for direct binaries of two builds.                         *)
(***************************************************************************)
Staged(p) == IF proc[p].phase = "mig" THEN proc[p].old ELSE proc[p].cand

stage(p) ==
  /\ proc[p].pc = "stage"
  /\ IF ~require_root(p)
       THEN Fail(p, "failed") /\ UNCHANGED <<fs, ids>>
       ELSE /\ ids.pair \in PairIds
            /\ Write(<<"pair", ids.pair>>,
                     [st |-> "part", bytes |-> IF proc[p].phase = "mig" THEN Direct ELSE ids.pair])
            /\ ids' = [ids EXCEPT !.pair = @ + 1]
            /\ proc' = IF proc[p].phase = "mig"
                 THEN [proc EXCEPT ![p].pc = "copy", ![p].old = ids.pair]
                 ELSE [proc EXCEPT ![p].pc = "copy", ![p].cand = ids.pair]
            /\ UNCHANGED told
  /\ UNCHANGED rest

copy_executable(p) ==
  /\ proc[p].pc = "copy"
  /\ Write(<<"pair", Staged(p)>>, [PairAt(Staged(p)) EXCEPT !.st = "full"])
  /\ Go(p, "stagesync") /\ Quiet

StageSync(p) ==
  /\ proc[p].pc = "stagesync"
  /\ sync_directory("pair")
  /\ Go(p, IF proc[p].phase = "mig" THEN "prepare" ELSE "before") /\ Quiet

(***************************************************************************)
(* The daemon: stopped only when it runs the selected executable, started  *)
(* only when none answers.                                                 *)
(***************************************************************************)
\* The selection in force before anything changes.
ReadBefore(p) ==
  /\ proc[p].pc = "before"
  /\ IF require_root(p) /\ Readable /\ (proc[p].op = "rollback" => Selected # 0)
       THEN proc' = [proc EXCEPT ![p].pc = "stop", ![p].prev = Selected] /\ UNCHANGED told
       ELSE Fail(p, "failed")
  /\ UNCHANGED <<fs, ids, rest>>

stop_selected_for_pair_change(p) ==
  LET exe == CASE proc[p].op = "remove" -> proc[p].exe
               [] proc[p].op # "remove" /\ proc[p].prev # 0 -> SelAt(proc[p].prev).active
               [] OTHER -> Executable("cyclopsd")
      resolves == proc[p].op = "remove" =>
                    IF exe = Direct THEN At("cyclopsd") = "direct" ELSE require_pair(exe)
      next == CASE proc[p].op # "remove" -> "replay"
                [] proc[p].op = "remove" /\ proc[p].root # 0 -> "validate"
                [] OTHER -> "idle"
  IN /\ proc[p].pc = "stop"
     /\ IF resolves /\ daemon \in {0, exe}
          THEN /\ daemon' = 0
               /\ IF next = "idle" THEN End(p, "ok")
                    ELSE /\ proc' = [proc EXCEPT ![p].pc = next, ![p].stopped = daemon # 0]
                         /\ UNCHANGED told
          ELSE Fail(p, "failed") /\ UNCHANGED daemon
     /\ UNCHANGED <<fs, ids, budget, legacy, removal, reader>>

\* The candidate, or the pair to roll back to, replays the daemon's journals.
Replay(p) ==
  LET sel == SelAt(proc[p].prev)
  IN /\ proc[p].pc = "replay"
     /\ IF proc[p].op = "rollback" /\ (sel.legacy \/ sel.active = sel.known)
          THEN Fail(p, "failed")
          ELSE /\ IF proc[p].op = "rollback" THEN GoIn(p, "rb", "prepare")
                                             ELSE Go(p, "migrate")
               /\ UNCHANGED told
     /\ UNCHANGED <<fs, ids, rest>>

\* restart_pre_activation_pair, and start_and_prove_selected in a rollback.
Restart(p) ==
  LET exe == IF proc[p].prev # 0 THEN ExeOfSelection(Selected) ELSE Executable("cyclopsd")
      bytes == IF exe \in PairIds THEN PairAt(exe).bytes ELSE exe
      ok == ~proc[p].stopped \/ (daemon = 0 /\ Readable /\ Matched(bytes))
  IN /\ proc[p].pc = "restart"
     /\ IF ok
          THEN /\ daemon' = IF proc[p].stopped THEN exe ELSE daemon
               /\ IF proc[p].discard = "no" THEN End(p, "failed")
                    ELSE GoIn(p, "discard", "sweep") /\ UNCHANGED told
          ELSE Fail(p, "failed") /\ UNCHANGED daemon
     /\ UNCHANGED <<fs, ids, budget, legacy, removal, reader>>

\* start_and_prove_selected after the change; then an update prunes.
StartSelected(p) ==
  LET done == IF proc[p].op = "install" THEN GoIn(p, "prune", "sweep") /\ UNCHANGED told
                                        ELSE End(p, "ok")
  IN /\ proc[p].pc = "start"
     /\ IF ~proc[p].stopped \/ (daemon = 0 /\ Readable)
          THEN done /\ daemon' = IF proc[p].stopped THEN ExeOfSelection(Selected) ELSE daemon
          ELSE Fail(p, "failed") /\ UNCHANGED daemon
     /\ UNCHANGED <<fs, ids, budget, legacy, removal, reader>>

\* The new daemon did not take over: stop it if it is ours, then restore.
StopFailedCandidate(p) ==
  /\ proc[p].pc = "unstart"
  /\ IF daemon \in {0, ExeOfSelection(Selected)} /\ proc[p].prev # 0
       THEN /\ proc' = [proc EXCEPT ![p].pc = "select", ![p].phase = "back"]
            /\ daemon' = 0 /\ UNCHANGED told
       ELSE /\ Fail(p, "failed")
            /\ daemon' = IF daemon = ExeOfSelection(Selected) THEN 0 ELSE daemon
  /\ UNCHANGED <<fs, ids, budget, legacy, removal, reader>>

(***************************************************************************)
(* Changing the selection.                                                 *)
(***************************************************************************)
\* Mutant: direct binaries are not moved behind the selector first.
MigrateNothing(p) ==
  /\ proc[p].pc = "migrate"
  /\ Go(p, "activate") /\ UNCHANGED fs /\ Quiet

migrate_direct_pair(p) ==
  LET pub == <<At("cyclops"), At("cyclopsd")>>
  IN /\ proc[p].pc = "migrate"
     /\ CASE ~(require_root(p) /\ require_pair(proc[p].cand) /\ Readable) -> Fail(p, "failed")
          [] require_root(p) /\ Selected = 0 /\ pub = <<"direct", "direct">> ->
               GoIn(p, "mig", "stage") /\ UNCHANGED told
          [] require_root(p) /\ Selected # 0 /\ pub # <<"link", "link">> ->
               GoIn(p, "migrepair", "link") /\ UNCHANGED told
          [] require_root(p) /\ pub \in {<<"link", "link">>, <<"none", "none">>} ->
               Go(p, "activate") /\ UNCHANGED told
          [] OTHER -> Fail(p, "failed")
     /\ UNCHANGED <<fs, ids, rest>>

activate(p) ==
  /\ proc[p].pc = "activate"
  /\ IF require_root(p) /\ require_pair(proc[p].cand) /\ Readable
       THEN /\ proc' = [proc EXCEPT ![p].pc = "prepare", ![p].phase = "act",
                                    ![p].prev = Selected]
            /\ UNCHANGED told
       ELSE Fail(p, "failed")
  /\ UNCHANGED <<fs, ids, rest>>

\* What the new record names: a migration keeps the direct pair active, an
\* activation keeps the pair it replaces as known-good unless that pair is of
\* two builds, a rollback swaps.
NewSelection(p) ==
  LET r == proc[p]
      before == SelAt(r.prev)
      Record(a, k, l) == [st |-> "part", active |-> a, known |-> k, legacy |-> l]
  IN CASE r.phase = "mig" -> IF legacy THEN Record(r.old, r.cand, TRUE)
                                       ELSE Record(r.old, r.old, FALSE)
       [] r.phase = "act" /\ r.prev = 0 -> Record(r.cand, r.cand, FALSE)
       [] r.phase = "act" /\ r.prev # 0 ->
            Record(r.cand, IF before.legacy THEN before.known ELSE before.active, FALSE)
       [] r.phase = "rb" -> Record(before.known, before.active, FALSE)

prepare_selection(p) ==
  LET new == NewSelection(p)
  IN /\ proc[p].pc = "prepare"
     /\ IF require_root(p) /\ require_pair(new.active) /\ require_pair(new.known)
          THEN /\ ids.sel \in SelectionIds
               /\ Write(<<"sel", ids.sel>>, new)
               /\ ids' = [ids EXCEPT !.sel = @ + 1]
               /\ proc' = [proc EXCEPT ![p].pc = "describe", ![p].sel = ids.sel]
               /\ UNCHANGED told
          ELSE Fail(p, "failed") /\ UNCHANGED <<fs, ids>>
     /\ UNCHANGED rest

\* Mutant: the record is selected before its directory is synced.
DescribeUnsynced(p) ==
  /\ proc[p].pc = "describe"
  /\ Write(<<"sel", proc[p].sel>>, [SelAt(proc[p].sel) EXCEPT !.st = "full"])
  /\ Go(p, "select") /\ Quiet

DescribeSelection(p) ==
  /\ proc[p].pc = "describe"
  /\ Write(<<"sel", proc[p].sel>>, [SelAt(proc[p].sel) EXCEPT !.st = "full"])
  /\ Go(p, "selsync") /\ Quiet

\* select, and restore_selection in phase "back".
Target(p) == IF proc[p].phase = "back" THEN proc[p].prev ELSE proc[p].sel

select(p) ==
  /\ proc[p].pc = "select"
  /\ IF require_root(p) /\ require_selection(Target(p))
       THEN Write(Cell("tmp"), TRUE) /\ Go(p, "rename") /\ UNCHANGED told
       ELSE Fail(p, "failed") /\ UNCHANGED fs
  /\ UNCHANGED <<ids, rest>>

RenameSelector(p) ==
  /\ proc[p].pc = "rename"
  /\ Write2(Cell("tmp"), FALSE, Cell("active"), Target(p))
  /\ Go(p, "publish")
  /\ told' = Nothing
  /\ UNCHANGED <<ids, rest>>

Published(p) == CASE proc[p].phase = "back" -> "restart"
                  [] proc[p].phase = "mig" -> "link"
                  [] proc[p].phase = "act" ->
                       IF proc[p].prev = 0 THEN "link" ELSE "names"
                  [] OTHER -> "start"
sync_selector_directory(p) ==
  /\ proc[p].pc = "publish"
  /\ sync_directory("root")
  /\ Go(p, Published(p)) /\ Quiet

require_public_links(p) ==
  /\ proc[p].pc = "names"
  /\ IF require_root(p) /\ At("cyclops") = "link" /\ At("cyclopsd") = "link"
       THEN Go(p, "start") /\ UNCHANGED told
       ELSE Fail(p, "failed")
  /\ UNCHANGED <<fs, ids, rest>>

(***************************************************************************)
(* remove_managed: everything is validated before anything is removed.     *)
(***************************************************************************)
validate_managed_schema(p) ==
  /\ proc[p].pc = "validate"
  /\ IF /\ require_root(p) /\ ~At("tmp") /\ Readable
        /\ \A s \in SelectionIds : SelAt(s).st # "none" => require_selection(s)
       THEN Go(p, "unselect") /\ UNCHANGED told
       ELSE Fail(p, "failed")
  /\ UNCHANGED <<fs, ids, rest>>

RemoveSelector(p) ==
  /\ proc[p].pc = "unselect"
  /\ Write(Cell("active"), 0)
  /\ GoIn(p, "remove", "sweep")
  /\ removal' = "now"
  /\ told' = Nothing
  /\ UNCHANGED <<daemon, ids, budget, legacy, reader>>

RemoveDirs(p) ==
  /\ proc[p].pc = "rmdirs"
  /\ Write(Cell("dirs"), At("dirs") - 1)
  /\ Go(p, IF At("dirs") = 1 THEN "rmowner" ELSE "rmdirs") /\ Quiet

RemoveOwner(p) ==
  /\ proc[p].pc = "rmowner"
  /\ IF require_root(p)
       THEN Write(Cell("owner"), NoOwner) /\ Go(p, "rmlease") /\ UNCHANGED told
       ELSE Fail(p, "failed") /\ UNCHANGED fs
  /\ UNCHANGED <<ids, rest>>

RemoveLease(p) ==
  /\ proc[p].pc = "rmlease"
  /\ Write(Cell("lease"), 0)
  /\ Go(p, "unlock") /\ Quiet

DropLease(p) ==
  /\ proc[p].pc = "unlock"
  /\ proc' = [proc EXCEPT ![p].pc = "rmroot", ![p].locked = FALSE]
  /\ UNCHANGED fs /\ Quiet

RemoveRoot(p) ==
  /\ proc[p].pc = "rmroot"
  /\ IF At("root") # 0 /\ \A n \in InRoot : At(n) = Blank(Cell(n))
       THEN Write(Cell("root"), 0) /\ Go(p, "rmrootsync") /\ UNCHANGED told
       ELSE Fail(p, "failed") /\ UNCHANGED fs
  /\ UNCHANGED <<ids, rest>>

RemovedSync(p) ==
  /\ proc[p].pc = "rmrootsync"
  /\ sync_directory("prefix")
  /\ End(p, "ok")
  /\ UNCHANGED <<ids, rest>>

(***************************************************************************)
(* The world: failing calls, kills, power loss, a daemon started by hand.  *)
(***************************************************************************)
\* Steps that call nothing that can fail on its own.
Infallible(r) == \/ r.pc \in {"idle", "unlock", "sweep"}
                 \/ r.pc \in {"start", "restart"} /\ ~r.stopped
CallFails(p) ==
  /\ ~Infallible(proc[p]) /\ budget.faults > 0
  /\ budget' = [budget EXCEPT !.faults = @ - 1]
  /\ Fail(p, "failed")
  /\ UNCHANGED <<fs, daemon, ids, legacy, removal, reader>>

Kill(p) ==
  /\ proc[p].pc # "idle" /\ budget.kills > 0
  /\ budget' = [budget EXCEPT !.kills = @ - 1]
  /\ proc' = [proc EXCEPT ![p] = Idle]
  /\ UNCHANGED <<fs, daemon, ids, told, legacy, removal, reader>>

\* What is inside a store whose own entry was lost is lost with it.
PowerLoss ==
  LET dirty == {c \in Cells : Len(fs[c]) > 1}
      longest == Max({1} \cup {Len(fs[c]) : c \in dirty})
  IN /\ budget.losses > 0
     /\ budget' = [budget EXCEPT !.losses = @ - 1]
     /\ \E pick \in [dirty -> 1..longest] :
          /\ \A c \in dirty : pick[c] <= Len(fs[c])
          /\ LET kept(c) == IF c \in dirty THEN fs[c][pick[c]] ELSE Last(fs[c])
             IN fs' = [c \in Cells |->
                         IF kept(Cell("root")) = 0 /\ Dir(c) # "prefix"
                           THEN <<Blank(c)>> ELSE <<kept(c)>>]
     /\ proc' = [p \in Updaters |-> Idle]
     /\ daemon' = 0 /\ reader' = Unread
     /\ UNCHANGED <<ids, told, legacy, removal>>

\* `cyclops start` runs the daemon its public name resolves to.
UserStarts ==
  /\ daemon = 0 /\ budget.starts > 0 /\ Executable("cyclopsd") # 0
  /\ daemon' = Executable("cyclopsd")
  /\ budget' = [budget EXCEPT !.starts = @ - 1]
  /\ UNCHANGED <<fs, proc, ids, told, legacy, removal, reader>>

(***************************************************************************)
(* Health: installed_pair_descriptor reads without the lease, through the  *)
(* directory it opened, and answers only if the selector is still the same.*)
(***************************************************************************)
aside == <<fs, proc, daemon, ids, told, legacy, removal>>

installed_pair_descriptor ==
  /\ reader.pc = "idle" /\ budget.looks > 0 /\ At("root") # 0
  /\ budget' = [budget EXCEPT !.looks = @ - 1]
  /\ \/ /\ Selected = 0      \* the store has no active selector
        /\ reader' = [Unread EXCEPT !.answer = "invalid"]
     \/ /\ Selected # 0
        /\ reader' = [Unread EXCEPT !.pc = "record", !.root = At("root"), !.sel = Selected]
  /\ UNCHANGED aside

InspectRecord ==
  /\ reader.pc = "record"
  /\ reader' = [reader EXCEPT !.pc = "pairs", !.record = SelAt(reader.sel),
                  !.sound = At("owner").whole /\ At("lease") # 0]
  /\ UNCHANGED <<aside, budget>>

verify_recorded_pair_snapshot ==
  /\ reader.pc = "pairs"
  /\ reader' = [reader EXCEPT !.pc = "recheck",
                  !.sound = /\ @ /\ reader.record.st = "full"
                            /\ require_pair(reader.record.active)
                            /\ require_pair(reader.record.known)]
  /\ UNCHANGED <<aside, budget>>

\* Mutant: the selector is not read again.
AnswerUnchecked ==
  /\ reader.pc = "recheck"
  /\ reader' = [Unread EXCEPT !.sel = reader.sel,
                              !.answer = IF reader.sound THEN "sound" ELSE "invalid"]
  /\ UNCHANGED <<aside, budget>>

AnswerInspection ==
  /\ reader.pc = "recheck"
  /\ reader' = [Unread EXCEPT !.sel = reader.sel, !.answer =
       CASE At("root") # reader.root \/ Selected # reader.sel -> "changed"
         [] At("root") = reader.root /\ Selected = reader.sel ->
              IF reader.sound THEN "sound" ELSE "invalid"]
  /\ UNCHANGED <<aside, budget>>

\* An empty prefix, two direct binaries of one build or of two, or a managed
\* store with two pairs; the daemon of an installed pair may be running.
ManagedAt(c) ==
  CASE c[1] \in {"root", "lease"} -> IF c[1] = "root" THEN 1 ELSE 3
    [] c[1] = "owner" -> [ino |-> 2, whole |-> TRUE]
    [] c[1] = "dirs" -> 2
    [] c[1] = "active" -> 1
    [] c[1] \in {"cyclops", "cyclopsd"} -> "link"
    [] c[1] = "pair" /\ c[2] \in 1..2 -> [st |-> "full", bytes |-> c[2]]
    [] c[1] = "sel" /\ c[2] = 1 -> [st |-> "full", active |-> 2, known |-> 1, legacy |-> FALSE]
    [] OTHER -> Blank(c)

Init ==
  \E start \in {c.start : c \in Scenarios} :
    /\ legacy = (start = "legacy")
    /\ fs = [c \in Cells |->
               CASE start = "managed" -> <<ManagedAt(c)>>
                 [] start \in {"direct", "legacy"} /\ c[1] \in {"cyclops", "cyclopsd"}
                      -> <<"direct">>
                 [] OTHER -> <<Blank(c)>>]
    /\ ids = IF start = "managed" THEN [pair |-> 3, sel |-> 2, ino |-> 4]
                                  ELSE [pair |-> 1, sel |-> 1, ino |-> 1]
    /\ daemon \in {0} \cup (CASE start = "managed" -> {2}
                              [] start = "empty" -> {}
                              [] OTHER -> {Direct})
    /\ proc = [p \in Updaters |-> Idle]
    /\ budget \in {c \in Scenarios : c.start = start}
    /\ told = Nothing
    /\ removal = "never"
    /\ reader = Unread

Opening(p) ==
  \/ OpenRoot(p)
  \/ SyncThen(p, "rootsync", "prefix", "owner")
  \/ OpenOwner(p)
  \/ OwnerWrite(p)
  \/ SyncThen(p, "ownersync", "root", "ownerread")
  \/ OwnerRead(p)
  \/ OpenLease(p)
  \/ SyncThen(p, "leasesync", "root", "flock")
  \/ Flock(p)
  \/ OpenDirs(p)
  \/ SyncThen(p, "dirsync", "root", "dirs")
  \/ remove_temporary_selectors(p)
  \/ SyncThen(p, "recsync1", "root", "recsync2")
  \/ SyncThen(p, "recsync2", "prefix", "recsel")
  \/ recover_interrupted_update(p)

Changing(p) ==
  \/ LinkTemporary(p) \/ LinkRename(p) \/ LinkSync(p)
  \/ Sweep(p) \/ RemoveDir(p) \/ RemoveSync(p) \/ Swept(p)
  \/ stage(p) \/ copy_executable(p) \/ StageSync(p)
  \/ ReadBefore(p) \/ stop_selected_for_pair_change(p) \/ Replay(p)
  \/ migrate_direct_pair(p) \/ activate(p)
  \/ prepare_selection(p) \/ DescribeSelection(p)
  \/ SyncThen(p, "selsync", "sel", "select")
  \/ select(p) \/ RenameSelector(p) \/ sync_selector_directory(p)
  \/ require_public_links(p)
  \/ StartSelected(p) \/ StopFailedCandidate(p) \/ Restart(p)

Removing(p) ==
  \/ validate_managed_schema(p) \/ RemoveSelector(p) \/ RemoveDirs(p)
  \/ RemoveOwner(p) \/ RemoveLease(p) \/ DropLease(p)
  \/ RemoveRoot(p) \/ RemovedSync(p)

Next ==
  \/ \E p \in Updaters, op \in {"install", "rollback", "remove"} : Begin(p, op)
  \/ \E p \in Updaters : Opening(p) \/ Changing(p) \/ Removing(p)
  \/ \E p \in Updaters : CallFails(p) \/ Kill(p)
  \/ PowerLoss
  \/ UserStarts
  \/ installed_pair_descriptor \/ InspectRecord
  \/ verify_recorded_pair_snapshot \/ AnswerInspection

Spec == Init /\ [][Next]_vars

(***************************************************************************)
(* Properties.                                                             *)
(***************************************************************************)

\* Whatever is interrupted, lost or failing, when both public names run
\* something they run the same pair: "there is no moment where a new CLI names
\* an old daemon".
MatchedPair ==
  Runs("cyclops") # 0 /\ Runs("cyclopsd") # 0 => Runs("cyclops") = Runs("cyclopsd")

\* The selector names a complete record of two complete pairs, so the pair to
\* roll back to is as present as the pair in use, also after power is lost
\* between a rename and its sync; only a begun removal is excused.
SelectionSound == Selected # 0 /\ removal # "now" => require_selection(Selected)

\* Once both public names run and the names and the selector are on disk, no
\* step, kill, failed call or power loss leaves either of them running nothing,
\* except the removal itself.
BothRun == Runs("cyclops") # 0 /\ Runs("cyclopsd") # 0
OnDisk == /\ \A n \in {"cyclops", "cyclopsd"} : "none" \notin ToSet(fs[Cell(n)])
          /\ At("cyclops") = "direct" \/ 0 \notin ToSet(fs[Cell("active")])
NeverStranded == [][BothRun /\ OnDisk => BothRun' \/ removal' = "now"]_vars

\* An updater starts a daemon, or deletes the candidate it staged, only when
\* the selector everyone sees is also the one a power loss would leave.
SelectorDurable == Len(fs[Cell("active")]) = 1
UncertainSelectorHolds ==
  [][\A p \in Updaters :
       /\ proc[p].pc \in {"start", "restart"} /\ daemon' # daemon => SelectorDurable
       /\ /\ proc[p].pc = "rmdir" /\ proc[p].phase # "remove"
          /\ fs'[proc[p].cell] # fs[proc[p].cell]
          => SelectorDurable]_vars

\* What an operation that exits 0 reported stays true until the next one
\* begins, through a power loss: the pair it activated is selected, both names
\* run it, and the pair it replaced is the one to roll back to.
ReportHolds ==
  told.op \in {"install", "rollback"} /\ told.result = "ok" =>
    /\ Selected # 0 /\ require_selection(Selected)
    /\ SelAt(Selected).active = told.active /\ SelAt(Selected).known = told.known
    /\ Executable("cyclops") = told.active /\ Executable("cyclopsd") = told.active

\* While an updater holds the store, from its first recheck to its end, no
\* other updater changes a pair, a record, the selector or a public name.
Tree == <<[c \in {d \in Cells : Dir(d) \in {"pair", "sel"}} |-> Last(fs[c])],
          At("active"), At("cyclops"), At("cyclopsd")>>
Holds(p) == proc[p].locked /\ proc[p].pc \notin OpenPcs /\ require_root(p)
OneUpdater ==
  [][\A p, q \in Updaters :
       p # q /\ Holds(p) /\ proc'[q] # proc[q] /\ proc'[p] = proc[p] => Tree' = Tree]_vars

\* Opening repairs or removes whatever an interrupted install or rollback left:
\* it never refuses the store for what it finds there.  Not covered are every
\* history with a removal in it, and an owner marker created and not yet
\* written, which the opening does refuse (result "torn").
RepairsItself == told.result = "unrepaired" => removal # "never"

\* A health inspection that found a selector, beside a running update, never
\* calls the store broken: what it read while records and pairs were replaced
\* counts only when the selector has not moved.  A removal is excused; a look
\* before the first selector is published answers "invalid" and is not meant.
NoFalseAlarm == reader.answer = "invalid" /\ reader.sel # 0 => removal # "never"

\* An update never finds an owner marker that an interrupted one left empty.
NeverTorn == told.result # "torn"
=============================================================================
