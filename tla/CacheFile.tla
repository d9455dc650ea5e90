------------------------------ MODULE CacheFile ------------------------------
(***************************************************************************)
(* Opening the cache (omaghy-cache, schema.rs and cache.rs; open_cache in  *)
(* main.rs): a file that is missing, empty, half built, of another schema  *)
(* version or damaged becomes a cache of this binary's schema, whoever     *)
(* else is opening it and wherever the program was killed before.          *)
(*                                                                         *)
(* A process holds its file open whatever becomes of the name: a removed   *)
(* file lives on for those who have it.  SQLite makes one statement one    *)
(* step; several statements of one function are several steps, and other   *)
(* processes come between.  The -wal and -shm files follow the database.   *)
(***************************************************************************)
EXTENDS Integers, FiniteSets

CONSTANTS
    Procs,
    Wanted,    \* Wanted[p]: SCHEMA_VERSION of the binary p runs
    Files,     \* identities of files; one is reused when nobody knows it
    MaxDamage, \* bound: times a file is damaged
    Initial,   \* what may be at the path at first: schema versions, or None
    None

VARIABLES
    path,   \* the file at the cache's path, or None
    file,   \* what each file holds
    pc,     \* how far each process is
    conn,   \* the file each process has open, or None
    tries,  \* calls of try_open so far in this start
    damage

vars == <<path, file, pc, conn, tries, damage>>

CacheFileAssumption ==
    /\ Wanted \in [Procs -> Nat \ {0}]
    /\ MaxDamage \in Nat
    /\ Initial \subseteq Nat \cup {None}
    /\ None \notin Files

\* `version` is user_version, `schema` the version whose DDL made the first
\* table, `whole` when the rest of that DDL has run too.
Empty == [version |-> 0, schema |-> None, whole |-> FALSE, bad |-> FALSE]
Built(v) == [Empty EXCEPT !.version = v, !.schema = v, !.whole = TRUE]

Content == [version: Nat, schema: Nat \cup {None}, whole: BOOLEAN, bad: BOOLEAN]

Stages == {"closed", "opening", "checking", "deciding", "inspecting", "confirming",
           "building", "finishing", "stamping", "removing", "reopening", "corrupt",
           "running", "failed"}

TypeOK ==
    /\ path \in Files \cup {None}
    /\ file \in [Files -> Content]
    /\ pc \in [Procs -> Stages]
    /\ conn \in [Procs -> Files \cup {None}]
    /\ tries \in [Procs -> 0 .. 4]
    /\ damage \in 0 .. MaxDamage

Init ==
    /\ \E v \in Initial :
          IF v = None
          THEN /\ path = None
               /\ file = [f \in Files |-> Empty]
          ELSE \E at \in Files :
               /\ path = at
               /\ file = [f \in Files |-> IF f = at THEN Built(v) ELSE Empty]
    /\ pc = [p \in Procs |-> "closed"]
    /\ conn = [p \in Procs |-> None]
    /\ tries = [p \in Procs |-> 0]
    /\ damage = 0

At(p, stage) == pc[p] = stage
Go(p, stage) == pc' = [pc EXCEPT ![p] = stage]

-----------------------------------------------------------------------------
(* try_open, statement by statement.                                        *)

\* Connection::open: what is at the path, or a new and empty file there.
Connect(p) ==
    IF path # None
    THEN conn' = [conn EXCEPT ![p] = path] /\ UNCHANGED <<path, file>>
    ELSE \E f \in Files :
            /\ \A q \in Procs : conn[q] # f
            /\ path' = f
            /\ conn' = [conn EXCEPT ![p] = f]
            /\ file' = [file EXCEPT ![f] = Empty]

Start(p) ==
    /\ At(p, "closed")
    /\ Go(p, "opening")
    /\ UNCHANGED <<path, file, conn, tries, damage>>

TryOpen(p) ==
    /\ At(p, "opening")
    /\ Connect(p)
    /\ tries' = [tries EXCEPT ![p] = @ + 1]
    /\ Go(p, "checking")
    /\ UNCHANGED damage

\* prepare and integrity: a damaged header or a damaged page.
Check(p) ==
    /\ At(p, "checking")
    /\ Go(p, IF file[conn[p]].bad THEN "corrupt" ELSE "deciding")
    /\ UNCHANGED <<path, file, conn, tries, damage>>

\* user_version.  A version of 0 is looked into by a statement of its own.
ReadVersion(p) ==
    /\ At(p, "deciding")
    /\ LET v == file[conn[p]].version IN
       Go(p, IF v = 0 THEN "inspecting"
             ELSE IF v = Wanted[p] THEN "confirming" ELSE "removing")
    /\ UNCHANGED <<path, file, conn, tries, damage>>

\* is_empty: a version of 0 with tables is somebody's unfinished work.
Inspect(p) ==
    /\ At(p, "inspecting")
    /\ Go(p, IF file[conn[p]].schema = None THEN "building" ELSE "removing")
    /\ UNCHANGED <<path, file, conn, tries, damage>>

\* An open_cache that takes the first answer.
EndedAtOnce(p) ==
    /\ Go(p, IF tries[p] = 1 THEN "running" ELSE "failed")
    /\ UNCHANGED conn

\* A try_open that ended well.  schema::open's own second try is only for the
\* next caller, and returns the first one's error; open_cache is that caller,
\* once.
Ended(p) ==
    /\ Go(p, CASE tries[p] \in {1, 3} -> "running"
               [] tries[p] = 2        -> "opening"
               [] OTHER               -> "failed")
    /\ conn' = [conn EXCEPT ![p] = IF tries[p] \in {1, 3} THEN @ ELSE None]

\* A file at the wanted version has the schema run again, which is free.
Confirm(p) ==
    /\ At(p, "confirming")
    /\ file' = [file EXCEPT ![conn[p]].schema = IF @ = None THEN Wanted[p] ELSE @,
                            ![conn[p]].whole = TRUE]
    /\ Ended(p)
    /\ UNCHANGED <<path, tries, damage>>

\* apply, each table IF NOT EXISTS: the first one ...
Build(p) ==
    /\ At(p, "building")
    /\ file' = [file EXCEPT ![conn[p]].schema = IF @ = None THEN Wanted[p] ELSE @]
    /\ Go(p, "finishing")
    /\ UNCHANGED <<path, conn, tries, damage>>

\* ... and the others.
Finish(p) ==
    /\ At(p, "finishing")
    /\ file' = [file EXCEPT ![conn[p]].whole = TRUE]
    /\ Go(p, "stamping")
    /\ UNCHANGED <<path, conn, tries, damage>>

\* set_user_version.
Stamp(p) ==
    /\ At(p, "stamping")
    /\ file' = [file EXCEPT ![conn[p]].version = Wanted[p]]
    /\ Ended(p)
    /\ UNCHANGED <<path, tries, damage>>

\* Of another version: close it, remove what is at the path, whoever's that
\* is by now, and build in what is then found or made there.
Remove(p) ==
    /\ At(p, "removing")
    /\ conn' = [conn EXCEPT ![p] = None]
    /\ path' = None
    /\ Go(p, "reopening")
    /\ UNCHANGED <<file, tries, damage>>

Reopen(p) ==
    /\ At(p, "reopening")
    /\ Connect(p)
    /\ Go(p, "building")
    /\ UNCHANGED <<tries, damage>>

\* A damaged file: schema::open removes it and tries once more; so does the
\* call open_cache repeats it with.  The fourth try is the last.
Corrupt(p) ==
    /\ At(p, "corrupt")
    /\ conn' = [conn EXCEPT ![p] = None]
    /\ IF tries[p] \in {1, 3} THEN path' = None ELSE UNCHANGED path
    /\ Go(p, IF tries[p] = 4 THEN "failed" ELSE "opening")
    /\ UNCHANGED <<file, tries, damage>>

-----------------------------------------------------------------------------
(* What else happens.                                                       *)

\* The program ends, or is killed at any step; a failed one has ended.
End(p) ==
    /\ pc[p] # "closed"
    /\ Go(p, "closed")
    /\ conn' = [conn EXCEPT ![p] = None]
    /\ tries' = [tries EXCEPT ![p] = 0]
    /\ UNCHANGED <<path, file, damage>>

\* A page or the header of the file at the path is scribbled on.
Damage ==
    /\ path # None
    /\ damage < MaxDamage
    /\ damage' = damage + 1
    /\ file' = [file EXCEPT ![path].bad = TRUE]
    /\ UNCHANGED <<path, pc, conn, tries>>

Step(p) ==
    \/ TryOpen(p) \/ Check(p) \/ ReadVersion(p) \/ Inspect(p)
    \/ Confirm(p) \/ Build(p) \/ Finish(p) \/ Stamp(p)
    \/ Remove(p) \/ Reopen(p) \/ Corrupt(p)

Next ==
    \/ \E p \in Procs : Start(p) \/ Step(p) \/ End(p)
    \/ Damage

Spec == Init /\ [][Next]_vars

-----------------------------------------------------------------------------
(* Safety.                                                                  *)

\* A damaged cache is one bad read and not a broken install: whatever was at
\* the path, whoever else is opening it, and wherever an earlier start was
\* killed, a start does not fail, and it ends on a file that has every table
\* of this binary's schema.
OpensAsOwn ==
    \A p \in Procs :
        /\ pc[p] # "failed"
        /\ pc[p] = "running" =>
              /\ file[conn[p]].schema = Wanted[p]
              /\ file[conn[p]].whole
              /\ file[conn[p]].version = Wanted[p]

-----------------------------------------------------------------------------
(* Why: the inductive invariant of programs that run one binary and meet at *)
(* most one damaged page.                                                   *)

OneBinary == \A p, q \in Procs : Wanted[p] = Wanted[q]

\* A file is stamped when it is complete.
Complete(f, p) == file[f].schema = Wanted[p] /\ file[f].whole

StampedIsComplete ==
    \A f \in Files, p \in Procs : file[f].version = Wanted[p] => Complete(f, p)

\* What a process has seen of its file stays true of it, whoever else is at
\* work on it.
StageIsTrue(p) ==
    /\ pc[p] \notin {"closed", "opening", "reopening"} => conn[p] \in Files
    /\ pc[p] = "confirming" => file[conn[p]].version = Wanted[p]
    /\ pc[p] = "building" => file[conn[p]].schema \in {None, Wanted[p]}
    /\ pc[p] = "finishing" => file[conn[p]].schema = Wanted[p]
    /\ pc[p] = "stamping" => Complete(conn[p], p)
    /\ pc[p] = "running" => Complete(conn[p], p) /\ file[conn[p]].version = Wanted[p]
    /\ pc[p] = "reopening" /\ path # None => file[path].schema \in {None, Wanted[p]}

\* Whoever tries again has met the damage, and left it off the path for good.
Retrying(p) == tries[p] >= 2 \/ (tries[p] = 1 /\ pc[p] = "opening")

TriesAreEnough(p) ==
    /\ pc[p] # "failed"
    /\ pc[p] = "closed" => tries[p] = 0
    /\ pc[p] \notin {"closed", "opening"} => tries[p] \in 1 .. 3
    /\ pc[p] = "opening" => tries[p] \in 0 .. 2
    /\ pc[p] = "corrupt" => file[conn[p]].bad
    /\ Retrying(p) =>
          /\ damage = 1
          /\ path # None => ~file[path].bad
          /\ conn[p] # None => ~file[conn[p]].bad

DamageIsCounted == \A f \in Files : file[f].bad => damage = 1

OpeningInv ==
    /\ TypeOK /\ StampedIsComplete /\ DamageIsCounted
    /\ \A p \in Procs : StageIsTrue(p) /\ TriesAreEnough(p)

-----------------------------------------------------------------------------
(* What the code says of itself and does not do.                            *)

\* "WAL, so `omaghy watch` and the TUI can share the file without a protocol":
\* nobody's sound file of the version everyone wants is pulled from under it.
SharedWithoutProtocol ==
    [][ \A p \in Procs :
            pc[p] = "running" /\ conn[p] = path /\ ~file[path].bad => path' = path ]_vars
=============================================================================
