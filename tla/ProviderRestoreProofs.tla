------------------------- MODULE ProviderRestoreProofs -------------------------
(***************************************************************************)
(* What Preflight and Restore guarantee, proved for any tools, origins,    *)
(* missing commands, images, failures and sizes of a dump.                 *)
(*                                                                         *)
(* Most of the argument is about the order of the steps: a command is      *)
(* asked for before it is needed, a directory is cleared before files are  *)
(* put there and a server started on them, a statement is sent only on a   *)
(* connection that was made.  PlanInv says where in its plan a restore can *)
(* be, and every other conjunct of IInv speaks of the step that is Doing.  *)
(***************************************************************************)
EXTENDS ProviderRestore, SequenceTheorems, TLAPS

\* What is left of the plan of a tool once Preflight is done.
DumpRest == {<<"ready", "stage", "apply">>, <<"stage", "apply">>, <<"apply">>}

StartRest == {<<"start", "ready">>, <<"ready">>}

PgBackRestRest ==
  {<<"stop", "stage", "expand", "clear", "fetch", "start", "ready">>,
   <<"stage", "expand", "clear", "fetch", "start", "ready">>,
   <<"expand", "clear", "fetch", "start", "ready">>,
   <<"clear", "fetch", "start", "ready">>,
   <<"fetch", "start", "ready">>} \cup StartRest

WalGRest ==
  {<<"stop", "stage", "expand", "clear", "fetch", "configure", "start", "ready">>,
   <<"stage", "expand", "clear", "fetch", "configure", "start", "ready">>,
   <<"expand", "clear", "fetch", "configure", "start", "ready">>,
   <<"clear", "fetch", "configure", "start", "ready">>,
   <<"fetch", "configure", "start", "ready">>,
   <<"configure", "start", "ready">>} \cup StartRest

XtrabackupRest ==
  {<<"stage", "expand", "prepare", "stop", "clear", "fetch", "start", "ready">>,
   <<"expand", "prepare", "stop", "clear", "fetch", "start", "ready">>,
   <<"prepare", "stop", "clear", "fetch", "start", "ready">>,
   <<"stop", "clear", "fetch", "start", "ready">>,
   <<"clear", "fetch", "start", "ready">>,
   <<"fetch", "start", "ready">>} \cup StartRest

RedisRest ==
  {<<"stage", "place", "start", "ready">>, <<"place", "start", "ready">>} \cup StartRest

SnapshotRest ==
  {<<"stage", "fetch", "start", "ready">>, <<"fetch", "start", "ready">>} \cup StartRest

Rest(t) ==
  CASE t \in Dumps -> DumpRest
    [] t = "pgbackrest" -> PgBackRestRest
    [] t = "wal-g" -> WalGRest
    [] t \in {"xtrabackup", "mariabackup"} -> XtrabackupRest
    [] t \in Redis -> RedisRest
    [] t = "snapshot" -> SnapshotRest

\* The step that follows another in the plan of a tool.
After(t, step) ==
  CASE step = "preflight" -> IF t \in Dumps THEN "ready"
                             ELSE IF t \in Postgres THEN "stop" ELSE "stage"
    [] step = "ready" -> IF t \in Dumps THEN "stage" ELSE "done"
    [] step = "stop" -> IF t \in Postgres THEN "stage" ELSE "clear"
    [] step = "stage" -> IF t \in Dumps THEN "apply"
                         ELSE IF t \in Redis THEN "place"
                         ELSE IF t = "snapshot" THEN "fetch" ELSE "expand"
    [] step = "expand" -> IF t \in Postgres THEN "clear" ELSE "prepare"
    [] step = "prepare" -> "stop"
    [] step = "clear" -> "fetch"
    [] step = "fetch" -> IF t = "wal-g" THEN "configure" ELSE "start"
    [] step \in {"configure", "place"} -> "start"
    [] step = "start" -> "ready"
    [] step = "apply" -> "done"

\* The tools whose plan has a step.
Has(t, step) ==
  CASE step \in {"preflight", "stage", "ready"} -> TRUE
    [] step = "apply" -> t \in Dumps
    [] step \in {"stop", "expand", "clear"} ->
         t \in {"pgbackrest", "wal-g", "xtrabackup", "mariabackup"}
    [] step = "prepare" -> t \in {"xtrabackup", "mariabackup"}
    [] step = "fetch" ->
         t \in {"pgbackrest", "wal-g", "xtrabackup", "mariabackup", "snapshot"}
    [] step = "configure" -> t = "wal-g"
    [] step = "place" -> t \in Redis
    [] step = "start" -> t \notin Dumps
    [] OTHER -> FALSE

\* A rest of a plan is followed by another one, unless it is its last step.
Moves(t, rest) ==
  /\ rest # <<>>
  /\ Has(t, Head(rest))
  /\ IF After(t, Head(rest)) = "done" THEN Len(rest) = 1
     ELSE /\ Len(rest) # 1
          /\ Tail(rest) \in Rest(t)
          /\ Head(Tail(rest)) = After(t, Head(rest))

-----------------------------------------------------------------------------
(* The inductive invariant                                                 *)

PlanInv ==
  outcome = "pending" => todo \in Rest(tool) \cup {<<"preflight">> \o Plan(tool)}

\* What Preflight found stays true: the image does not change.
CheckedInv ==
  outcome = "pending" => Doing("preflight") \/ lacks \notin Checked(backup)

\* A dump is applied on one connection, the last: before it nothing was.
DumpInv ==
  /\ outcome = "pending" =>
       IF Doing("apply") /\ phase = "load" THEN applied = sent ELSE applied = 0
  /\ applied <= Parts
  /\ outcome = "restored" /\ tool \in Dumps /\ ~Unprotected => applied = Parts

\* A physical restore that the code protects.
Protected == tool \notin Dumps /\ ~Unprotected

\* The steps before the server is started on the restored files.
BeforeStart ==
  \/ \E s \in {"preflight", "stop", "stage", "expand", "prepare", "clear", "fetch",
               "configure", "place"} : Doing(s)
  \/ Doing("start") /\ phase # "wait"

Started == (Doing("start") /\ phase = "wait") \/ Doing("ready")

\* Until then no server runs, except one of the image that was never stopped,
\* and that one keeps PostgreSQL's new server from starting.
ServerInv ==
  Protected =>
    /\ BeforeStart => server = "down" \/ (server = "serving" /\ backup.serving)
    /\ Started => server \in {"loading", "serving", "dead"}

\* The files under a server that is down.
FilesInv ==
  Protected /\ server = "down" =>
    /\ (\E s \in {"preflight", "stop", "stage", "expand", "prepare", "clear"} : Doing(s))
         => files = "none" \/ backup.serving
    /\ Doing("fetch") \/ Doing("place") => files = "none"
    /\ Doing("configure") \/ Doing("start") => files = "backup"

ServedInv ==
  Protected /\ (Started \/ outcome = "restored") => files = "backup" /\ served = "backup"

\* A backup that is cut does not get past its unpacking.
Unpacked ==
  \/ \E s \in {"prepare", "clear", "fetch", "configure", "place", "start", "ready"} : Doing(s)
  \/ Doing("stop") /\ tool \in MySQL

WholeInv == Protected /\ Unpacked => ~backup.cut

RestoredInv == Protected /\ outcome = "restored" => server = "serving"

\* Of a physical restore that the code protects.
PhysicalInv == ServerInv /\ FilesInv /\ ServedInv /\ WholeInv /\ RestoredInv

IInv ==
  /\ TypeOK
  /\ PlanInv
  /\ CheckedInv
  /\ MissingCommandStopsPreflight
  /\ DumpInv
  /\ PhysicalInv

-----------------------------------------------------------------------------
(* The plans                                                               *)

LEMMA DumpMoves == ASSUME NEW t \in Dumps, NEW rest \in DumpRest PROVE Moves(t, rest)
<1>1. Rest(t) = DumpRest
  BY DEF Rest, Dumps, Redis
<1>2. CASE rest = <<"ready", "stage", "apply">>
  <2>1. /\ Head(rest) = "ready" /\ Len(rest) # 1 /\ rest # <<>>
        /\ Tail(rest) = <<"stage", "apply">>
        /\ Head(Tail(rest)) = "stage"
    BY <1>2
  <2>2. Tail(rest) \in Rest(t)
    BY <1>1, <2>1 DEF DumpRest
  <2> QED
    BY <2>1, <2>2 DEF Moves, Has, After, Dumps, Postgres, Redis
<1>3. CASE rest = <<"stage", "apply">>
  <2>1. /\ Head(rest) = "stage" /\ Len(rest) # 1 /\ rest # <<>>
        /\ Tail(rest) = <<"apply">>
        /\ Head(Tail(rest)) = "apply"
    BY <1>3
  <2>2. Tail(rest) \in Rest(t)
    BY <1>1, <2>1 DEF DumpRest
  <2> QED
    BY <2>1, <2>2 DEF Moves, Has, After, Dumps, Postgres, Redis
<1>4. CASE rest = <<"apply">>
  BY <1>4 DEF Moves, Has, After, Dumps, Redis
<1> QED
  BY <1>2, <1>3, <1>4 DEF DumpRest

LEMMA PgBackRestMoves == ASSUME NEW t, t = "pgbackrest", NEW rest \in PgBackRestRest PROVE Moves(t, rest)
<1>1. Rest(t) = PgBackRestRest
  BY DEF Rest, Dumps, Redis
<1>2. CASE rest = <<"stop", "stage", "expand", "clear", "fetch", "start", "ready">>
  <2>1. /\ Head(rest) = "stop" /\ Len(rest) # 1 /\ rest # <<>>
        /\ Tail(rest) = <<"stage", "expand", "clear", "fetch", "start", "ready">>
        /\ Head(Tail(rest)) = "stage"
    BY <1>2
  <2>2. Tail(rest) \in Rest(t)
    BY <1>1, <2>1 DEF PgBackRestRest, StartRest
  <2> QED
    BY <2>1, <2>2 DEF Moves, Has, After, Dumps, Postgres, Redis
<1>3. CASE rest = <<"stage", "expand", "clear", "fetch", "start", "ready">>
  <2>1. /\ Head(rest) = "stage" /\ Len(rest) # 1 /\ rest # <<>>
        /\ Tail(rest) = <<"expand", "clear", "fetch", "start", "ready">>
        /\ Head(Tail(rest)) = "expand"
    BY <1>3
  <2>2. Tail(rest) \in Rest(t)
    BY <1>1, <2>1 DEF PgBackRestRest, StartRest
  <2> QED
    BY <2>1, <2>2 DEF Moves, Has, After, Dumps, Postgres, Redis
<1>4. CASE rest = <<"expand", "clear", "fetch", "start", "ready">>
  <2>1. /\ Head(rest) = "expand" /\ Len(rest) # 1 /\ rest # <<>>
        /\ Tail(rest) = <<"clear", "fetch", "start", "ready">>
        /\ Head(Tail(rest)) = "clear"
    BY <1>4
  <2>2. Tail(rest) \in Rest(t)
    BY <1>1, <2>1 DEF PgBackRestRest, StartRest
  <2> QED
    BY <2>1, <2>2 DEF Moves, Has, After, Dumps, Postgres, Redis
<1>5. CASE rest = <<"clear", "fetch", "start", "ready">>
  <2>1. /\ Head(rest) = "clear" /\ Len(rest) # 1 /\ rest # <<>>
        /\ Tail(rest) = <<"fetch", "start", "ready">>
        /\ Head(Tail(rest)) = "fetch"
    BY <1>5
  <2>2. Tail(rest) \in Rest(t)
    BY <1>1, <2>1 DEF PgBackRestRest, StartRest
  <2> QED
    BY <2>1, <2>2 DEF Moves, Has, After, Dumps, Postgres, Redis
<1>6. CASE rest = <<"fetch", "start", "ready">>
  <2>1. /\ Head(rest) = "fetch" /\ Len(rest) # 1 /\ rest # <<>>
        /\ Tail(rest) = <<"start", "ready">>
        /\ Head(Tail(rest)) = "start"
    BY <1>6
  <2>2. Tail(rest) \in Rest(t)
    BY <1>1, <2>1 DEF PgBackRestRest, StartRest
  <2> QED
    BY <2>1, <2>2 DEF Moves, Has, After, Dumps, Postgres, Redis
<1>7. CASE rest = <<"start", "ready">>
  <2>1. /\ Head(rest) = "start" /\ Len(rest) # 1 /\ rest # <<>>
        /\ Tail(rest) = <<"ready">>
        /\ Head(Tail(rest)) = "ready"
    BY <1>7
  <2>2. Tail(rest) \in Rest(t)
    BY <1>1, <2>1 DEF PgBackRestRest, StartRest
  <2> QED
    BY <2>1, <2>2 DEF Moves, Has, After, Dumps, Postgres, Redis
<1>8. CASE rest = <<"ready">>
  BY <1>8 DEF Moves, Has, After, Dumps, Redis
<1> QED
  BY <1>2, <1>3, <1>4, <1>5, <1>6, <1>7, <1>8 DEF PgBackRestRest, StartRest

LEMMA WalGMoves == ASSUME NEW t, t = "wal-g", NEW rest \in WalGRest PROVE Moves(t, rest)
<1>1. Rest(t) = WalGRest
  BY DEF Rest, Dumps, Redis
<1>2. CASE rest = <<"stop", "stage", "expand", "clear", "fetch", "configure", "start", "ready">>
  <2>1. /\ Head(rest) = "stop" /\ Len(rest) # 1 /\ rest # <<>>
        /\ Tail(rest) = <<"stage", "expand", "clear", "fetch", "configure", "start", "ready">>
        /\ Head(Tail(rest)) = "stage"
    BY <1>2
  <2>2. Tail(rest) \in Rest(t)
    BY <1>1, <2>1 DEF WalGRest, StartRest
  <2> QED
    BY <2>1, <2>2 DEF Moves, Has, After, Dumps, Postgres, Redis
<1>3. CASE rest = <<"stage", "expand", "clear", "fetch", "configure", "start", "ready">>
  <2>1. /\ Head(rest) = "stage" /\ Len(rest) # 1 /\ rest # <<>>
        /\ Tail(rest) = <<"expand", "clear", "fetch", "configure", "start", "ready">>
        /\ Head(Tail(rest)) = "expand"
    BY <1>3
  <2>2. Tail(rest) \in Rest(t)
    BY <1>1, <2>1 DEF WalGRest, StartRest
  <2> QED
    BY <2>1, <2>2 DEF Moves, Has, After, Dumps, Postgres, Redis
<1>4. CASE rest = <<"expand", "clear", "fetch", "configure", "start", "ready">>
  <2>1. /\ Head(rest) = "expand" /\ Len(rest) # 1 /\ rest # <<>>
        /\ Tail(rest) = <<"clear", "fetch", "configure", "start", "ready">>
        /\ Head(Tail(rest)) = "clear"
    BY <1>4
  <2>2. Tail(rest) \in Rest(t)
    BY <1>1, <2>1 DEF WalGRest, StartRest
  <2> QED
    BY <2>1, <2>2 DEF Moves, Has, After, Dumps, Postgres, Redis
<1>5. CASE rest = <<"clear", "fetch", "configure", "start", "ready">>
  <2>1. /\ Head(rest) = "clear" /\ Len(rest) # 1 /\ rest # <<>>
        /\ Tail(rest) = <<"fetch", "configure", "start", "ready">>
        /\ Head(Tail(rest)) = "fetch"
    BY <1>5
  <2>2. Tail(rest) \in Rest(t)
    BY <1>1, <2>1 DEF WalGRest, StartRest
  <2> QED
    BY <2>1, <2>2 DEF Moves, Has, After, Dumps, Postgres, Redis
<1>6. CASE rest = <<"fetch", "configure", "start", "ready">>
  <2>1. /\ Head(rest) = "fetch" /\ Len(rest) # 1 /\ rest # <<>>
        /\ Tail(rest) = <<"configure", "start", "ready">>
        /\ Head(Tail(rest)) = "configure"
    BY <1>6
  <2>2. Tail(rest) \in Rest(t)
    BY <1>1, <2>1 DEF WalGRest, StartRest
  <2> QED
    BY <2>1, <2>2 DEF Moves, Has, After, Dumps, Postgres, Redis
<1>7. CASE rest = <<"configure", "start", "ready">>
  <2>1. /\ Head(rest) = "configure" /\ Len(rest) # 1 /\ rest # <<>>
        /\ Tail(rest) = <<"start", "ready">>
        /\ Head(Tail(rest)) = "start"
    BY <1>7
  <2>2. Tail(rest) \in Rest(t)
    BY <1>1, <2>1 DEF WalGRest, StartRest
  <2> QED
    BY <2>1, <2>2 DEF Moves, Has, After, Dumps, Postgres, Redis
<1>8. CASE rest = <<"start", "ready">>
  <2>1. /\ Head(rest) = "start" /\ Len(rest) # 1 /\ rest # <<>>
        /\ Tail(rest) = <<"ready">>
        /\ Head(Tail(rest)) = "ready"
    BY <1>8
  <2>2. Tail(rest) \in Rest(t)
    BY <1>1, <2>1 DEF WalGRest, StartRest
  <2> QED
    BY <2>1, <2>2 DEF Moves, Has, After, Dumps, Postgres, Redis
<1>9. CASE rest = <<"ready">>
  BY <1>9 DEF Moves, Has, After, Dumps, Redis
<1> QED
  BY <1>2, <1>3, <1>4, <1>5, <1>6, <1>7, <1>8, <1>9 DEF WalGRest, StartRest

LEMMA XtrabackupMoves == ASSUME NEW t \in {"xtrabackup", "mariabackup"}, NEW rest \in XtrabackupRest PROVE Moves(t, rest)
<1>1. Rest(t) = XtrabackupRest
  BY DEF Rest, Dumps, Redis
<1>2. CASE rest = <<"stage", "expand", "prepare", "stop", "clear", "fetch", "start", "ready">>
  <2>1. /\ Head(rest) = "stage" /\ Len(rest) # 1 /\ rest # <<>>
        /\ Tail(rest) = <<"expand", "prepare", "stop", "clear", "fetch", "start", "ready">>
        /\ Head(Tail(rest)) = "expand"
    BY <1>2
  <2>2. Tail(rest) \in Rest(t)
    BY <1>1, <2>1 DEF XtrabackupRest, StartRest
  <2> QED
    BY <2>1, <2>2 DEF Moves, Has, After, Dumps, Postgres, Redis
<1>3. CASE rest = <<"expand", "prepare", "stop", "clear", "fetch", "start", "ready">>
  <2>1. /\ Head(rest) = "expand" /\ Len(rest) # 1 /\ rest # <<>>
        /\ Tail(rest) = <<"prepare", "stop", "clear", "fetch", "start", "ready">>
        /\ Head(Tail(rest)) = "prepare"
    BY <1>3
  <2>2. Tail(rest) \in Rest(t)
    BY <1>1, <2>1 DEF XtrabackupRest, StartRest
  <2> QED
    BY <2>1, <2>2 DEF Moves, Has, After, Dumps, Postgres, Redis
<1>4. CASE rest = <<"prepare", "stop", "clear", "fetch", "start", "ready">>
  <2>1. /\ Head(rest) = "prepare" /\ Len(rest) # 1 /\ rest # <<>>
        /\ Tail(rest) = <<"stop", "clear", "fetch", "start", "ready">>
        /\ Head(Tail(rest)) = "stop"
    BY <1>4
  <2>2. Tail(rest) \in Rest(t)
    BY <1>1, <2>1 DEF XtrabackupRest, StartRest
  <2> QED
    BY <2>1, <2>2 DEF Moves, Has, After, Dumps, Postgres, Redis
<1>5. CASE rest = <<"stop", "clear", "fetch", "start", "ready">>
  <2>1. /\ Head(rest) = "stop" /\ Len(rest) # 1 /\ rest # <<>>
        /\ Tail(rest) = <<"clear", "fetch", "start", "ready">>
        /\ Head(Tail(rest)) = "clear"
    BY <1>5
  <2>2. Tail(rest) \in Rest(t)
    BY <1>1, <2>1 DEF XtrabackupRest, StartRest
  <2> QED
    BY <2>1, <2>2 DEF Moves, Has, After, Dumps, Postgres, Redis
<1>6. CASE rest = <<"clear", "fetch", "start", "ready">>
  <2>1. /\ Head(rest) = "clear" /\ Len(rest) # 1 /\ rest # <<>>
        /\ Tail(rest) = <<"fetch", "start", "ready">>
        /\ Head(Tail(rest)) = "fetch"
    BY <1>6
  <2>2. Tail(rest) \in Rest(t)
    BY <1>1, <2>1 DEF XtrabackupRest, StartRest
  <2> QED
    BY <2>1, <2>2 DEF Moves, Has, After, Dumps, Postgres, Redis
<1>7. CASE rest = <<"fetch", "start", "ready">>
  <2>1. /\ Head(rest) = "fetch" /\ Len(rest) # 1 /\ rest # <<>>
        /\ Tail(rest) = <<"start", "ready">>
        /\ Head(Tail(rest)) = "start"
    BY <1>7
  <2>2. Tail(rest) \in Rest(t)
    BY <1>1, <2>1 DEF XtrabackupRest, StartRest
  <2> QED
    BY <2>1, <2>2 DEF Moves, Has, After, Dumps, Postgres, Redis
<1>8. CASE rest = <<"start", "ready">>
  <2>1. /\ Head(rest) = "start" /\ Len(rest) # 1 /\ rest # <<>>
        /\ Tail(rest) = <<"ready">>
        /\ Head(Tail(rest)) = "ready"
    BY <1>8
  <2>2. Tail(rest) \in Rest(t)
    BY <1>1, <2>1 DEF XtrabackupRest, StartRest
  <2> QED
    BY <2>1, <2>2 DEF Moves, Has, After, Dumps, Postgres, Redis
<1>9. CASE rest = <<"ready">>
  BY <1>9 DEF Moves, Has, After, Dumps, Redis
<1> QED
  BY <1>2, <1>3, <1>4, <1>5, <1>6, <1>7, <1>8, <1>9 DEF XtrabackupRest, StartRest

LEMMA RedisMoves == ASSUME NEW t \in Redis, NEW rest \in RedisRest PROVE Moves(t, rest)
<1>1. Rest(t) = RedisRest
  BY DEF Rest, Dumps, Redis
<1>2. CASE rest = <<"stage", "place", "start", "ready">>
  <2>1. /\ Head(rest) = "stage" /\ Len(rest) # 1 /\ rest # <<>>
        /\ Tail(rest) = <<"place", "start", "ready">>
        /\ Head(Tail(rest)) = "place"
    BY <1>2
  <2>2. Tail(rest) \in Rest(t)
    BY <1>1, <2>1 DEF RedisRest, StartRest
  <2> QED
    BY <2>1, <2>2 DEF Moves, Has, After, Dumps, Postgres, Redis
<1>3. CASE rest = <<"place", "start", "ready">>
  <2>1. /\ Head(rest) = "place" /\ Len(rest) # 1 /\ rest # <<>>
        /\ Tail(rest) = <<"start", "ready">>
        /\ Head(Tail(rest)) = "start"
    BY <1>3
  <2>2. Tail(rest) \in Rest(t)
    BY <1>1, <2>1 DEF RedisRest, StartRest
  <2> QED
    BY <2>1, <2>2 DEF Moves, Has, After, Dumps, Postgres, Redis
<1>4. CASE rest = <<"start", "ready">>
  <2>1. /\ Head(rest) = "start" /\ Len(rest) # 1 /\ rest # <<>>
        /\ Tail(rest) = <<"ready">>
        /\ Head(Tail(rest)) = "ready"
    BY <1>4
  <2>2. Tail(rest) \in Rest(t)
    BY <1>1, <2>1 DEF RedisRest, StartRest
  <2> QED
    BY <2>1, <2>2 DEF Moves, Has, After, Dumps, Postgres, Redis
<1>5. CASE rest = <<"ready">>
  BY <1>5 DEF Moves, Has, After, Dumps, Redis
<1> QED
  BY <1>2, <1>3, <1>4, <1>5 DEF RedisRest, StartRest

LEMMA SnapshotMoves == ASSUME NEW t, t = "snapshot", NEW rest \in SnapshotRest PROVE Moves(t, rest)
<1>1. Rest(t) = SnapshotRest
  BY DEF Rest, Dumps, Redis
<1>2. CASE rest = <<"stage", "fetch", "start", "ready">>
  <2>1. /\ Head(rest) = "stage" /\ Len(rest) # 1 /\ rest # <<>>
        /\ Tail(rest) = <<"fetch", "start", "ready">>
        /\ Head(Tail(rest)) = "fetch"
    BY <1>2
  <2>2. Tail(rest) \in Rest(t)
    BY <1>1, <2>1 DEF SnapshotRest, StartRest
  <2> QED
    BY <2>1, <2>2 DEF Moves, Has, After, Dumps, Postgres, Redis
<1>3. CASE rest = <<"fetch", "start", "ready">>
  <2>1. /\ Head(rest) = "fetch" /\ Len(rest) # 1 /\ rest # <<>>
        /\ Tail(rest) = <<"start", "ready">>
        /\ Head(Tail(rest)) = "start"
    BY <1>3
  <2>2. Tail(rest) \in Rest(t)
    BY <1>1, <2>1 DEF SnapshotRest, StartRest
  <2> QED
    BY <2>1, <2>2 DEF Moves, Has, After, Dumps, Postgres, Redis
<1>4. CASE rest = <<"start", "ready">>
  <2>1. /\ Head(rest) = "start" /\ Len(rest) # 1 /\ rest # <<>>
        /\ Tail(rest) = <<"ready">>
        /\ Head(Tail(rest)) = "ready"
    BY <1>4
  <2>2. Tail(rest) \in Rest(t)
    BY <1>1, <2>1 DEF SnapshotRest, StartRest
  <2> QED
    BY <2>1, <2>2 DEF Moves, Has, After, Dumps, Postgres, Redis
<1>5. CASE rest = <<"ready">>
  BY <1>5 DEF Moves, Has, After, Dumps, Redis
<1> QED
  BY <1>2, <1>3, <1>4, <1>5 DEF SnapshotRest, StartRest

Step == {"preflight", "ready", "stop", "stage", "apply", "expand", "prepare", "clear",
         "fetch", "configure", "place", "start"}

\* Preflight comes before every plan.
LEMMA PlanIsARest ==
  ASSUME NEW t \in AllTools
  PROVE  /\ Plan(t) \in Rest(t)
         /\ Plan(t) \in Seq(Step) /\ Plan(t) # <<>>
         /\ Head(Plan(t)) = After(t, "preflight")
<1>1. CASE t \in Dumps
  <2>1. Plan(t) = <<"ready", "stage", "apply">>
    BY <1>1 DEF Plan, DumpPlan, MysqldumpPlan, Dumps, Redis
  <2>2. Rest(t) = DumpRest
    BY <1>1 DEF Rest, Dumps, Redis
  <2>3. After(t, "preflight") = "ready"
    BY <1>1 DEF After, Dumps, Postgres, Redis
  <2> QED
    BY <2>1, <2>2, <2>3 DEF Step, DumpRest
<1>2. CASE t = "pgbackrest"
  <2>1. Plan(t) = <<"stop", "stage", "expand", "clear", "fetch", "start", "ready">>
    BY <1>2 DEF Plan, PgBackRestPlan, Dumps, Redis
  <2>2. Rest(t) = PgBackRestRest
    BY <1>2 DEF Rest, Dumps, Redis
  <2>3. After(t, "preflight") = "stop"
    BY <1>2 DEF After, Dumps, Postgres, Redis
  <2> QED
    BY <2>1, <2>2, <2>3 DEF Step, PgBackRestRest
<1>3. CASE t = "wal-g"
  <2>1. Plan(t) = <<"stop", "stage", "expand", "clear", "fetch", "configure", "start", "ready">>
    BY <1>3 DEF Plan, WalGPlan, Dumps, Redis
  <2>2. Rest(t) = WalGRest
    BY <1>3 DEF Rest, Dumps, Redis
  <2>3. After(t, "preflight") = "stop"
    BY <1>3 DEF After, Dumps, Postgres, Redis
  <2> QED
    BY <2>1, <2>2, <2>3 DEF Step, WalGRest
<1>4. CASE t \in {"xtrabackup", "mariabackup"}
  <2>1. Plan(t) = <<"stage", "expand", "prepare", "stop", "clear", "fetch", "start", "ready">>
    BY <1>4 DEF Plan, XtrabackupPlan, MariabackupPlan, Dumps, Redis
  <2>2. Rest(t) = XtrabackupRest
    BY <1>4 DEF Rest, Dumps, Redis
  <2>3. After(t, "preflight") = "stage"
    BY <1>4 DEF After, Dumps, Postgres, Redis
  <2> QED
    BY <2>1, <2>2, <2>3 DEF Step, XtrabackupRest
<1>5. CASE t \in Redis
  <2>1. Plan(t) = <<"stage", "place", "start", "ready">>
    BY <1>5 DEF Plan, RdbPlan, AofPlan, Dumps, Redis
  <2>2. Rest(t) = RedisRest
    BY <1>5 DEF Rest, Dumps, Redis
  <2>3. After(t, "preflight") = "stage"
    BY <1>5 DEF After, Dumps, Postgres, Redis
  <2> QED
    BY <2>1, <2>2, <2>3 DEF Step, RedisRest
<1>6. CASE t = "snapshot"
  <2>1. Plan(t) = <<"stage", "fetch", "start", "ready">>
    BY <1>6 DEF Plan, SnapshotPlan, Dumps, Redis
  <2>2. Rest(t) = SnapshotRest
    BY <1>6 DEF Rest, Dumps, Redis
  <2>3. After(t, "preflight") = "stage"
    BY <1>6 DEF After, Dumps, Postgres, Redis
  <2> QED
    BY <2>1, <2>2, <2>3 DEF Step, SnapshotRest
<1> QED
  BY <1>1, <1>2, <1>3, <1>4, <1>5, <1>6 DEF AllTools, Dumps, Postgres, MySQL, Redis

LEMMA Prepended ==
  ASSUME NEW S, NEW s \in Seq(S), s # <<>>, NEW e \in S
  PROVE  /\ Head(<<e>> \o s) = e
         /\ Tail(<<e>> \o s) = s
         /\ Len(<<e>> \o s) # 1
         /\ <<e>> \o s # <<>>
<1> DEFINE es == <<e>> \o s
<1>a. <<e>> \in Seq(S) /\ Len(<<e>>) = 1 /\ <<e>>[1] = e
  OBVIOUS
<1>b. Len(s) \in Nat \ {0}
  BY EmptySeq
<1>1. es \in Seq(S) /\ Len(es) = Len(s) + 1
  BY <1>a, <1>b, ConcatProperties
<1>2. \A i \in 1..Len(s) + 1 : es[i] = IF i <= 1 THEN e ELSE s[i - 1]
  BY <1>a, <1>b, ConcatProperties
<1>3. es # <<>> /\ Head(es) = e /\ Len(es) # 1
  BY <1>b, <1>1, <1>2
<1>4. /\ Tail(es) \in Seq(S) /\ Len(Tail(es)) = Len(s)
      /\ \A i \in 1..Len(s) : Tail(es)[i] = s[i]
  <2>1. /\ Tail(es) \in Seq(S) /\ Len(Tail(es)) = Len(es) - 1
        /\ \A i \in 1..Len(Tail(es)) : Tail(es)[i] = es[i + 1]
    BY <1>1, <1>3, HeadTailProperties
  <2> QED
    BY <2>1, <1>b, <1>1, <1>2
<1>5. Tail(es) = s
  BY <1>4, SeqEqual
<1> QED
  BY <1>3, <1>5

LEMMA RestMoves ==
  ASSUME NEW t \in AllTools, NEW rest \in Rest(t) \cup {<<"preflight">> \o Plan(t)}
  PROVE  Moves(t, rest)
<1>1. CASE rest \in Rest(t)
  <2>1. \/ t \in Dumps /\ rest \in DumpRest
        \/ t = "pgbackrest" /\ rest \in PgBackRestRest
        \/ t = "wal-g" /\ rest \in WalGRest
        \/ t \in {"xtrabackup", "mariabackup"} /\ rest \in XtrabackupRest
        \/ t \in Redis /\ rest \in RedisRest
        \/ t = "snapshot" /\ rest \in SnapshotRest
    BY <1>1 DEF Rest, AllTools, Postgres, MySQL, Redis, Dumps
  <2> QED
    BY <2>1, DumpMoves, PgBackRestMoves, WalGMoves, XtrabackupMoves, RedisMoves,
       SnapshotMoves
<1>2. CASE rest = <<"preflight">> \o Plan(t)
  <2>1. Head(rest) = "preflight" /\ Tail(rest) = Plan(t) /\ Len(rest) # 1 /\ rest # <<>>
    BY <1>2, PlanIsARest, Prepended DEF Step
  <2>2. After(t, "preflight") # "done" /\ Has(t, "preflight")
    BY DEF After, Has
  <2> QED
    BY <2>1, <2>2, PlanIsARest DEF Moves
<1> QED
  BY <1>1, <1>2

-----------------------------------------------------------------------------
(* Where a restore is                                                      *)

LEMMA BackupFacts ==
  ASSUME backup \in Backups
  PROVE  /\ tool \in AllTools
         /\ backup.form \in Forms(tool)
         /\ backup.cut \in BOOLEAN /\ backup.standby \in BOOLEAN /\ backup.serving \in BOOLEAN
         /\ backup.cut => backup.form \in {"gz", "tar", "xbstream.gz"}
         /\ backup.serving => tool \notin Dumps
  BY RestoreAssumption DEF Backups, tool

\* A step that is done has its place in the plan.
LEMMA DoingMoves ==
  ASSUME backup \in Backups, PlanInv, NEW step, Doing(step)
  PROVE  /\ Moves(tool, todo) /\ Head(todo) = step /\ Has(tool, step) /\ todo # <<>>
         /\ outcome = "pending"
<1>1. todo \in Rest(tool) \cup {<<"preflight">> \o Plan(tool)} /\ tool \in AllTools
  BY BackupFacts DEF PlanInv, Doing
<1>2. Moves(tool, todo)
  BY <1>1, RestMoves
<1> QED
  BY <1>2 DEF Moves, Doing

\* A step that succeeds is followed by the next one of the plan.
LEMMA Advancing ==
  ASSUME backup \in Backups, PlanInv, NEW step, Doing(step), Advance, backup' = backup
  PROVE  /\ Has(tool, step)
         /\ IF After(tool, step) = "done" THEN outcome' = "restored"
            ELSE outcome' = "pending" /\ Head(todo') = After(tool, step)
         /\ phase' = "enter"
         /\ PlanInv'
<1>1. Moves(tool, todo) /\ Head(todo) = step /\ Has(tool, step)
  BY DoingMoves
<1>2. CASE After(tool, step) = "done"
  BY <1>1, <1>2 DEF Moves, Advance, PlanInv
<1>3. CASE After(tool, step) # "done"
  <2>1. /\ outcome' = "pending" /\ todo' \in Rest(tool) /\ Head(todo') = After(tool, step)
        /\ phase' = "enter"
    BY <1>1, <1>3 DEF Moves, Advance
  <2>2. tool' = tool
    BY DEF tool
  <2> QED
    BY <1>1, <1>3, <2>1, <2>2 DEF PlanInv
<1> QED
  BY <1>2, <1>3

-----------------------------------------------------------------------------
(* What a step of the restore may do to its place in the plan              *)

\* It ends a step as it should, and Preflight only if nothing is missing...
Moved == \E s \in Step : /\ Doing(s)
                         /\ Advance
                         /\ s = "preflight" => lacks \notin Checked(backup)

\* ... or stays where it is, goes on waiting or fails.
Failures == Outcomes \ {"pending", "restored", "no command"}

Stayed ==
  /\ todo' = todo
  /\ \/ outcome' = outcome
     \/ outcome = "pending" /\ outcome' \in Failures
     \/ CommandMissing

LEMMA PlaceInPlan == [Next]_vars => (Moved \/ Stayed) /\ UNCHANGED <<backup, lacks>>
<1> SUFFICES ASSUME [Next]_vars PROVE (Moved \/ Stayed) /\ UNCHANGED <<backup, lacks>>
  OBVIOUS
<1> USE DEF Moved, Stayed, Step, Runs, Doing, Fail, GoTo, Failures, Outcomes
<1>1. CASE Preflight
  BY <1>1 DEF Preflight
<1>2. CASE CommandMissing
  BY <1>2 DEF CommandMissing
<1>3. CASE PollReady \/ GiveUpWaiting \/ Stage \/ Expand
  BY <1>3 DEF PollReady, GiveUpWaiting, Stage, Expand
<1>4. CASE BeginApply
  BY <1>4 DEF BeginApply
<1>5. CASE Connect \/ StatementFails \/ ConnectionLost
  BY <1>5 DEF Connect, StatementFails, ConnectionLost, AttemptFails, Loading
<1>6. CASE LoadStatement \/ LoadEnds
  BY <1>6 DEF LoadStatement, LoadEnds, Loading
<1>7. CASE Prepare \/ StopPostgres \/ StopMySQL \/ WaitStopped
  BY <1>7 DEF Prepare, StopPostgres, StopMySQL, WaitStopped
<1>8. CASE Clear \/ Fetch \/ Configure \/ Place
  BY <1>8 DEF Clear, Fetch, Configure, Place
<1>9. CASE Start \/ PgCtlReturns
  BY <1>9 DEF Start, PgCtlReturns
<1>10. CASE \E d \in {"wait", "retry", "drill"} : DeadlinePasses(d)
  BY <1>10 DEF DeadlinePasses
<1>11. CASE ServerMoves
  BY <1>11 DEF ServerMoves
<1>12. CASE UNCHANGED vars
  BY <1>12 DEF vars
<1> QED
  BY <1>1, <1>2, <1>3, <1>4, <1>5, <1>6, <1>7, <1>8, <1>9, <1>10, <1>11, <1>12
     DEF Next, Restore

LEMMA PlanStep == backup \in Backups /\ PlanInv /\ [Next]_vars => PlanInv'
<1> SUFFICES ASSUME backup \in Backups, PlanInv, [Next]_vars PROVE PlanInv'
  OBVIOUS
<1>1. CASE Moved
  BY <1>1, PlaceInPlan, Advancing DEF Moved
<1>2. CASE Stayed
  <2>1. UNCHANGED <<tool, todo>> /\ (outcome' = "pending" => outcome = "pending")
    BY <1>2, PlaceInPlan DEF Stayed, Failures, CommandMissing, Fail, tool
  <2> QED
    BY <2>1 DEF PlanInv
<1> QED
  BY <1>1, <1>2, PlaceInPlan

LEMMA CheckedStep ==
  backup \in Backups /\ PlanInv /\ CheckedInv /\ [Next]_vars => CheckedInv'
<1> SUFFICES ASSUME backup \in Backups, PlanInv, CheckedInv, [Next]_vars PROVE CheckedInv'
  OBVIOUS
<1>1. UNCHANGED <<backup, lacks>> /\ Checked(backup)' = Checked(backup)
  BY PlaceInPlan DEF Checked, PostgresChecked, MySQLChecked, RedisChecked, EtcdChecked,
     CheckedForm, Unpackers
<1>2. CASE Moved
  <2>1. lacks \notin Checked(backup)
    BY <1>2 DEF Moved, CheckedInv, Doing
  <2> QED
    BY <1>1, <2>1 DEF CheckedInv
<1>3. CASE Stayed
  <2>1. UNCHANGED todo /\ (outcome' = "pending" => outcome = "pending")
    BY <1>3 DEF Stayed, Failures, CommandMissing, Fail
  <2> QED
    BY <1>1, <2>1 DEF CheckedInv, Doing
<1> QED
  BY <1>2, <1>3, PlaceInPlan

-----------------------------------------------------------------------------
(* Missing commands                                                        *)

\* What a step runs was asked for by Preflight, except for the tar of the
\* staging and what unpacks an object that is chosen later.
LEMMA NeedsAreChecked ==
  ASSUME backup \in Backups, NEW step, Has(tool, step), NEW c \in Needs(step)
  PROVE  c \in Checked(backup) \/ c = "tar" \/ backup.origin = "prefix"
<1>1. tool \in AllTools /\ backup.form \in Forms(tool)
  BY BackupFacts
<1>2. backup.origin # "prefix" => CheckedForm(backup) = Unpackers(backup.form)
  BY DEF CheckedForm
<1>3. tool \in Redis \cup {"snapshot"} => Unpackers(backup.form) = {}
  BY <1>1 DEF Forms, Unpackers, Redis
<1>4. step = "stage" => c = "tar"
  BY DEF Needs
<1>5. step \in {"expand", "apply"} =>
        \/ c \in Unpackers(backup.form)
        \/ /\ step = "apply" /\ tool \in Dumps
           /\ c = IF tool = "pg_dump" THEN "psql"
                  ELSE IF tool = "mysqldump" THEN "mysql" ELSE "pg_restore"
  BY DEF Needs, Has
<1>6. step \in {"ready", "stop"} => c = Ping(tool)
  BY DEF Needs
<1>7. step = "start" => c = Launcher(tool) /\ tool \notin Dumps
  BY DEF Needs, Has
<1>8. step \in {"prepare", "fetch"} =>
        /\ c = IF tool = "snapshot" THEN "etcdctl" ELSE tool
        /\ tool \in {"pgbackrest", "wal-g", "xtrabackup", "mariabackup", "snapshot"}
  BY DEF Needs, Has
<1>9. step \in {"stage", "expand", "apply", "ready", "stop", "start", "prepare", "fetch"}
  BY DEF Needs
<1>10. CASE tool \in Postgres
  <2>1. Checked(backup) = PostgresChecked(backup) /\ Ping(tool) = "pg_isready" /\ Launcher(tool) = "pg_ctl"
    BY <1>10 DEF Checked, Ping, Launcher, tool, Postgres, MySQL, Redis
  <2>2. /\ {"psql", "pg_isready"} \subseteq Checked(backup)
        /\ tool # "pg_dump" => tool \in Checked(backup)
        /\ tool \notin Dumps => "pg_ctl" \in Checked(backup)
        /\ CheckedForm(backup) \subseteq Checked(backup)
    BY <2>1 DEF PostgresChecked, tool
  <2>3. tool \in Dumps => tool \in {"pg_dump", "pg_restore"}
    BY <1>10 DEF Postgres, Dumps
  <2> QED
    BY <1>2, <1>4, <1>5, <1>6, <1>7, <1>8, <1>9, <1>10, <2>1, <2>2, <2>3 DEF Postgres
<1>11. CASE tool \in MySQL
  <2>1. /\ Checked(backup) = MySQLChecked(backup) /\ Ping(tool) = "mysqladmin"
        /\ Launcher(tool) = "mysqld_safe"
    BY <1>11 DEF Checked, Ping, Launcher, tool, Postgres, MySQL, Redis
  <2>2. /\ {"mysql", "mysqladmin"} \subseteq Checked(backup)
        /\ tool # "mysqldump" => tool \in Checked(backup) /\ "mysqld_safe" \in Checked(backup)
        /\ CheckedForm(backup) \subseteq Checked(backup)
    BY <2>1 DEF MySQLChecked, tool
  <2>3. tool \in Dumps <=> tool = "mysqldump"
    BY <1>11 DEF MySQL, Dumps
  <2> QED
    BY <1>2, <1>4, <1>5, <1>6, <1>7, <1>8, <1>9, <1>11, <2>1, <2>2, <2>3 DEF MySQL
<1>12. CASE tool \in Redis
  <2>1. /\ Checked(backup) = {"redis-server", "redis-cli"} /\ Ping(tool) = "redis-cli"
        /\ Launcher(tool) = "redis-server" /\ tool \notin Dumps
    BY <1>12 DEF Checked, RedisChecked, Ping, Launcher, tool, Postgres, MySQL, Redis, Dumps
  <2> QED
    BY <1>3, <1>4, <1>5, <1>6, <1>7, <1>8, <1>9, <1>12, <2>1 DEF Redis
<1>13. CASE tool = "snapshot"
  <2>1. /\ Checked(backup) = {"etcd", "etcdctl"} /\ Ping(tool) = "etcdctl"
        /\ Launcher(tool) = "etcd" /\ tool \notin Dumps
    BY <1>13 DEF Checked, EtcdChecked, Ping, Launcher, tool, Postgres, MySQL, Redis, Dumps
  <2> QED
    BY <1>3, <1>4, <1>5, <1>6, <1>7, <1>8, <1>9, <1>13, <2>1
<1> QED
  BY <1>1, <1>10, <1>11, <1>12, <1>13 DEF AllTools

\* With a form of "tar" Preflight asked for tar itself.
LEMMA TarIsChecked ==
  ASSUME backup \in Backups, backup.form = "tar", backup.origin # "prefix"
  PROVE  "tar" \in Checked(backup)
<1>1. tool \in Postgres \cup MySQL
  BY BackupFacts DEF Forms, AllTools, Redis
<1>2. CheckedForm(backup) = {"tar"}
  BY DEF CheckedForm, Unpackers
<1>3. CASE tool \in Postgres
  BY <1>2, <1>3 DEF Checked, PostgresChecked, tool, Postgres, MySQL, Redis
<1>4. CASE tool \in MySQL
  BY <1>2, <1>4 DEF Checked, MySQLChecked, tool, Postgres, MySQL, Redis
<1> QED
  BY <1>1, <1>3, <1>4

LEMMA MissingStep ==
  /\ backup \in Backups /\ PlanInv /\ CheckedInv /\ MissingCommandStopsPreflight
  /\ [Next]_vars
  => MissingCommandStopsPreflight'
<1> SUFFICES ASSUME backup \in Backups, PlanInv, CheckedInv, MissingCommandStopsPreflight,
                    [Next]_vars
             PROVE  MissingCommandStopsPreflight'
  OBVIOUS
<1>1. CASE CommandMissing
  <2> DEFINE step == Head(todo)
  <2>1. Doing(step) /\ lacks \in Needs(step)
    BY <1>1 DEF CommandMissing, Doing
  <2>2. Has(tool, step)
    BY <2>1, DoingMoves
  <2>3. step # "preflight" => lacks \notin Checked(backup)
    BY <2>1 DEF CheckedInv, Doing
  <2>4. step # "preflight"
    BY <2>1 DEF Needs
  <2>5. lacks = "tar" \/ backup.origin = "prefix"
    BY <2>1, <2>2, <2>3, <2>4, NeedsAreChecked
  <2>6. (lacks = "tar" /\ backup.form # "tar") \/ backup.origin = "prefix"
    BY <2>3, <2>4, <2>5, TarIsChecked
  <2> QED
    BY <2>6, PlaceInPlan DEF MissingCommandStopsPreflight
<1>2. CASE ~CommandMissing
  <2>1. outcome' = "no command" => outcome = "no command"
    BY <1>2, PlaceInPlan DEF Moved, Stayed, Failures, Advance
  <2> QED
    BY <2>1, PlaceInPlan DEF MissingCommandStopsPreflight
<1> QED
  BY <1>1, <1>2

-----------------------------------------------------------------------------
(* Types                                                                   *)

LEMMA TypeStep == TypeOK /\ PlanInv /\ [Next]_vars => TypeOK'
<1> SUFFICES ASSUME TypeOK, PlanInv, [Next]_vars PROVE TypeOK'
  OBVIOUS
<1>1. UNCHANGED <<backup, lacks>> /\ backup' \in Backups
  BY PlaceInPlan DEF TypeOK
<1>2. outcome' = "pending" => todo' # <<>>
  <2>1. PlanInv'
    BY PlanStep DEF TypeOK
  <2>2. outcome' = "pending" => todo' \in Rest(tool) \cup {<<"preflight">> \o Plan(tool)}
    BY <1>1, <2>1 DEF PlanInv, tool
  <2>3. tool \in AllTools
    BY BackupFacts DEF TypeOK
  <2> QED
    BY <2>2, <2>3, RestMoves DEF Moves
<1>3. outcome' \in Outcomes
  BY PlaceInPlan DEF Moved, Stayed, Advance, Failures, Outcomes, CommandMissing, Fail, TypeOK
<1>4. applied' \in Nat /\ sent' \in 0..Parts
  <2>1. \/ applied' = applied /\ sent' \in {sent, 0}
        \/ applied' = applied + 1 /\ sent' = sent + 1 /\ sent < Parts
    BY DEF Next, Restore, Preflight, CommandMissing, PollReady, GiveUpWaiting, Stage, Expand,
       BeginApply, Connect, LoadStatement, StatementFails, ConnectionLost, LoadEnds, Prepare,
       StopPostgres, StopMySQL, WaitStopped, Clear, Fetch, Configure, Place, Start,
       PgCtlReturns, DeadlinePasses, ServerMoves, vars, target, Loading
  <2> QED
    BY <2>1, RestoreAssumption DEF TypeOK
<1>5. phase' \in {"enter", "wait", "connect", "load"} /\ passed' \subseteq {"wait", "retry", "drill"}
  <2>1. \/ phase' = phase \/ phase' \in {"enter", "wait", "connect", "load"}
    BY DEF Next, Restore, Preflight, CommandMissing, PollReady, GiveUpWaiting, Stage, Expand,
       BeginApply, Connect, LoadStatement, StatementFails, ConnectionLost, LoadEnds, Prepare,
       StopPostgres, StopMySQL, WaitStopped, Clear, Fetch, Configure, Place, Start,
       PgCtlReturns, DeadlinePasses, ServerMoves, vars, Advance, Fail, GoTo, AttemptFails
  <2>2. \/ passed' \subseteq passed
        \/ \E d \in {"wait", "retry", "drill"} : passed' = passed \cup {d}
    BY DEF Next, Restore, Preflight, CommandMissing, PollReady, GiveUpWaiting, Stage, Expand,
       BeginApply, Connect, LoadStatement, StatementFails, ConnectionLost, LoadEnds, Prepare,
       StopPostgres, StopMySQL, WaitStopped, Clear, Fetch, Configure, Place, Start,
       PgCtlReturns, DeadlinePasses, ServerMoves, vars, Advance, Fail, GoTo, AttemptFails
  <2> QED
    BY <2>1, <2>2 DEF TypeOK
<1>6. /\ server' \in Servers
      /\ {files', served'} \subseteq {"none", "initial", "part", "backup", "mixed"}
  <2>1. CASE StopPostgres \/ StopMySQL \/ Start
    BY <2>1 DEF StopPostgres, StopMySQL, Start, TypeOK, Servers
  <2>2. CASE Clear \/ Fetch \/ Place
    BY <2>2 DEF Clear, Fetch, Place, Write, TypeOK
  <2>3. CASE ServerMoves
    BY <2>3 DEF ServerMoves, ServerGoes, TypeOK, Servers
  <2>4. CASE UNCHANGED <<server, files, served>>
    BY <2>4 DEF TypeOK
  <2>5. \/ StopPostgres \/ StopMySQL \/ Start \/ Clear \/ Fetch \/ Place \/ ServerMoves
        \/ UNCHANGED <<server, files, served>>
    BY DEF Next, Restore, Preflight, CommandMissing, PollReady, GiveUpWaiting, Stage, Expand,
       BeginApply, Connect, LoadStatement, StatementFails, ConnectionLost, LoadEnds, Loading,
       Prepare, WaitStopped, Configure, PgCtlReturns, DeadlinePasses, vars, target
  <2> QED
    BY <2>1, <2>2, <2>3, <2>4, <2>5
<1> QED
  BY <1>1, <1>2, <1>3, <1>4, <1>5, <1>6 DEF TypeOK

-----------------------------------------------------------------------------
(* Loading a dump                                                          *)

\* A dump that is cut is a compressed one, which the code does not protect.
LEMMA CutDumpIsUnprotected ==
  ASSUME backup \in Backups, tool \in Dumps, backup.cut PROVE Unprotected
<1>1. backup.form \in {"plain", "gz"} /\ backup.form \in {"gz", "tar", "xbstream.gz"}
  BY BackupFacts DEF Forms, Dumps
<1> QED
  BY <1>1 DEF Unprotected

LEMMA DumpStep == TypeOK /\ PlanInv /\ DumpInv /\ [Next]_vars => DumpInv'
<1> SUFFICES ASSUME TypeOK, PlanInv, DumpInv, [Next]_vars PROVE DumpInv'
  OBVIOUS
<1>1. /\ UNCHANGED <<backup, tool>> /\ (Unprotected' <=> Unprotected)
      /\ applied \in Nat /\ sent \in 0..Parts /\ Parts \in Nat
  BY PlaceInPlan, RestoreAssumption DEF Unprotected, tool, TypeOK
<1>2. CASE LoadStatement
  <2>1. /\ Doing("apply") /\ phase = "load" /\ UNCHANGED <<todo, phase, outcome>>
        /\ sent < Parts /\ sent' = sent + 1 /\ applied' = applied + 1
    BY <1>2 DEF LoadStatement, Loading, Runs
  <2>2. Doing("apply")' /\ outcome' # "restored" /\ applied = sent
    BY <2>1 DEF Doing, DumpInv
  <2> QED
    BY <1>1, <2>1, <2>2 DEF DumpInv
<1>3. CASE LoadEnds
  <2>1. /\ Doing("apply") /\ phase = "load" /\ Advance /\ UNCHANGED applied
        /\ sent = Parts \/ backup.cut
    BY <1>3 DEF LoadEnds, Loading, Runs
  <2>2. outcome' = "restored"
    BY <2>1, <1>1, Advancing DEF After, TypeOK
  <2>3. applied = sent /\ applied <= Parts
    BY <2>1 DEF Doing, DumpInv
  <2>4. tool \in Dumps /\ ~Unprotected => applied = Parts
    BY <2>1, <2>3, CutDumpIsUnprotected DEF TypeOK
  <2> QED
    BY <1>1, <2>1, <2>2, <2>3, <2>4 DEF DumpInv
<1>4. CASE StatementFails \/ ConnectionLost
  <2>1. Fail("command") \/ Fail("cut off")
    BY <1>4 DEF StatementFails, ConnectionLost, AttemptFails, IsConnectionStartupError
  <2>2. UNCHANGED applied /\ outcome' \notin {"pending", "restored"}
    BY <1>4, <2>1 DEF StatementFails, ConnectionLost, Fail
  <2> QED
    BY <1>1, <2>2 DEF DumpInv
<1>5. CASE Connect
  <2>1. /\ Doing("apply") /\ phase = "connect" /\ UNCHANGED applied
        /\ outcome' # "restored"
    BY <1>5 DEF Connect, Runs, Doing, GoTo, AttemptFails, Fail
  <2>2. phase' = "load" /\ outcome' = "pending" => sent' = 0
    BY <1>5, <2>1 DEF Connect, GoTo, AttemptFails, Fail
  <2>3. applied = 0
    BY <2>1 DEF DumpInv, Doing
  <2> QED
    BY <1>1, <2>1, <2>2, <2>3 DEF DumpInv
<1>6. CASE UNCHANGED <<sent, applied, todo, phase, outcome>>
  BY <1>1, <1>6 DEF DumpInv, Doing
<1>7. ASSUME UNCHANGED <<sent, applied>>, outcome' \notin {"pending", "restored"} PROVE DumpInv'
  BY <1>1, <1>7 DEF DumpInv
<1>8. ASSUME UNCHANGED <<sent, applied>>, NEW s \in Step, Doing(s), s # "apply", Advance
      PROVE DumpInv'
  <2>1. Has(tool, s) /\ phase' = "enter" /\ (After(tool, s) # "done" => outcome' = "pending")
    BY <1>1, <1>8, Advancing DEF TypeOK
  <2>2. applied = 0
    BY <1>8 DEF DumpInv, Doing
  <2>3. tool \in Dumps => After(tool, s) # "done"
    BY <1>8, <2>1 DEF Has, After, Step
  <2> QED
    BY <1>1, <1>8, <2>1, <2>2, <2>3 DEF DumpInv
<1>9. ASSUME UNCHANGED <<sent, applied, todo, outcome>>, NEW s \in Step, Doing(s),
             phase # "load", phase' # "load"
      PROVE DumpInv'
  <2>1. applied = 0 /\ outcome' = "pending"
    BY <1>9 DEF DumpInv, Doing
  <2> QED
    BY <1>1, <1>9, <2>1 DEF DumpInv
<1>10. ASSUME UNCHANGED <<sent, applied>>, NEW s \in Step, Doing(s), s # "apply",
              \/ Advance
              \/ outcome' \notin {"pending", "restored"}
              \/ phase = "enter" /\ GoTo("wait")
       PROVE  DumpInv'
  BY <1>7, <1>8, <1>9, <1>10 DEF GoTo
<1>11. CASE Preflight \/ PollReady \/ GiveUpWaiting \/ Stage \/ Expand \/ Prepare
  <2>1. UNCHANGED <<sent, applied>> /\ (Advance \/ outcome' \notin {"pending", "restored"})
    BY <1>11 DEF Preflight, PollReady, GiveUpWaiting, Stage, Expand, Prepare, Fail, target
  <2>2. \E s \in Step : Doing(s) /\ s # "apply"
    BY <1>11 DEF Preflight, PollReady, GiveUpWaiting, Stage, Expand, Prepare, Runs, Step
  <2> QED
    BY <2>1, <2>2, <1>10
<1>12. CASE StopPostgres \/ StopMySQL \/ WaitStopped \/ Clear \/ Fetch \/ Configure
  <2>1. /\ UNCHANGED <<sent, applied>>
        /\ \/ Advance
           \/ outcome' \notin {"pending", "restored"}
           \/ phase = "enter" /\ GoTo("wait")
    BY <1>12 DEF StopPostgres, StopMySQL, WaitStopped, Clear, Fetch, Configure, Fail, target
  <2>2. \E s \in Step : Doing(s) /\ s # "apply"
    BY <1>12 DEF StopPostgres, StopMySQL, WaitStopped, Clear, Fetch, Configure, Runs, Step
  <2> QED
    BY <2>1, <2>2, <1>10
<1>13. CASE Place \/ Start \/ PgCtlReturns
  <2>1. /\ UNCHANGED <<sent, applied>>
        /\ \/ Advance
           \/ outcome' \notin {"pending", "restored"}
           \/ phase = "enter" /\ GoTo("wait")
    BY <1>13 DEF Place, Start, PgCtlReturns, Fail, target
  <2>2. \E s \in Step : Doing(s) /\ s # "apply"
    BY <1>13 DEF Place, Start, PgCtlReturns, Runs, Step
  <2> QED
    BY <2>1, <2>2, <1>10
<1>14. CASE BeginApply
  <2>1. /\ UNCHANGED <<sent, applied>> /\ Doing("apply") /\ phase = "enter"
        /\ \/ phase' = "connect" /\ UNCHANGED <<todo, outcome>>
           \/ outcome' \notin {"pending", "restored"}
    BY <1>14 DEF BeginApply, Runs, GoTo, Fail, target
  <2> QED
    BY <2>1, <1>7, <1>9 DEF Step
<1>15. CASE CommandMissing
  BY <1>7, <1>15 DEF CommandMissing, Fail, target
<1>16. CASE ServerMoves \/ UNCHANGED vars \/ \E d \in {"wait", "retry", "drill"} : DeadlinePasses(d)
  BY <1>6, <1>16 DEF ServerMoves, DeadlinePasses, vars, target
<1> QED
  BY <1>2, <1>3, <1>4, <1>5, <1>11, <1>12, <1>13, <1>14, <1>15, <1>16 DEF Next, Restore

-----------------------------------------------------------------------------
(* Replacing the data directory                                            *)

LEMMA ProtectedFacts ==
  ASSUME backup \in Backups, Protected
  PROVE  /\ tool \in AllTools \ Dumps /\ ~backup.standby
         /\ tool \notin Postgres => ~backup.serving
         /\ backup.cut => backup.form = "tar"
         /\ tool \in Redis \cup {"snapshot"} => ~backup.cut
<1>1. /\ tool \in AllTools \ Dumps /\ ~backup.standby
      /\ tool \notin Postgres => ~backup.serving
      /\ backup.cut => backup.form = "tar"
  BY BackupFacts DEF Protected, Unprotected
<1>2. tool \in Redis \cup {"snapshot"} => backup.form = "plain"
  BY BackupFacts DEF Forms, Redis
<1> QED
  BY <1>1, <1>2

\* A physical restore is either before its server's start or after it.
LEMMA BeforeOrStarted ==
  ASSUME TypeOK, PlanInv, Protected, outcome = "pending"
  PROVE  BeforeStart \/ Started
<1>1. Doing(Head(todo)) /\ Has(tool, Head(todo)) /\ tool \notin Dumps
  BY DoingMoves DEF Doing, TypeOK, Protected
<1> QED
  BY <1>1 DEF Has, BeforeStart, Started

\* A step before the start that leaves the server and the files alone.
LEMMA CalmStep ==
  ASSUME TypeOK, PlanInv, PhysicalInv, Protected, UNCHANGED <<backup, target>>,
         NEW s \in {"preflight", "stop", "stage", "expand", "prepare", "configure"}, Doing(s),
         Advance, s = "expand" => ~backup.cut
  PROVE  PhysicalInv'
<1>1. tool \notin Dumps /\ Protected' /\ UNCHANGED <<tool, server, files, served>>
  BY DEF Protected, Unprotected, tool, target
<1>2. /\ Has(tool, s) /\ phase' = "enter" /\ outcome' = "pending"
      /\ Head(todo') = After(tool, s)
  BY <1>1, Advancing DEF TypeOK, After
<1>3. \A r : Doing(r)' <=> r = After(tool, s)
  BY <1>2 DEF Doing
<1>4. /\ s = "preflight" => After(tool, s) \in {"stop", "stage"} /\ (tool \in MySQL => After(tool, s) = "stage")
      /\ s = "stop" => After(tool, s) = "stage" \/ (After(tool, s) = "clear" /\ tool \in MySQL)
      /\ s = "stage" => \/ After(tool, s) = "expand"
                       \/ (After(tool, s) \in {"place", "fetch"} /\ tool \in Redis \cup {"snapshot"})
      /\ s = "expand" => After(tool, s) \in {"clear", "prepare"}
      /\ s = "prepare" => After(tool, s) = "stop"
      /\ s = "configure" => After(tool, s) = "start"
  <2>1. CASE s = "preflight"
    BY <1>1, <2>1 DEF After, MySQL, Postgres
  <2>2. CASE s = "stop"
    BY <1>2, <2>2 DEF After, Has, MySQL, Postgres
  <2>3. CASE s = "stage"
    BY <1>1, <2>3 DEF After
  <2>4. CASE s \in {"expand", "prepare", "configure"}
    BY <2>4 DEF After
  <2> QED
    BY <2>1, <2>2, <2>3, <2>4
<1>5. server = "down" \/ (server = "serving" /\ backup.serving)
  BY DEF PhysicalInv, ServerInv, BeforeStart
<1>6. ServerInv' /\ ServedInv' /\ RestoredInv'
  BY <1>1, <1>2, <1>3, <1>4, <1>5 DEF ServerInv, ServedInv, RestoredInv, Started
<1>7. FilesInv'
  <2>1. server = "down" /\ s # "configure" => files = "none" \/ backup.serving
    BY DEF PhysicalInv, FilesInv
  <2>2. server = "down" /\ s = "configure" => files = "backup"
    BY DEF PhysicalInv, FilesInv
  <2>3. tool \in Redis \cup {"snapshot"} => ~backup.serving
    BY ProtectedFacts DEF TypeOK, Postgres, Redis
  <2> QED
    BY <1>1, <1>3, <1>4, <2>1, <2>2, <2>3 DEF FilesInv
<1>8. WholeInv'
  <2>1. s \in {"prepare", "configure"} \/ (s = "stop" /\ tool \in MySQL) => ~backup.cut
    BY DEF PhysicalInv, WholeInv, Unpacked
  <2>2. tool \in Redis \cup {"snapshot"} => ~backup.cut
    BY ProtectedFacts DEF TypeOK
  <2> QED
    BY <1>1, <1>3, <1>4, <2>1, <2>2 DEF WholeInv, Unpacked
<1> QED
  BY <1>6, <1>7, <1>8 DEF PhysicalInv

\* A restore that has failed promises nothing.
LEMMA FailedStep ==
  ASSUME outcome' \notin {"pending", "restored"} PROVE PhysicalInv'
  BY DEF PhysicalInv, ServerInv, FilesInv, ServedInv, WholeInv, RestoredInv, BeforeStart,
     Started, Unpacked, Doing

\* Nothing that the invariant speaks of has changed.
LEMMA SameStep ==
  ASSUME PhysicalInv, UNCHANGED <<backup, todo, phase, target, outcome>> PROVE PhysicalInv'
  BY DEF PhysicalInv, ServerInv, FilesInv, ServedInv, WholeInv, RestoredInv, BeforeStart,
     Started, Unpacked, Doing, Protected, Unprotected, tool, target

LEMMA StopStep ==
  ASSUME TypeOK, PlanInv, PhysicalInv, Protected, backup' = backup,
         StopPostgres \/ StopMySQL \/ WaitStopped
  PROVE  PhysicalInv'
<1>0. Doing("stop") /\ UNCHANGED <<files, served, sent, applied>>
  BY DEF StopPostgres, StopMySQL, WaitStopped, Runs, target
<1>1. /\ Doing("stop") /\ UNCHANGED <<files, served, sent, applied>>
      /\ server = "down" \/ (server = "serving" /\ backup.serving)
  BY <1>0 DEF PhysicalInv, ServerInv, BeforeStart
<1>2. tool \in MySQL => ~Answers
  <2>1. tool \in MySQL => server = "down" /\ (Answers <=> MySQLAnswers)
    BY <1>1, ProtectedFacts DEF TypeOK, Answers, MySQL, Postgres, Redis
  <2> QED
    BY <2>1 DEF MySQLAnswers
<1>3. \/ Advance /\ UNCHANGED server
      \/ tool \in Postgres /\ Answers /\ server' = "down" /\ Advance
      \/ outcome' \notin {"pending", "restored"}
  <2>1. CASE StopPostgres
    BY <2>1 DEF StopPostgres, Fail
  <2>2. CASE StopMySQL
    BY <1>2, <2>2 DEF StopMySQL, GoTo
  <2>3. CASE WaitStopped
    BY <2>3 DEF WaitStopped, Fail, target
  <2> QED
    BY <2>1, <2>2, <2>3
<1>4. CASE Advance /\ UNCHANGED server
  BY <1>1, <1>4, CalmStep DEF target
<1>5. CASE tool \in Postgres /\ Answers /\ server' = "down" /\ Advance
  <2>1. backup.serving
    BY <1>1, <1>5 DEF Answers, PostgresAnswers, Postgres, MySQL, Redis
  <2>2. tool \notin Dumps /\ UNCHANGED tool /\ Protected' /\ tool \notin MySQL
    BY <1>5 DEF Protected, Unprotected, tool, Postgres, MySQL
  <2>3. outcome' = "pending" /\ Head(todo') = "stage"
    BY <1>1, <1>5, Advancing DEF TypeOK, After
  <2>4. \A r : Doing(r)' <=> r = "stage"
    BY <2>3 DEF Doing
  <2> QED
    BY <1>5, <2>1, <2>2, <2>3, <2>4 DEF PhysicalInv, ServerInv, FilesInv, ServedInv, WholeInv,
       RestoredInv, Started, Unpacked
<1> QED
  BY <1>3, <1>4, <1>5, FailedStep

\* Clear, Fetch and Place leave the server alone and go on with what they wrote.
LEMMA WriteStep ==
  ASSUME TypeOK, PlanInv, PhysicalInv, Protected, backup' = backup, Clear \/ Fetch \/ Place
  PROVE  PhysicalInv'
<1> DEFINE s == IF Clear THEN "clear" ELSE IF Fetch THEN "fetch" ELSE "place"
<1>1. /\ Doing(s) /\ s \in {"clear", "fetch", "place"} /\ UNCHANGED <<server, served>>
      /\ Advance \/ outcome' \notin {"pending", "restored"}
  BY DEF Clear, Fetch, Place, Runs, Fail
<1>2. /\ server = "down" \/ (server = "serving" /\ backup.serving)
      /\ ~backup.cut
      /\ server = "down" /\ s = "clear" => files = "none" \/ backup.serving
      /\ server = "down" /\ s # "clear" => files = "none"
  BY <1>1 DEF PhysicalInv, ServerInv, FilesInv, WholeInv, BeforeStart, Unpacked
<1>3. CASE Advance
  <2>1. tool \notin Dumps /\ UNCHANGED tool /\ Protected' /\ outcome' = "pending"
    BY <1>1, <1>3, Advancing DEF TypeOK, Protected, Unprotected, tool, After
  <2>2. /\ Head(todo') = After(tool, s) /\ phase' = "enter"
        /\ After(tool, s) \in {"fetch", "configure", "start"}
        /\ s = "clear" <=> After(tool, s) = "fetch"
    BY <1>1, <1>3, <2>1, Advancing DEF TypeOK, After
  <2>3. \A r : Doing(r)' <=> r = After(tool, s)
    BY <2>1, <2>2 DEF Doing
  <2>4. server = "down" /\ s = "clear" => files' = "none"
    <3>1. Clear => Write("none") \/ (tool \in MySQL /\ files' = files)
      BY <2>1 DEF Clear, Fail
    <3>2. tool \in MySQL => ~backup.serving
      BY ProtectedFacts DEF TypeOK, MySQL, Postgres
    <3> QED
      BY <1>1, <1>2, <3>1, <3>2 DEF Write, Clear, Fetch, Runs, Doing
  <2>5. server = "down" /\ s # "clear" => files' = "backup"
    <3>1. Fetch => Write("backup")
      BY <1>2, <2>1 DEF Fetch, Fail
    <3>2. Place => Write("backup")
      BY <2>1 DEF Place, Fail
    <3> QED
      BY <1>2, <3>1, <3>2 DEF Write
  <2>6. ServerInv' /\ ServedInv' /\ RestoredInv'
    BY <1>1, <1>2, <2>1, <2>2, <2>3 DEF ServerInv, ServedInv, RestoredInv, Started
  <2>7. FilesInv'
    BY <1>1, <2>2, <2>3, <2>4, <2>5 DEF FilesInv
  <2>8. WholeInv'
    BY <1>2 DEF WholeInv
  <2> QED
    BY <2>6, <2>7, <2>8 DEF PhysicalInv
<1> QED
  BY <1>1, <1>3, FailedStep

\* The server is started on the restored files.
LEMMA StartStep ==
  ASSUME TypeOK, PlanInv, PhysicalInv, Protected, backup' = backup, Start PROVE PhysicalInv'
<1>1. /\ Doing("start") /\ phase = "enter" /\ files' = files
      /\ server = "down" \/ (server = "serving" /\ backup.serving)
      /\ server = "down" => files = "backup"
      /\ ~backup.cut
  BY DEF Start, Runs, PhysicalInv, ServerInv, FilesInv, WholeInv, BeforeStart, Unpacked
<1>2. server # "down" => tool \in Postgres
  BY <1>1, ProtectedFacts DEF TypeOK
<1>3. \/ /\ server = "down" /\ server' = "loading" /\ served' = files
         /\ (tool \in Postgres /\ GoTo("wait")) \/ Advance
      \/ outcome' \notin {"pending", "restored"}
  BY <1>2 DEF Start, Fail
<1>4. CASE outcome' \in {"pending", "restored"}
  <2>1. tool \notin Dumps /\ UNCHANGED tool /\ Protected'
    BY DEF Protected, Unprotected, tool
  <2>2. /\ outcome' = "pending"
        /\ Head(todo') = "ready" \/ (Head(todo') = "start" /\ phase' = "wait")
    BY <1>1, <1>3, <1>4, <2>1, Advancing DEF TypeOK, After, GoTo, Doing
  <2>3. \A r : Doing(r)' => r = "ready" \/ (r = "start" /\ phase' = "wait")
    BY <2>2 DEF Doing
  <2>4. server' = "loading" /\ files' = "backup" /\ served' = "backup"
    BY <1>1, <1>3, <1>4
  <2> QED
    BY <1>1, <2>1, <2>2, <2>3, <2>4 DEF PhysicalInv, ServerInv, FilesInv, ServedInv, WholeInv,
       RestoredInv, BeforeStart
<1> QED
  BY <1>4, FailedStep

\* The server answers: pg_ctl returns, and then the readiness poll.
LEMMA AnsweredStep ==
  ASSUME TypeOK, PlanInv, PhysicalInv, Protected, backup' = backup, PgCtlReturns \/ PollReady
  PROVE  PhysicalInv'
<1>1. CASE outcome' \in {"pending", "restored"}
  <2>1. /\ Advance /\ Answers /\ UNCHANGED <<server, files, served>>
        /\ (Doing("start") /\ phase = "wait") \/ Doing("ready")
    BY <1>1 DEF PgCtlReturns, PollReady, Runs, Fail, target
  <2>2. server = "serving" /\ files = "backup" /\ served = "backup" /\ ~backup.cut
    <3>1. server \in {"loading", "serving", "dead"} /\ files = "backup" /\ served = "backup"
          /\ ~backup.cut
      BY <2>1 DEF PhysicalInv, ServerInv, ServedInv, WholeInv, Started, Unpacked
    <3> QED
      BY <2>1, <3>1 DEF Answers, PostgresAnswers, MySQLAnswers, RedisAnswers, EtcdAnswers
  <2>3. tool \notin Dumps /\ UNCHANGED tool /\ Protected'
    BY DEF Protected, Unprotected, tool
  <2>4. outcome' = "restored" \/ (outcome' = "pending" /\ Head(todo') = "ready")
    BY <2>1, <2>3, Advancing DEF TypeOK, After
  <2>5. \A r : Doing(r)' => r = "ready"
    BY <2>4 DEF Doing
  <2> QED
    BY <2>1, <2>2, <2>3, <2>5 DEF PhysicalInv, ServerInv, FilesInv, ServedInv, WholeInv,
       RestoredInv, BeforeStart
<1> QED
  BY <1>1, FailedStep

\* What the environment does to the server of a protected restore.
LEMMA ServerStep ==
  ASSUME TypeOK, PlanInv, PhysicalInv, Protected, backup' = backup, ServerMoves
  PROVE  PhysicalInv'
<1>1. UNCHANGED <<backup, todo, phase, outcome, tool>> /\ Protected'
  BY DEF ServerMoves, Protected, Unprotected, tool
<1>2. CASE outcome \in {"pending", "restored"}
  <2>1. Started
    <3>1. server \notin {"down", "serving"}
      BY DEF ServerMoves, ServerGoes
    <3>2. outcome = "pending" /\ ~BeforeStart
      BY <1>2, <3>1 DEF PhysicalInv, RestoredInv, ServerInv
    <3> QED
      BY <3>2, BeforeOrStarted
  <2>2. /\ server \in {"loading", "serving", "dead"} /\ files = "backup" /\ served = "backup"
        /\ outcome = "pending"
    BY <2>1 DEF PhysicalInv, ServerInv, ServedInv, Started, Doing
  <2>3. server' \in {"loading", "serving", "dead"} /\ UNCHANGED <<files, served>>
    BY <2>2, ProtectedFacts DEF TypeOK, ServerMoves, ServerGoes
  <2> QED
    BY <1>1, <2>1, <2>2, <2>3 DEF PhysicalInv, ServerInv, FilesInv, ServedInv, WholeInv,
       RestoredInv, BeforeStart, Started, Unpacked, Doing
<1>3. CASE outcome \notin {"pending", "restored"}
  BY <1>1, <1>3, FailedStep
<1> QED
  BY <1>2, <1>3

LEMMA PhysicalStep == TypeOK /\ PlanInv /\ PhysicalInv /\ [Next]_vars => PhysicalInv'
<1> SUFFICES ASSUME TypeOK, PlanInv, PhysicalInv, [Next]_vars PROVE PhysicalInv'
  OBVIOUS
<1>1. backup' = backup
  BY PlaceInPlan
<1>2. CASE ~Protected
  BY <1>1, <1>2 DEF PhysicalInv, ServerInv, FilesInv, ServedInv, WholeInv, RestoredInv,
     Protected, Unprotected, tool
<1>3. CASE Protected
  <2>1. CASE Preflight \/ Stage \/ Prepare \/ Configure \/ Expand
    <3>1. Advance \/ outcome' \notin {"pending", "restored"}
      BY <2>1 DEF Preflight, Stage, Prepare, Configure, Expand, Fail
    <3>2. /\ UNCHANGED target
          /\ \E s \in {"preflight", "stop", "stage", "expand", "prepare", "configure"} :
               Doing(s) /\ (Advance /\ s = "expand" => ~backup.cut)
      <4>1. Expand /\ Advance => ~backup.cut
        <5>1. Expand /\ Advance => ~(backup.cut /\ backup.form = "tar")
          BY DEF Expand, Advance, Fail
        <5> QED
          BY <1>3, <5>1, ProtectedFacts DEF TypeOK
      <4> QED
        BY <2>1, <4>1 DEF Preflight, Stage, Prepare, Configure, Expand, Runs, Doing
    <3> QED
      BY <1>1, <1>3, <3>1, <3>2, CalmStep, FailedStep
  <2>2. CASE StopPostgres \/ StopMySQL \/ WaitStopped
    BY <1>1, <1>3, <2>2, StopStep
  <2>3. CASE Clear \/ Fetch \/ Place
    BY <1>1, <1>3, <2>3, WriteStep
  <2>4. CASE Start
    BY <1>1, <1>3, <2>4, StartStep
  <2>5. CASE PgCtlReturns \/ PollReady
    BY <1>1, <1>3, <2>5, AnsweredStep
  <2>6. CASE ServerMoves
    BY <1>1, <1>3, <2>6, ServerStep
  <2>7. CASE GiveUpWaiting \/ CommandMissing
    BY <2>7, FailedStep DEF GiveUpWaiting, CommandMissing, Fail
  <2>8. ~Doing("apply")
    BY <1>3, DoingMoves DEF TypeOK, Has, Protected
  <2>9. ~(BeginApply \/ Connect \/ LoadStatement \/ StatementFails \/ ConnectionLost \/ LoadEnds)
    BY <2>8 DEF BeginApply, Connect, LoadStatement, StatementFails, ConnectionLost, LoadEnds,
       Loading, Runs
  <2>10. CASE UNCHANGED vars \/ \E d \in {"wait", "retry", "drill"} : DeadlinePasses(d)
    BY <2>10, SameStep DEF DeadlinePasses, vars
  <2> QED
    BY <2>1, <2>2, <2>3, <2>4, <2>5, <2>6, <2>7, <2>9, <2>10 DEF Next, Restore
<1> QED
  BY <1>2, <1>3

-----------------------------------------------------------------------------
(* The theorems                                                            *)

LEMMA InvInit == Init => IInv
<1> SUFFICES ASSUME Init PROVE IInv
  OBVIOUS
<1>1. /\ backup \in Backups /\ tool \in AllTools /\ outcome = "pending" /\ phase = "enter"
      /\ todo = <<"preflight">> \o Plan(tool)
  BY BackupFacts DEF Init
<1>2. PlanInv
  BY <1>1 DEF PlanInv
<1>3. Head(todo) = "preflight" /\ todo # <<>>
  BY <1>1, PlanIsARest, Prepended DEF Step
<1>4. \A r : Doing(r) <=> r = "preflight"
  BY <1>1, <1>3 DEF Doing
<1>5. TypeOK
  BY <1>1, <1>3, RestoreAssumption DEF Init, TypeOK, Servers, Outcomes
<1>6. CheckedInv /\ MissingCommandStopsPreflight
  BY <1>1, <1>4 DEF CheckedInv, MissingCommandStopsPreflight
<1>7. DumpInv
  BY <1>1, <1>4, RestoreAssumption DEF Init, DumpInv
<1>8. ServerInv
  <2>1. Protected => (IF backup.serving THEN server = "serving" ELSE server = "down")
    BY ProtectedFacts DEF Init, SleepingTools
  <2>2. ~Started
    BY <1>4 DEF Started
  <2> QED
    BY <2>1, <2>2 DEF ServerInv
<1>9. FilesInv
  BY <1>4 DEF Init, FilesInv
<1>10. ServedInv /\ WholeInv /\ RestoredInv
  BY <1>1, <1>4 DEF ServedInv, WholeInv, RestoredInv, Started, Unpacked
<1> QED
  BY <1>2, <1>5, <1>6, <1>7, <1>8, <1>9, <1>10 DEF IInv, PhysicalInv

LEMMA InvStep == IInv /\ [Next]_vars => IInv'
<1> SUFFICES ASSUME IInv, [Next]_vars PROVE IInv'
  OBVIOUS
<1>1. backup \in Backups
  BY DEF IInv, TypeOK
<1> QED
  BY <1>1, TypeStep, PlanStep, CheckedStep, MissingStep, DumpStep, PhysicalStep DEF IInv

\* The invariant holds in every state of Preflight and Restore.
THEOREM Invariance == Spec => []IInv
  BY InvInit, InvStep, PTL DEF Spec

\* Restore keeps to the types of its state, and never runs out of its plan.
THEOREM TypeCorrect == Spec => []TypeOK
  BY Invariance, PTL DEF IInv

\* No statement of a dump is applied twice, by any number of attempts.
THEOREM AppliedOnce == Spec => []DumpAppliedOnce
<1>1. IInv => DumpAppliedOnce
  BY DEF IInv, DumpInv, DumpAppliedOnce
<1> QED
  BY <1>1, Invariance, PTL

\* A restore that returns without an error has put the whole backup in place,
\* where the code protects it.
THEOREM RestoredIsBackup == Spec => []RestoredIsTheBackup
<1>1. IInv => RestoredIsTheBackup
  BY DEF IInv, DumpInv, PhysicalInv, ServedInv, RestoredInv, Protected, RestoredIsTheBackup,
     BackupInPlace
<1> QED
  BY <1>1, Invariance, PTL

\* A missing command is found by Preflight, before anything has changed.
THEOREM PreflightFindsMissing == Spec => []MissingCommandStopsPreflight
  BY Invariance, PTL DEF IInv
================================================================================
