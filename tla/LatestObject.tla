------------------------------ MODULE LatestObject ------------------------------
(***************************************************************************)
(* How downloadS3 finds the backup when the configuration names a prefix   *)
(* only: latestObjectKey lists the objects below it, page by page in the   *)
(* order of their keys, and remembers the one that was modified last;      *)
(* GetObject then reads it.  The bucket is shared with the jobs that write *)
(* backups and expire old ones, which do not wait for the listing.         *)
(*                                                                         *)
(* Keys are numbers in their order.  Modification times are in the clock   *)
(* of the bucket, whose grain is coarse enough for two objects to share    *)
(* one.                                                                    *)
(***************************************************************************)
EXTENDS Naturals, FiniteSets

CONSTANTS
  MaxKey,    \* keys below the prefix are 1..MaxKey
  Markers,   \* the keys that end in "/": folders, not backups
  PageSize,  \* keys on a page of the listing
  MaxTime    \* bound of the model on the clock of the bucket

ASSUME LatestAssumption ==
  /\ {MaxKey, PageSize, MaxTime} \subseteq Nat \ {0}
  /\ Markers \subseteq 1..MaxKey

Keys == 1..MaxKey
Absent == 0
None == [key |-> 0, time |-> Absent]

VARIABLES
  bucket,   \* the modification time of each object, Absent for none
  now,      \* the clock of the bucket
  step,     \* "idle", "listing", "listed", "chosen", and then "returned" or
            \* "failed" by an error of the store
  cursor,   \* the last key that was listed
  latest,   \* latestKey and latestTime, None for an empty key
  result,   \* what was downloaded, None with an error
  atStart,  \* the bucket when the listing began
  deleted   \* keys that were deleted since

history == <<atStart, deleted>>
latestVars == <<bucket, now, step, cursor, latest, result, history>>

LatestInit ==
  /\ bucket = [k \in Keys |-> Absent]
  /\ now = 1
  /\ step = "idle"
  /\ cursor = 0
  /\ latest = None
  /\ result = None
  /\ atStart = bucket
  /\ deleted = {}

-----------------------------------------------------------------------------
(* The listing and the download                                            *)

Begin ==
  /\ step = "idle"
  /\ step' = "listing"
  /\ atStart' = bucket
  /\ deleted' = {}
  /\ UNCHANGED <<bucket, now, cursor, latest, result>>

\* The keys behind the cursor.
Rest == {k \in Keys : k > cursor /\ bucket[k] # Absent}

\* One page: the first PageSize of them.
Page == {k \in Rest : Cardinality({j \in Rest : j < k}) < PageSize}

Last(page) == CHOOSE k \in page : \A j \in page : j <= k

\* A folder is skipped.
Candidates(page) == page \ Markers

Later(k, j) == bucket[k] > bucket[j] \/ (bucket[k] = bucket[j] /\ k <= j)

Newest(page) == CHOOSE k \in Candidates(page) : \A j \in Candidates(page) : Later(k, j)

\* latestKey == "" || modified > latestTime
Improves(k) == latest = None \/ bucket[k] > latest.time

\* Mutant of MorePages: the first page is taken for all.
OnePage == FALSE

\* IsTruncated: the page does not reach the last key.
MorePages == Rest # Page

NextPage ==
  /\ step = "listing"
  /\ step' = IF MorePages THEN "listing" ELSE "listed"
  /\ cursor' = IF Page = {} THEN cursor ELSE Last(Page)
  /\ latest' = IF Candidates(Page) # {} /\ Improves(Newest(Page))
               THEN [key |-> Newest(Page), time |-> bucket[Newest(Page)]]
               ELSE latest
  /\ UNCHANGED <<bucket, now, result, history>>

NoObjects ==
  /\ step = "listed"
  /\ latest = None
  /\ step' = "returned"
  /\ UNCHANGED <<bucket, now, cursor, latest, result, history>>

Choose ==
  /\ step = "listed"
  /\ latest # None
  /\ step' = "chosen"
  /\ UNCHANGED <<bucket, now, cursor, latest, result, history>>

\* GetObject reads what the key names by now; an object that is gone is an error.
GetObject ==
  /\ step = "chosen"
  /\ step' = "returned"
  /\ result' = IF bucket[latest.key] = Absent
               THEN None
               ELSE [key |-> latest.key, time |-> bucket[latest.key]]
  /\ UNCHANGED <<bucket, now, cursor, latest, history>>

\* The store refuses a request, or the drill's deadline passes.
RequestFails ==
  /\ step \in {"listing", "chosen"}
  /\ step' = "failed"
  /\ UNCHANGED <<bucket, now, cursor, latest, result, history>>

-----------------------------------------------------------------------------
(* The other users of the bucket                                           *)

Tick ==
  /\ now < MaxTime
  /\ now' = now + 1
  /\ UNCHANGED <<bucket, step, cursor, latest, result, history>>

Upload(k) ==
  /\ bucket' = [bucket EXCEPT ![k] = now]
  /\ UNCHANGED <<now, step, cursor, latest, result, history>>

Delete(k) ==
  /\ bucket[k] # Absent
  /\ bucket' = [bucket EXCEPT ![k] = Absent]
  /\ deleted' = deleted \cup {k}
  /\ UNCHANGED <<now, step, cursor, latest, result, atStart>>

LatestNext ==
  \/ Begin \/ NextPage \/ NoObjects \/ Choose \/ GetObject \/ RequestFails
  \/ Tick
  \/ step \notin {"returned", "failed"} /\ \E k \in Keys : Upload(k) \/ Delete(k)

LatestSpec == LatestInit /\ [][LatestNext]_latestVars

-----------------------------------------------------------------------------
LatestTypeOK ==
  /\ bucket \in [Keys -> 0..MaxTime]
  /\ now \in 1..MaxTime
  /\ step \in {"idle", "listing", "listed", "chosen", "returned", "failed"}
  /\ cursor \in 0..MaxKey
  /\ {latest, result} \subseteq [key : 0..MaxKey, time : 0..MaxTime]
  /\ step = "chosen" => latest.key \in Keys
  /\ atStart \in [Keys -> 0..MaxTime]
  /\ deleted \subseteq Keys

\* The backups that were there from the beginning of the listing on.
Stable == {k \in Keys \ Markers : atStart[k] # Absent /\ k \notin deleted}

\* The backup that is restored is at least as recent as every backup that was
\* there when the listing began and was not deleted since, whatever was written
\* meanwhile, on pages already listed or still to come; and it is no folder.
\* Nothing is reported missing while there is a backup all along: a download
\* fails only if the backup that was chosen has been deleted.
LatestIsFound ==
  /\ result # None =>
       /\ result.key \notin Markers
       /\ \A k \in Stable : atStart[k] <= result.time
  /\ step = "returned" /\ result = None =>
       IF latest = None THEN Stable = {} ELSE latest.key \in deleted
=================================================================================
