------------------------------- MODULE Uploads -------------------------------
(***************************************************************************)
(* Uploads of images and short videos (src/uploads/): for requests, for    *)
(* products and for finds, each with a daily allowance per user.  The      *)
(* module follows one user over one day.                                   *)
(*                                                                         *)
(* A handler reads the counter of the day, stores the file, then counts    *)
(* it: nothing holds the other handlers back in between.                   *)
(***************************************************************************)
EXTENDS Naturals, FiniteSets

CONSTANTS Uploaders,   \* handlers that may be in flight at once
          RequestCap,  \* DAILY_UPLOAD_CAP of the requester's uploads
          OpsCap,      \* DAILY_UPLOAD_CAP of the staff's uploads
          MaxStored    \* bound: how many files are stored

ASSUME UploadAssumption ==
  /\ IsFiniteSet(Uploaders)
  /\ RequestCap \in Nat /\ OpsCap \in Nat /\ MaxStored \in Nat

Desks == {"requests", "products", "finds"}
Cap(desk) == IF desk = "requests" THEN RequestCap ELSE OpsCap

\* Where storeBinary puts files: a bucket, the disk (a development build), or
\* nowhere (production without a bucket).
Places == {"bucket", "disk", "nowhere"}

\* A file: what its bytes and its declared type are, and its size.
Files == [bytes : {"image", "video", "other"}, says : {"image", "video", "other"},
          size : {"small", "over image limit", "over video limit"}]

VARIABLES shared,     \* counters are in Redis; settled when the process starts
          place,      \* where files go; settled when the process starts
          counter,    \* counter[desk]: the Redis key of the user, desk and day
          upload,     \* upload[u]: the handler u is running
          stored,     \* stored[desk]: files stored (history)
          uncounted   \* uncounted[desk]: those among them nobody will count (history)

uploadVars == <<shared, place, counter, upload, stored, uncounted>>

Uploading   == [stage : {"idle", "store", "count"}, desk : Desks]
NoUpload    == [stage |-> "idle", desk |-> "requests"]
Doing(u, stage) == upload[u].stage = stage
Waiting(u)      == upload[u] = NoUpload

UploadTypeOK ==
  /\ shared \in BOOLEAN /\ place \in Places
  /\ counter \in [Desks -> Nat]
  /\ upload \in [Uploaders -> Uploading]
  /\ stored \in [Desks -> Nat]
  /\ uncounted \in [Desks -> Nat]

UploadInit ==
  /\ shared \in BOOLEAN /\ place \in Places
  /\ counter = [desk \in Desks |-> 0]
  /\ upload = [u \in Uploaders |-> NoUpload]
  /\ stored = [desk \in Desks |-> 0]
  /\ uncounted = [desk \in Desks |-> 0]

-----------------------------------------------------------------------------
\* FileInterceptor and the checks of upload: by the declared type.
Admitted(file) ==
  /\ file.says # "other"
  /\ file.size = "small" \/ (file.says = "video" /\ file.size # "over video limit")

\* sniffImage looks at the bytes; sniffVideo takes a declared video at its word.
Sniffed(file) == file.bytes # "other" \/ file.says = "video"

\* Slip: one more than the allowance.
UnderCapOrAt(desk) == counter[desk] <= Cap(desk)

UnderCap(desk) == counter[desk] < Cap(desk)

\* upload, up to its call of the store.
Upload(u, desk, file) ==
  /\ Waiting(u)
  /\ Admitted(file)
  /\ UnderCap(desk)
  /\ Sniffed(file)
  /\ upload' = [upload EXCEPT ![u] = [stage |-> "store", desk |-> desk]]
  /\ UNCHANGED <<shared, place, counter, stored, uncounted>>

\* storeBinary.  A bucket that took the file may still answer with an error,
\* and a process may die before it counts: the file is there, uncounted.
StoreBinary(u) ==
  LET desk == upload[u].desk IN
  /\ Doing(u, "store")
  /\ place # "nowhere"
  /\ stored["requests"] + stored["products"] + stored["finds"] < MaxStored
  /\ stored' = [stored EXCEPT ![desk] = stored[desk] + 1]
  /\ \/ /\ upload' = [upload EXCEPT ![u] = [stage |-> "count", desk |-> desk]]
        /\ UNCHANGED uncounted
     \/ /\ upload' = [upload EXCEPT ![u] = NoUpload]
        /\ uncounted' = [uncounted EXCEPT ![desk] = uncounted[desk] + 1]
  /\ UNCHANGED <<shared, place, counter>>

\* Not configured, or an error; or the process died before the store.
StoreFails(u) ==
  /\ Doing(u, "store")
  /\ upload' = [upload EXCEPT ![u] = NoUpload]
  /\ UNCHANGED <<shared, place, counter, stored, uncounted>>

\* INCR.  (The key names the day, and lives for a day after its first use.)
CountUpload(u) ==
  LET desk == upload[u].desk IN
  /\ Doing(u, "count")
  /\ counter' = [counter EXCEPT ![desk] = counter[desk] + 1]
  /\ upload' = [upload EXCEPT ![u] = NoUpload]
  /\ UNCHANGED <<shared, place, stored, uncounted>>

\* The process dies, or Redis refuses.
NeverCounted(u) ==
  LET desk == upload[u].desk IN
  /\ Doing(u, "count")
  /\ upload' = [upload EXCEPT ![u] = NoUpload]
  /\ uncounted' = [uncounted EXCEPT ![desk] = uncounted[desk] + 1]
  /\ UNCHANGED <<shared, place, counter, stored>>

\* Without Redis the counters live in the only process, and end with it.
Restart ==
  /\ ~shared
  /\ counter' = [desk \in Desks |-> 0]
  /\ upload' = [u \in Uploaders |-> NoUpload]
  /\ uncounted' = stored
  /\ UNCHANGED <<shared, place, stored>>

UploadNext ==
  \/ Restart
  \/ \E u \in Uploaders :
       \/ \E desk \in Desks, file \in Files : Upload(u, desk, file)
       \/ StoreBinary(u) \/ StoreFails(u) \/ CountUpload(u) \/ NeverCounted(u)

UploadSpec == UploadInit /\ [][UploadNext]_uploadVars

-----------------------------------------------------------------------------
(* What the daily allowance comes to when uploads overlap: on each desk a  *)
(* user stores at most the allowance, plus one file for each other handler *)
(* that passed the check beside it, plus the files that were never counted *)
(* (upload in the three controllers).  An allowance of one desk is not     *)
(* used up by another.                                                     *)
QuotaBounded ==
  \A desk \in Desks :
    Cap(desk) > 0 =>
      stored[desk] + 1 <= Cap(desk) + Cardinality(Uploaders) + uncounted[desk]
=============================================================================
