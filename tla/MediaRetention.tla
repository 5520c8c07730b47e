---------------------------- MODULE MediaRetention ----------------------------
(***************************************************************************)
(* What the sweep may delete from the bucket                               *)
(* (src/src/services/mediaRetentionService.ts, sweepMedia.ts), against     *)
(* the two writers it races: clients, who upload an object and publish a   *)
(* row that refers to it some time later, and the media worker, which      *)
(* uploads a transcode and repoints the row (transcodeService.ts).         *)
(*                                                                         *)
(* A row keeps its original in source_url once a transcode supersedes it.  *)
(* sweepOrphans deletes objects no row refers to; reclaimOriginals deletes *)
(* originals after a retention time and clears source_url. Each query and  *)
(* each object's deletion is a step of its own.                            *)
(*                                                                         *)
(* A clip and its poster are one object. Rows are never hard-deleted here  *)
(* (a soft-deleted row still refers to its media), and the queue that      *)
(* decides which row is encoded when is module MediaJobs: here the worker  *)
(* may encode any row at any time. A dry run writes nothing and is a sweep *)
(* that dies.                                                              *)
(***************************************************************************)
EXTENDS Integers, FiniteSets

CONSTANTS
  Row,        \* rows of videos and post_media; bounds how many are published
  Video,      \* the rows of videos
  Object,     \* bucket keys; bounds how many objects are ever written
  Sweeper,    \* sweepMedia processes that may run at a time
  MinAge,     \* DEFAULT_MIN_AGE_MS, in ticks
  RetainAge,  \* DEFAULT_ORIGINAL_RETENTION_MS
  Gap,        \* the longest from writing an object to the row that refers to it
  Scan,       \* the longest from collecting the references to the last listed object
  MaxTime,    \* bounds the clock
  Client,     \* who wrote an object: a client, or the encode of a row
  NoObject    \* source_url IS NULL

\* Nothing in the code enforces Gap and Scan: they are what its grace period
\* takes for granted of clients, the worker and the listing.
ASSUME MediaRetentionAssumption ==
  /\ Video \subseteq Row
  /\ Client \notin Row
  /\ NoObject \notin Object
  /\ MinAge \in Nat /\ RetainAge \in Nat /\ Gap \in Nat /\ Scan \in Nat /\ MaxTime \in Nat
  /\ Gap + Scan < MinAge
  /\ Gap <= RetainAge

VARIABLES
  now,
  bucket,   \* the objects there are
  written,  \* the objects there ever were
  born,     \* LastModified of each object written
  maker,    \* history: who wrote each object, a client or the encode of a row
  rows,     \* the rows published
  row,      \* what each row holds
  encode,   \* the worker's encode in flight
  sweep     \* the sweepMedia processes

objects == <<bucket, written, born, maker>>
vars == <<now, objects, rows, row, encode, sweep>>

\* upload is history: the object a row was published with.
MaybeObject == Object \cup {NoObject}
RowData == [url : MaybeObject, source : MaybeObject, created : Nat, updated : Nat,
            upload : MaybeObject]

Idle == [pc |-> "idle"]
EncodeState == {Idle}
  \cup [pc : {"put"}, row : Row, from : Object, first : BOOLEAN]
  \cup [pc : {"repoint"}, row : Row, from : Object, first : BOOLEAN, out : Object]

Sweep == {Idle}
  \cup [pc : {"list"}, refs : SUBSET Object, at : Nat]
  \cup [pc : {"orphans"}, keys : SUBSET Object]
  \cup [pc : {"originals"}]
  \cup [pc : {"reclaim"}, keys : SUBSET Object, owned : SUBSET (Row \X Object)]
  \cup [pc : {"clear"}, owned : SUBSET (Row \X Object)]

\* What a row refers to.
Refs(r) == {row[r].url, row[r].source} \ {NoObject}
Referenced == UNION {Refs(r) : r \in rows}

Young(o) == now <= born[o] + Gap

--------------------------------------------------------------------------------
(* The writers *)

\* The clock, and the two things it waits for: a listing is not slower than Scan.
Tick ==
  /\ now < MaxTime
  /\ \A s \in Sweeper : sweep[s].pc = "list" => now < sweep[s].at + Scan
  /\ now' = now + 1
  /\ UNCHANGED <<objects, rows, row, encode, sweep>>

Write(o, by) ==
  /\ o \notin written
  /\ written' = written \cup {o}
  /\ bucket' = bucket \cup {o}
  /\ born' = [born EXCEPT ![o] = now]
  /\ maker' = [maker EXCEPT ![o] = by]

\* A client PUTs to the key createSignedUpload minted.
Upload(o) ==
  /\ Write(o, Client)
  /\ UNCHANGED <<now, rows, row, encode, sweep>>

\* createVideo, createPost: any URL will do. It is the client's own upload, or that
\* of a publish whose answer was lost, or what another row plays or played; the API
\* does not look into the bucket. What no row refers to is published in time.
PublishRow(r, o) ==
  /\ r \notin rows
  /\ o \in written
  /\ Young(o) \/ o \in Referenced
  /\ rows' = rows \cup {r}
  /\ row' = [row EXCEPT ![r] =
       [url |-> o, source |-> NoObject, created |-> now, updated |-> now, upload |-> o]]
  /\ UNCHANGED <<now, objects, encode, sweep>>

\* Likes, comments and shares bump a counter and updated_at with it.
Touch(r) ==
  /\ r \in rows \cap Video
  /\ row' = [row EXCEPT ![r].updated = now]
  /\ UNCHANGED <<now, objects, rows, encode, sweep>>

--------------------------------------------------------------------------------
(* transcodeVideo, transcodePostMedia *)

\* Read the row and its object; a missing object fails the job.
BeginEncode(r) ==
  /\ encode = Idle
  /\ r \in rows
  /\ row[r].url \in bucket
  /\ encode' = [pc |-> "put", row |-> r, from |-> row[r].url,
                first |-> row[r].source = NoObject]
  /\ UNCHANGED <<now, objects, rows, row, sweep>>

putObject(o) ==
  /\ encode.pc = "put"
  /\ Write(o, encode.row)
  /\ encode' = [pc |-> "repoint", row |-> encode.row, from |-> encode.from,
                first |-> encode.first, out |-> o]
  /\ UNCHANGED <<now, rows, row, sweep>>

\* The one UPDATE. Whether the row has an original is what it read.
RepointRow ==
  /\ encode.pc = "repoint"
  /\ Young(encode.out)
  /\ LET r == encode.row IN
     row' = [row EXCEPT
       ![r].url = encode.out,
       ![r].source = IF encode.first THEN encode.from ELSE row[r].source,
       ![r].updated = now]
  /\ encode' = Idle
  /\ UNCHANGED <<now, objects, rows, sweep>>

\* The encode fails or the worker dies; what it uploaded is left behind.
EncodeStops ==
  /\ encode # Idle
  /\ encode' = Idle
  /\ UNCHANGED <<now, objects, rows, row, sweep>>

--------------------------------------------------------------------------------
(* sweepMedia: sweepOrphans, then on demand reclaimOriginals *)

\* Mutant: a list of columns that forgot source_url.
collectReferencedKeys_ListOfColumns(s) ==
  /\ sweep[s] = Idle
  /\ sweep' = [sweep EXCEPT ![s] = [pc |-> "list", refs |-> {row[r].url : r \in rows}, at |-> now]]
  /\ UNCHANGED <<now, objects, rows, row, encode>>

\* One UNION query over every column: a consistent snapshot.
collectReferencedKeys(s) ==
  /\ sweep[s] = Idle
  /\ sweep' = [sweep EXCEPT ![s] = [pc |-> "list", refs |-> Referenced, at |-> now]]
  /\ UNCHANGED <<now, objects, rows, row, encode>>

\* Mutant: no grace period.
ListObjects_NoGrace(s) ==
  /\ sweep[s].pc = "list"
  /\ sweep' = [sweep EXCEPT ![s] = [pc |-> "orphans", keys |-> bucket \ sweep[s].refs]]
  /\ UNCHANGED <<now, objects, rows, row, encode>>

\* List the bucket and pick the orphans: unreferenced and not too young.
ListObjects(s) ==
  /\ sweep[s].pc = "list"
  /\ sweep' = [sweep EXCEPT ![s] =
       [pc |-> "orphans",
        keys |-> {o \in bucket \ sweep[s].refs : born[o] + MinAge <= now}]]
  /\ UNCHANGED <<now, objects, rows, row, encode>>

\* deleteObjects: a key S3 refuses to delete is logged and passed over.
DeleteKey(s, o) ==
  /\ sweep[s].pc \in {"orphans", "reclaim"}
  /\ o \in sweep[s].keys
  /\ bucket' \in {bucket, bucket \ {o}}
  /\ sweep' = [sweep EXCEPT ![s].keys = @ \ {o}]
  /\ UNCHANGED <<now, written, born, maker, rows, row, encode>>

\* --include-originals; without it the process ends here (SweepDies).
OrphansDone(s) ==
  /\ sweep[s].pc = "orphans"
  /\ sweep[s].keys = {}
  /\ sweep' = [sweep EXCEPT ![s] = [pc |-> "originals"]]
  /\ UNCHANGED <<now, objects, rows, row, encode>>

\* Videos age since they were last written, post media since they were created.
Reclaimable(r) ==
  /\ row[r].source # NoObject
  /\ (IF r \in Video THEN row[r].updated ELSE row[r].created) + RetainAge < now

\* Mutant: every original.
findReclaimableOriginals_AnyAge(s) ==
  /\ sweep[s].pc = "originals"
  /\ LET owned == {<<r, row[r].source>> : r \in {q \in rows : row[q].source # NoObject}} IN
     sweep' = [sweep EXCEPT ![s] =
       [pc |-> "reclaim", keys |-> {p[2] : p \in owned}, owned |-> owned]]
  /\ UNCHANGED <<now, objects, rows, row, encode>>

findReclaimableOriginals(s) ==
  /\ sweep[s].pc = "originals"
  /\ LET owned == {<<r, row[r].source>> : r \in {q \in rows : Reclaimable(q)}} IN
     sweep' = [sweep EXCEPT ![s] =
       [pc |-> "reclaim", keys |-> {p[2] : p \in owned}, owned |-> owned]]
  /\ UNCHANGED <<now, objects, rows, row, encode>>

ReclaimDone(s) ==
  /\ sweep[s].pc = "reclaim"
  /\ sweep[s].keys = {}
  /\ sweep' = [sweep EXCEPT ![s] = [pc |-> "clear", owned |-> sweep[s].owned]]
  /\ UNCHANGED <<now, objects, rows, row, encode>>

\* source_url = NULL for every row selected, whatever became of its object.
ClearSource(s, p) ==
  /\ sweep[s].pc = "clear"
  /\ p \in sweep[s].owned
  /\ row' = [row EXCEPT ![p[1]].source = NoObject]
  /\ sweep' = [sweep EXCEPT ![s].owned = @ \ {p}]
  /\ UNCHANGED <<now, objects, rows, encode>>

\* The process ends, or is killed, or a query or S3 call throws.
SweepDies(s) ==
  /\ sweep[s] # Idle
  /\ sweep' = [sweep EXCEPT ![s] = Idle]
  /\ UNCHANGED <<now, objects, rows, row, encode>>

--------------------------------------------------------------------------------

Init ==
  /\ now = 0
  /\ bucket = {} /\ written = {}
  /\ born = [o \in Object |-> 0]
  /\ maker = [o \in Object |-> Client]
  /\ rows = {}
  /\ row = [r \in Row |-> [url |-> NoObject, source |-> NoObject, created |-> 0,
                           updated |-> 0, upload |-> NoObject]]
  /\ encode = Idle
  /\ sweep = [s \in Sweeper |-> Idle]

SweepNext(s) ==
  \/ collectReferencedKeys(s)
  \/ ListObjects(s)
  \/ \E o \in Object : DeleteKey(s, o)
  \/ OrphansDone(s)
  \/ findReclaimableOriginals(s)
  \/ ReclaimDone(s)
  \/ \E p \in Row \X Object : ClearSource(s, p)
  \/ SweepDies(s)

Next ==
  \/ Tick
  \/ \E o \in Object : Upload(o)
  \/ \E r \in Row, o \in Object : PublishRow(r, o)
  \/ \E r \in Row : Touch(r)
  \/ \E r \in Row : BeginEncode(r)
  \/ \E o \in Object : putObject(o)
  \/ RepointRow
  \/ EncodeStops
  \/ \E s \in Sweeper : SweepNext(s)

Spec == Init /\ [][Next]_vars

--------------------------------------------------------------------------------
(* Properties *)

\* Every variable has its type.
TypeOK ==
  /\ now \in Nat
  /\ bucket \subseteq written
  /\ written \subseteq Object
  /\ born \in [Object -> Nat]
  /\ maker \in [Object -> Row \cup {Client}]
  /\ rows \subseteq Row
  /\ row \in [Row -> RowData]
  /\ encode \in EncodeState
  /\ sweep \in [Sweeper -> Sweep]

\* The orphan sweep never deletes an object some row refers to, although
\* rows are published and repointed while it scans, lists and deletes
\* (sweepOrphans, mediaRetentionService.ts:118-157).
SweepSpares ==
  [][\A s \in Sweeper, o \in bucket \ bucket' :
       sweep[s].pc = "orphans" /\ o \in sweep[s].keys => o \notin Referenced]_vars

\* An object belongs to the row that was published with it or encoded into it.
Of(r, o) == row[r].upload = o \/ maker[o] = r

\* What a viewer plays is in the bucket, however many sweeps, reclaims and
\* encodes run, unless the object is another row's too: the clip both were
\* published with, or the rendition of one that the other was published with.
\* Then the reclaim of one row's original is the loss of the other's clip, and
\* nothing else loses one (reclaimOriginals, mediaRetentionService.ts:218-254).
PlayableKept ==
  \A r \in rows : row[r].url \notin bucket => \E q \in rows \ {r} : Of(q, row[r].url)

\* An upload that a row refers to, as its clip or as its original, is never
\* deleted before the retention time is over (findReclaimableOriginals,
\* mediaRetentionService.ts:198-216).
RetentionKept ==
  \A o \in Referenced :
    maker[o] = Client => o \in bucket \/ born[o] + RetainAge < now

================================================================================
