---------------------------- MODULE ObjectStorage ----------------------------
(***************************************************************************)
(* The storage service (storage/src): metadata in Postgres (db.ts), bytes   *)
(* in files (store.ts), and handlers (handlers.ts) that touch the two in    *)
(* separate steps.  Every await is the end of a step, and requests           *)
(* interleave at all of them.                                               *)
(*                                                                          *)
(* An upload is a number: it stands for the bytes, size and mime type sent.  *)
(* A file is the inode it lives in, the upload whose bytes it has (Mixed     *)
(* when two were written into it at once), and whether they are all there.   *)
(* The fingerprint of a file (size and mtime) tells apart two states of a    *)
(* path: the model takes uploads of one path to differ in size or in the     *)
(* millisecond they end.  Names, paths, tokens and their validation are      *)
(* abstracted: a request here has passed them, and a refused one changes     *)
(* nothing.                                                                  *)
(***************************************************************************)
EXTENDS Naturals, FiniteSets

CONSTANTS Objects,      \* paths in the bucket
          Users,        \* authenticated users
          Anonymous,    \* a request without a bearer
          Slots,        \* requests handled at once
          Queries,      \* transform parameters of a download, see parseTransform
          MaxUploads,   \* bound on uploads
          MaxOps,       \* bound on requests
          MaxFaults,    \* bound on crashes and failed writes
          MaxBuckets    \* bound on deletions of the bucket

ASSUME StorageAssumption ==
  /\ Anonymous \notin Users /\ Objects # {}
  /\ Queries \subseteq [{"width", "height", "resize", "format", "quality"}
                            -> {"absent", "good", "bad"}]
  /\ MaxUploads \in Nat /\ MaxOps \in Nat /\ MaxFaults \in Nat /\ MaxBuckets \in Nat

VARIABLES
  bucket,     \* storage.buckets: "none", "public" or "private"
  row,        \* [Objects -> row]: storage.objects
  disk,       \* [Objects -> file]: the files under STORAGE_ROOT
  cache,      \* files under _transforms: set of [key, content, whole]
  links,      \* objects a live signed link was issued for
  op,         \* [Slots -> record]: requests being handled
  uploads, inodes, ops, faults, deletions,    \* counters
  clean       \* history: [Objects -> BOOLEAN], the last change was undisturbed

vars == <<bucket, row, disk, cache, links, op, uploads, inodes, ops, faults,
          deletions, clean>>
counters == <<inodes, faults, deletions>>

NoRow == [id |-> 0, owner |-> Anonymous, mime |-> 0, size |-> 0]
NoFile == [ino |-> 0, content |-> 0, whole |-> TRUE]
Mixed == MaxUploads + 1
Idle == [pc |-> "idle", obj |-> CHOOSE o \in Objects : TRUE, user |-> Anonymous,
         n |-> 0, ino |-> 0, size |-> 0, row |-> NoRow, fp |-> NoFile,
         whole |-> TRUE, variant |-> FALSE, alone |-> TRUE]

Init ==
  /\ bucket \in {"public", "private"}
  /\ row = [o \in Objects |-> NoRow]
  /\ disk = [o \in Objects |-> NoFile]
  /\ cache = {}
  /\ links = {}
  /\ op = [r \in Slots |-> Idle]
  /\ uploads = 0 /\ inodes = 0 /\ ops = 0 /\ faults = 0 /\ deletions = 0
  /\ clean = [o \in Objects |-> TRUE]

----------------------------------------------------------------------------
(* Requests come and go; history of who was disturbed by whom.              *)

Free(r) == op[r].pc \in {"idle", "served"}

\* From its first effect, or from the check it will act on, to its end, a
\* request is changing its object.
Changing(o) ==
  {r \in Slots : op[r].obj = o /\ op[r].pc \in {"writing", "upsert", "remove", "drop"}}

\* A change of o begins: nobody else at work on o is alone any more.
Disturbed(o) ==
  [r \in Slots |-> IF op[r].obj = o THEN [op[r] EXCEPT !.alone = FALSE] ELSE op[r]]

Begin(r, new) ==
  /\ Free(r) /\ ops < MaxOps
  /\ ops' = ops + 1
  /\ op' = [op EXCEPT ![r] = new]

Step(r, new) == op' = [op EXCEPT ![r] = new] /\ ops' = ops
End(r) == Step(r, Idle)

----------------------------------------------------------------------------
(* handleUpload.  Nothing in it looks at the owner of what it overwrites.   *)

\* getBucket has found the bucket.
StartUpload(r, u, o) ==
  /\ bucket # "none"
  /\ uploads < MaxUploads
  /\ uploads' = uploads + 1
  /\ Begin(r, [Idle EXCEPT !.pc = "put", !.obj = o, !.user = u, !.n = uploads + 1])
  /\ UNCHANGED <<bucket, row, disk, cache, links, counters, clean>>

\* createWriteStream truncates the file that is there, or makes one.
PutOpens(r) ==
  LET o == op[r].obj
      fresh == disk[o] = NoFile
      ino == IF fresh THEN inodes + 1 ELSE disk[o].ino IN
  /\ op[r].pc = "put"
  /\ disk' = [disk EXCEPT ![o] = [ino |-> ino, content |-> op[r].n, whole |-> FALSE]]
  /\ inodes' = ino \* inodes are numbered in the order they are made
  /\ op' = [Disturbed(o) EXCEPT ![r] =
       [op[r] EXCEPT !.pc = "writing", !.ino = ino, !.alone = Changing(o) = {}]]
  /\ UNCHANGED <<bucket, row, cache, links, ops, uploads, faults, deletions, clean>>

\* The last byte is written into the inode that was opened, and stat looks at
\* whatever has the name now: nothing (ENOENT, a 500), or a file, ours or not.
PutEnds(r) ==
  LET o == op[r].obj
      mine == disk[o].ino = op[r].ino IN
  /\ op[r].pc = "writing"
  /\ IF disk[o] = NoFile
       THEN /\ End(r)
            /\ clean' = [clean EXCEPT ![o] = FALSE]
            /\ UNCHANGED disk
       ELSE \E c \in IF mine /\ (disk[o].content # op[r].n \/ disk[o].whole)
                       THEN {op[r].n, Mixed}
                       ELSE {IF mine THEN op[r].n ELSE disk[o].content} :
              /\ disk' = [disk EXCEPT ![o].content = c,
                                      ![o].whole = IF mine THEN TRUE ELSE @]
              /\ Step(r, [op[r] EXCEPT !.pc = "upsert", !.size = c])
              /\ UNCHANGED clean
  /\ UNCHANGED <<bucket, row, cache, links, uploads, counters>>

\* The disk is full, say: what was written stays, and so does the row.
PutFails(r) ==
  /\ op[r].pc = "writing"
  /\ faults < MaxFaults
  /\ faults' = faults + 1
  /\ End(r)
  /\ clean' = [clean EXCEPT ![op[r].obj] = FALSE]
  /\ UNCHANGED <<bucket, row, disk, cache, links, uploads, inodes, deletions>>

\* Mutant: the upsert also sets the owner.
UpsertedOwned(r) ==
  [id |-> IF row[op[r].obj] = NoRow THEN op[r].n ELSE row[op[r].obj].id,
   owner |-> op[r].user, mime |-> op[r].n, size |-> op[r].size]

\* ON CONFLICT DO UPDATE leaves id and owner as they were.
Upserted(r) ==
  LET old == row[op[r].obj]
      new == [id |-> op[r].n, owner |-> op[r].user, mime |-> op[r].n, size |-> op[r].size]
  IN IF old = NoRow THEN new ELSE [new EXCEPT !.id = old.id, !.owner = old.owner]

\* upsertObject: the foreign key fails when the bucket is gone (a 500).
Upsert(r) ==
  LET o == op[r].obj IN
  /\ op[r].pc = "upsert"
  /\ End(r)
  /\ IF bucket = "none"
       THEN UNCHANGED row /\ clean' = [clean EXCEPT ![o] = FALSE]
       ELSE /\ row' = [row EXCEPT ![o] = Upserted(r)]
            /\ clean' = [clean EXCEPT ![o] = op[r].alone]
  /\ UNCHANGED <<bucket, disk, cache, links, uploads, counters>>

----------------------------------------------------------------------------
(* handleDelete: the owner is checked, then the bytes go, then the row.     *)

StartDelete(r, u, o) ==
  /\ row[o] # NoRow /\ row[o].owner = u
  /\ Free(r) /\ ops < MaxOps
  /\ ops' = ops + 1
  /\ op' = [Disturbed(o) EXCEPT ![r] =
       [Idle EXCEPT !.pc = "remove", !.obj = o, !.user = u, !.row = row[o],
                    !.alone = Changing(o) = {}]]
  /\ UNCHANGED <<bucket, row, disk, cache, links, uploads, counters, clean>>

RemoveBytes(r) ==
  /\ op[r].pc = "remove"
  /\ disk' = [disk EXCEPT ![op[r].obj] = NoFile]
  /\ Step(r, [op[r] EXCEPT !.pc = "drop"])
  /\ UNCHANGED <<bucket, row, cache, links, uploads, counters, clean>>

\* Mutant: the metadata is forgotten.
DropNothing(r) ==
  /\ op[r].pc = "drop"
  /\ End(r)
  /\ clean' = [clean EXCEPT ![op[r].obj] = op[r].alone]
  /\ UNCHANGED <<bucket, row, disk, cache, links, uploads, counters>>

\* deleteObject: whatever row has the name now.
DropRow(r) ==
  /\ op[r].pc = "drop"
  /\ row' = [row EXCEPT ![op[r].obj] = NoRow]
  /\ End(r)
  /\ clean' = [clean EXCEPT ![op[r].obj] = op[r].alone]
  /\ UNCHANGED <<bucket, disk, cache, links, uploads, counters>>

----------------------------------------------------------------------------
(* handleDownload, handleSign, handleSigned and openObject.                 *)

\* A public bucket is open, a private one takes a bearer or a live link.
MayRead(u, o) == bucket = "public" \/ u # Anonymous \/ o \in links

\* parseTransform: each parameter is absent, good or bad; a bad one is a 400,
\* and without a size or a format there is nothing to transform.
Asks(q, names) == \E p \in names : q[p] # "absent"
parseTransform(q) ==
  CASE \E p \in DOMAIN q : q[p] = "bad" -> "error"
    [] Asks(q, {"width", "height", "format"}) -> "params"
    [] OTHER -> "none"

StartDownload(r, u, o, q) ==
  LET variant == parseTransform(q) = "params" IN
  /\ parseTransform(q) # "error"
  /\ bucket # "none" /\ MayRead(u, o)
  /\ Begin(r, [Idle EXCEPT !.pc = "row", !.obj = o, !.variant = variant,
                           !.alone = clean[o] /\ Changing(o) = {}])
  /\ UNCHANGED <<bucket, row, disk, cache, links, uploads, counters, clean>>

\* getObject: 404 without a row.
ReadRow(r) ==
  LET o == op[r].obj IN
  /\ op[r].pc = "row"
  /\ IF row[o] = NoRow
       THEN End(r)
       ELSE Step(r, [op[r] EXCEPT !.pc = "stat", !.row = row[o]])
  /\ UNCHANGED <<bucket, row, disk, cache, links, uploads, counters, clean>>

\* stat: 404 without a file; an image (isTransformable; objects here are images)
\* with transform parameters goes by the
\* cache of variants.
StatFile(r) ==
  LET o == op[r].obj IN
  /\ op[r].pc = "stat"
  /\ IF disk[o] = NoFile
       THEN End(r)
       ELSE Step(r, [op[r] EXCEPT !.pc = IF op[r].variant THEN "lookup" ELSE "stream",
                                  !.fp = disk[o]])
  /\ UNCHANGED <<bucket, row, disk, cache, links, uploads, counters, clean>>

\* Mutant: the key is the object alone.
NameOnlyKey(o, fp) == [obj |-> o, fp |-> NoFile]

\* transformCacheKey (for one set of parameters).
transformCacheKey(o, fp) == [obj |-> o, fp |-> fp]

\* What the caller gets: a mime type from the row, a length from stat (of the
\* buffer, for a variant) and bytes.
Served(r, size, bytes, whole) ==
  [op[r] EXCEPT !.pc = "served", !.n = bytes, !.size = size, !.fp = NoFile,
                !.whole = whole]

\* getCached: a hit is served, whatever the file is now.
LookUpVariant(r) ==
  LET key == transformCacheKey(op[r].obj, op[r].fp)
      hits == {e \in cache : e.key = key} IN
  /\ op[r].pc = "lookup"
  /\ IF hits = {}
       THEN Step(r, [op[r] EXCEPT !.pc = "render"])
       ELSE \E e \in hits : Step(r, Served(r, e.content, e.content, e.whole))
  /\ UNCHANGED <<bucket, row, disk, cache, links, uploads, counters, clean>>

\* readAll and runTransform: the bytes that are there now.  Without a file, or
\* with bytes that are not an image, the original is served instead; a
\* truncated image may or may not render.
Render(r) ==
  LET o == op[r].obj IN
  /\ op[r].pc = "render"
  /\ \/ /\ disk[o] # NoFile
        /\ Step(r, [op[r] EXCEPT !.pc = "cache", !.n = disk[o].content,
                                 !.whole = disk[o].whole])
     \/ /\ ~disk[o].whole \/ disk[o].content = Mixed \/ disk[o] = NoFile
        /\ Step(r, [op[r] EXCEPT !.pc = "stream"])
  /\ UNCHANGED <<bucket, row, disk, cache, links, uploads, counters, clean>>

\* putCached overwrites the entry of the key; the variant is served.
CacheVariant(r) ==
  LET key == transformCacheKey(op[r].obj, op[r].fp) IN
  /\ op[r].pc = "cache"
  /\ cache' = {e \in cache : e.key # key}
              \cup {[key |-> key, content |-> op[r].n, whole |-> op[r].whole]}
  /\ Step(r, Served(r, op[r].n, op[r].n, op[r].whole))
  /\ UNCHANGED <<bucket, row, disk, links, uploads, counters, clean>>

\* The stream reads the file; when it is gone the answer breaks off.
Stream(r) ==
  LET o == op[r].obj IN
  /\ op[r].pc = "stream"
  /\ IF disk[o] = NoFile
       THEN End(r)
       ELSE Step(r, Served(r, op[r].fp.content, disk[o].content, disk[o].whole))
  /\ UNCHANGED <<bucket, row, disk, cache, links, uploads, counters, clean>>

\* handleSign, and a link's expiry.  A link names the object, not its row.
Sign(o) ==
  /\ bucket # "none" /\ row[o] # NoRow
  /\ links' = links \cup {o}
  /\ UNCHANGED <<bucket, row, disk, cache, op, ops, uploads, counters, clean>>

Expire(o) ==
  /\ o \in links
  /\ links' = links \ {o}
  /\ UNCHANGED <<bucket, row, disk, cache, op, ops, uploads, counters, clean>>

----------------------------------------------------------------------------
(* Buckets, and faults.                                                     *)

handleCreateBucket(kind) ==
  /\ bucket = "none"
  /\ bucket' = kind
  /\ UNCHANGED <<row, disk, cache, links, op, ops, uploads, counters, clean>>

\* The rows go with the bucket (ON DELETE CASCADE); the bytes and the cached
\* variants stay.
handleDeleteBucket ==
  /\ bucket # "none"
  /\ deletions < MaxBuckets
  /\ deletions' = deletions + 1
  /\ bucket' = "none"
  /\ row' = [o \in Objects |-> NoRow]
  /\ op' = [r \in Slots |-> [op[r] EXCEPT !.alone = FALSE]]
  /\ clean' = [o \in Objects |-> clean[o] /\ row[o] = NoRow]
  /\ UNCHANGED <<disk, cache, links, ops, uploads, inodes, faults>>

\* The process dies and is restarted: what was under way stays half done.
Crash ==
  /\ faults < MaxFaults
  /\ faults' = faults + 1
  /\ op' = [r \in Slots |-> Idle]
  /\ clean' = [o \in Objects |-> clean[o] /\ Changing(o) = {}]
  /\ UNCHANGED <<bucket, row, disk, cache, links, ops, uploads, inodes, deletions>>

----------------------------------------------------------------------------

Serve(r) ==
  \/ PutOpens(r) \/ PutEnds(r) \/ PutFails(r) \/ Upsert(r)
  \/ RemoveBytes(r) \/ DropRow(r)
  \/ ReadRow(r) \/ StatFile(r) \/ LookUpVariant(r) \/ Render(r)
  \/ CacheVariant(r) \/ Stream(r)

Next ==
  \/ \E r \in Slots :
       \/ Serve(r)
       \/ \E o \in Objects :
            \/ \E u \in Users : StartUpload(r, u, o) \/ StartDelete(r, u, o)
            \/ \E u \in Users \cup {Anonymous}, q \in Queries :
                 StartDownload(r, u, o, q)
  \/ \E o \in Objects : Sign(o) \/ Expire(o)
  \/ \E kind \in {"public", "private"} : handleCreateBucket(kind)
  \/ handleDeleteBucket
  \/ Crash

Spec == Init /\ [][Next]_vars

----------------------------------------------------------------------------
(* Properties.                                                              *)

\* Metadata and bytes agree at rest: when the last change of an object ran
\* undisturbed (no other upload or delete of it, bucket deletion, failed write
\* or crash in between) and none is under way, a row describes exactly the
\* bytes of the last upload, all of them, and without a row there are no bytes.
\* So one undisturbed upload or delete also heals whatever races left behind.
RowsMatchBytes ==
  \A o \in Objects :
    clean[o] /\ Changing(o) = {} =>
      IF row[o] = NoRow
        THEN disk[o] = NoFile
        ELSE /\ disk[o].whole
             /\ disk[o].content = row[o].mime /\ row[o].size = row[o].mime

\* A download that no change of the object overlaps, from a clean state, gets
\* the mime type, length and bytes of one upload, whether streamed or rendered,
\* and a cached variant is never one of bytes since replaced.
DownloadsMatch ==
  \A r \in Slots :
    op[r].pc = "served" /\ op[r].alone =>
      op[r].whole /\ op[r].n = op[r].row.mime /\ op[r].size = op[r].row.mime

\* An object belongs to who created it until it is deleted, whoever overwrites
\* it; and a delete takes away no row of another user, except one created after
\* it had checked the owner.
OwnershipHolds ==
  [][/\ \A o \in Objects :
          row[o] # NoRow /\ row'[o] # NoRow /\ row'[o].id = row[o].id
            => row'[o].owner = row[o].owner
     /\ \A r \in Slots :
          op[r].pc = "drop" /\ row[op[r].obj] # NoRow /\ row'[op[r].obj] = NoRow
            => \/ bucket' = "none" \/ op'[r] = op[r]
               \/ row[op[r].obj].owner = op[r].user
               \/ row[op[r].obj].id # op[r].row.id]_vars
=============================================================================
