------------------------- MODULE ObjectStorageProofs -------------------------
(***************************************************************************)
(* Proofs about ObjectStorage for every set of objects, users and slots    *)
(* and every bound: rows and bytes agree after an undisturbed change, an   *)
(* undisturbed download is of one upload, and objects keep their owner.    *)
(***************************************************************************)
EXTENDS ObjectStorage, TLAPS

USE StorageAssumption

-----------------------------------------------------------------------------
(***************************************************************************)
(* The inductive invariant.                                                *)
(***************************************************************************)
Phases == {"idle", "put", "writing", "upsert", "remove", "drop", "row", "stat",
           "lookup", "render", "cache", "stream", "served"}
Caller == Users \cup {Anonymous}
File == [ino : Nat, content : 0..Mixed, whole : BOOLEAN]
Row == [id : 0..MaxUploads, owner : Caller, mime : 0..MaxUploads, size : 0..Mixed]
Op == [pc : Phases, obj : Objects, user : Caller, n : 0..Mixed, ino : Nat,
       size : 0..Mixed, row : Row, fp : File, whole : BOOLEAN, variant : BOOLEAN,
       alone : BOOLEAN]
Variant == [key : [obj : Objects, fp : File], content : 0..Mixed, whole : BOOLEAN]

\* Rows, files, cached variants and requests have their types.
TypeOK ==
  /\ row \in [Objects -> Row] /\ disk \in [Objects -> File]
  /\ cache \subseteq Variant
  /\ op \in [Slots -> Op]
  /\ uploads \in 0..MaxUploads /\ inodes \in Nat
  /\ clean \in [Objects -> BOOLEAN]

InChange(r) == op[r].pc \in {"writing", "upsert", "remove", "drop"}
Writing(r) == op[r].pc \in {"put", "writing"}
Inserting(r) == op[r].pc \in {"put", "writing", "upsert"}
HasFile(r) == op[r].pc \in {"lookup", "render", "cache", "stream"}

\* An upload has a number of its own, and what is stored names such numbers.
Numbered ==
  /\ \A r \in Slots : Inserting(r) =>
       op[r].n \in 1..uploads /\ \A s \in Slots \ {r} : Inserting(s) => op[s].n # op[r].n
  /\ \A o \in Objects :
       /\ row[o] # NoRow => row[o].mime \in 1..uploads
       /\ row[o].id \in 0..uploads
       /\ disk[o] # NoFile => disk[o].content \in 1..uploads \/ disk[o].content = Mixed
  /\ \A r \in Slots : op[r].row.id \in 0..uploads

\* The id of a row that is still to be inserted is nowhere yet.
IdsFresh ==
  \A r \in Slots : Inserting(r) =>
    /\ \A o \in Objects : row[o].id # op[r].n
    /\ \A s \in Slots : op[s].row.id # op[r].n

\* A delete goes on for the owner it has checked.
Checked ==
  \A r \in Slots : op[r].pc \in {"remove", "drop"} =>
    /\ op[r].row.owner = op[r].user
    /\ row[op[r].obj] # NoRow /\ row[op[r].obj].id = op[r].row.id
         => row[op[r].obj].owner = op[r].row.owner

\* Of two changes of an object, none is alone.
Sole ==
  \A r, s \in Slots :
    r # s /\ InChange(r) /\ InChange(s) /\ op[r].obj = op[s].obj => ~op[r].alone

\* How far a change that is alone has come.
Midway ==
  \A r \in Slots : op[r].alone =>
    LET f == disk[op[r].obj] IN
    /\ op[r].pc = "writing" => f.ino = op[r].ino /\ f.content = op[r].n /\ ~f.whole
    /\ op[r].pc = "upsert" => f.whole /\ f.content = op[r].n /\ op[r].size = op[r].n
    /\ op[r].pc = "drop" => f = NoFile

\* What a download that is alone has read is still so.
Undisturbed ==
  \A r \in Slots : op[r].alone /\ (HasFile(r) \/ op[r].pc \in {"row", "stat"}) =>
    /\ clean[op[r].obj] /\ Changing(op[r].obj) = {}
    /\ op[r].pc # "row" => row[op[r].obj] # NoRow /\ op[r].row = row[op[r].obj]
    /\ HasFile(r) => op[r].fp = disk[op[r].obj]

\* A file that looks complete is of an upload that nobody writes any more, so
\* that no path comes back to a state it has left.
Over(f) ==
  f.whole /\ f.content # Mixed =>
    f.content \in 1..uploads /\ \A r \in Slots : Writing(r) => op[r].n # f.content

\* A variant made for state f of a file is of f, if the file still is in f.
Faithful(o, f, bytes, whole) ==
  f.whole /\ f.content # Mixed /\ disk[o] = f => bytes = f.content /\ whole

Captured ==
  /\ \A o \in Objects : disk[o] # NoFile => Over(disk[o])
  /\ \A r \in Slots : HasFile(r) => Over(op[r].fp)
  /\ \A r \in Slots : op[r].pc = "cache" =>
       Faithful(op[r].obj, op[r].fp, op[r].n, op[r].whole)
  /\ \A e \in cache : Over(e.key.fp) /\ Faithful(e.key.obj, e.key.fp, e.content, e.whole)

IInv == /\ TypeOK /\ Numbered /\ IdsFresh /\ Checked /\ Sole /\ Midway
        /\ RowsMatchBytes /\ Undisturbed /\ Captured /\ DownloadsMatch

-----------------------------------------------------------------------------
\* The records that stand for nothing have their types.
LEMMA NothingTypes == NoRow \in Row /\ NoFile \in File /\ Idle \in Op
<1>1. NoRow \in Row
  BY DEF NoRow, Row, Caller, Mixed
<1>2. NoFile \in File
  BY DEF NoFile, File, Mixed
<1>3. (CHOOSE o \in Objects : TRUE) \in Objects
  OBVIOUS
<1> QED
  BY <1>1, <1>2, <1>3 DEF Idle, Op, Phases, Caller, Mixed

\* One slot goes on, from a phase in which it changes nothing to another one:
\* what remains to be shown is about that slot, and what it caches.
LEMMA ReaderStep ==
  ASSUME IInv, NEW r \in Slots, op' \in [Slots -> Op],
         \A s \in Slots \ {r} : op'[s] = op[s],
         UNCHANGED <<row, disk, uploads, inodes, clean>>,
         ~InChange(r), ~Inserting(r),
         op'[r].pc \in {"idle", "row", "stat", "lookup", "render", "cache", "stream", "served"},
         op'[r].row = NoRow \/ op'[r].row = op[r].row \/ \E o \in Objects : op'[r].row = row[o],
         op'[r].alone /\ op'[r].pc \notin {"idle", "served"} =>
           /\ clean[op'[r].obj] /\ Changing(op'[r].obj) = {}
           /\ op'[r].pc # "row" => row[op'[r].obj] # NoRow /\ op'[r].row = row[op'[r].obj]
           /\ op'[r].pc \notin {"row", "stat"} => op'[r].fp = disk[op'[r].obj],
         op'[r].pc \notin {"idle", "row", "stat", "served"} => Over(op'[r].fp),
         op'[r].pc = "cache" => Faithful(op'[r].obj, op'[r].fp, op'[r].n, op'[r].whole),
         op'[r].pc = "served" /\ op'[r].alone =>
           op'[r].whole /\ op'[r].n = op'[r].row.mime /\ op'[r].size = op'[r].row.mime,
         \A e \in cache' : \/ e \in cache
                           \/ /\ e \in Variant /\ Over(e.key.fp)
                              /\ Faithful(e.key.obj, e.key.fp, e.content, e.whole)
  PROVE  IInv'
<1> USE DEF IInv
<1>1. TypeOK'
  BY DEF TypeOK
<1>2. \A s \in Slots : /\ Inserting(s)' = Inserting(s)
                       /\ Writing(s)' = Writing(s)
                       /\ InChange(s)' = InChange(s)
  BY DEF Inserting, Writing, InChange
<1>3. \A o \in Objects : Changing(o)' = Changing(o)
  BY <1>2 DEF Changing, InChange
<1>4. op'[r].row.id \in 0..uploads /\ \A s \in Slots : Inserting(s) => op'[r].row.id # op[s].n
  BY DEF Numbered, IdsFresh, NoRow, TypeOK
<1>5. Numbered' /\ IdsFresh'
  <2>1. \A s \in Slots : Inserting(s)' => Inserting(s) /\ op'[s].n = op[s].n
    BY <1>2 DEF Inserting
  <2>2. \A s \in Slots : op'[s].row.id \in 0..uploads
    BY <1>4 DEF Numbered
  <2>3. Numbered'
    BY <2>1, <2>2 DEF Numbered
  <2>4. \A s, t \in Slots : Inserting(s) => op'[t].row.id # op[s].n
    BY <1>4 DEF IdsFresh
  <2> QED
    BY <2>1, <2>3, <2>4 DEF IdsFresh
<1>6. Checked' /\ Midway'
  BY DEF Checked, Midway
<1>7. Sole'
  BY <1>2 DEF Sole, InChange
<1>8. RowsMatchBytes'
  BY <1>3 DEF RowsMatchBytes
<1>9. Undisturbed'
  <2> SUFFICES ASSUME NEW s \in Slots, op'[s].alone,
                      HasFile(s)' \/ op'[s].pc \in {"row", "stat"}
               PROVE  /\ clean[op'[s].obj] /\ Changing(op[s].obj)' = {}
                      /\ op'[s].pc # "row" => /\ row[op'[s].obj] # NoRow
                                              /\ op'[s].row = row[op'[s].obj]
                      /\ HasFile(s)' => op'[s].fp = disk[op'[s].obj]
    BY DEF Undisturbed
  <2>1. op'[s] \in Op
    BY <1>1 DEF TypeOK
  <2>2. op'[s].obj \in Objects
    BY <2>1 DEF Op
  <2> HIDE DEF IInv
  <2>3. CASE s = r
    BY <1>3, <2>2, <2>3 DEF HasFile
  <2>4. CASE s # r
    <3>1. op'[s] = op[s]
      BY <2>4
    <3>2. Undisturbed
      BY DEF IInv
    <3> QED
      BY <1>3, <2>2, <3>1, <3>2 DEF Undisturbed, HasFile
  <2> QED
    BY <2>3, <2>4
<1>10. \A f : Over(f)' = Over(f)
  BY <1>2 DEF Over, Writing
<1>11. \A o, f, b, w : Faithful(o, f, b, w)' = Faithful(o, f, b, w)
  BY DEF Faithful
<1>12. Captured'
  BY <1>10, <1>11 DEF Captured, HasFile
<1>13. DownloadsMatch'
  BY DEF DownloadsMatch
<1> QED
  BY <1>1, <1>5, <1>6, <1>7, <1>8, <1>9, <1>12, <1>13

-----------------------------------------------------------------------------
\* Another slot is left as it is, or is alone no more.
Kept(s) ==
  /\ op'[s].pc = op[s].pc /\ op'[s].obj = op[s].obj /\ op'[s].user = op[s].user
  /\ op'[s].n = op[s].n /\ op'[s].ino = op[s].ino /\ op'[s].size = op[s].size
  /\ op'[s].row = op[s].row /\ op'[s].fp = op[s].fp /\ op'[s].whole = op[s].whole
  /\ op'[s].alone => op[s].alone

\* A change of object o by slot r begins, goes on or ends: of the others at work
\* on o none is alone, and those at work on another object notice nothing.
LEMMA ChangeStep ==
  ASSUME IInv, TypeOK', NEW r \in Slots, NEW o \in Objects,
         InChange(r) => op[r].obj = o,
         op'[r].obj = o \/ ~InChange(r)',
         op'[r].pc \in {"idle", "writing", "upsert", "remove", "drop"},
         \A s \in Slots \ {r} : Kept(s),
         InChange(r) \/ \A s \in Slots \ {r} : op[s].obj = o => ~op'[s].alone,
         InChange(r)' /\ op'[r].alone => (InChange(r) /\ op[r].alone) \/ Changing(o) = {},
         \A p \in Objects \ {o} : row'[p] = row[p] /\ disk'[p] = disk[p]
                                 /\ clean'[p] = clean[p]
  PROVE  /\ Sole' /\ Undisturbed' /\ DownloadsMatch'
         /\ \A p \in Objects \ {o} : Changing(p)' = Changing(p)
         /\ \A s \in Slots \ {r} : op'[s].alone /\ op[s].obj = o => ~InChange(s)
<1>1. \A p \in Objects \ {o} : Changing(p)' = Changing(p)
  BY DEF Changing, Kept, InChange
<1>2. InChange(r) => r \in Changing(o)
  BY DEF Changing, InChange
<1>3. \A s \in Slots \ {r} : op'[s].alone /\ op[s].obj = o => ~InChange(s)
  BY DEF IInv, Kept, Sole
<1>4. Sole'
  <2> SUFFICES ASSUME NEW s \in Slots, NEW t \in Slots, s # t, InChange(s)',
                      InChange(t)', op'[s].obj = op'[t].obj, op'[s].alone
               PROVE  FALSE
    BY DEF Sole
  <2>1. CASE s # r /\ t # r
    BY <2>1 DEF IInv, Sole, Kept, InChange
  <2>2. CASE s # r /\ t = r
    BY <1>3, <2>2 DEF Kept, InChange
  <2>3. CASE s = r /\ t # r
    <3>1. t \in Changing(o) /\ InChange(t) /\ op[t].obj = o
      BY <2>3 DEF Kept, Changing, InChange
    <3> QED
      BY <2>3, <3>1 DEF IInv, Sole, Kept
  <2> QED
    BY <2>1, <2>2, <2>3
<1>5. Undisturbed'
  <2> SUFFICES ASSUME NEW s \in Slots, op'[s].alone,
                      HasFile(s)' \/ op'[s].pc \in {"row", "stat"}
               PROVE  /\ clean'[op'[s].obj] /\ Changing(op[s].obj)' = {}
                      /\ op'[s].pc # "row" => /\ row'[op'[s].obj] # NoRow
                                              /\ op'[s].row = row'[op'[s].obj]
                      /\ HasFile(s)' => op'[s].fp = disk'[op'[s].obj]
    BY DEF Undisturbed
  <2>1. s # r
    BY DEF HasFile
  <2>2. Kept(s) /\ op[s].alone /\ (HasFile(s) \/ op[s].pc \in {"row", "stat"})
    BY <2>1 DEF Kept, HasFile
  <2>3. Undisturbed /\ op[s].obj \in Objects
    BY DEF IInv, TypeOK, Op
  <2>4. op[s].obj # o
    BY <1>2, <2>1, <2>2, <2>3 DEF Undisturbed
  <2> QED
    BY <1>1, <2>2, <2>3, <2>4 DEF Undisturbed, Kept, HasFile
<1>6. DownloadsMatch'
  BY DEF IInv, DownloadsMatch, Kept
<1> QED
  BY <1>1, <1>3, <1>4, <1>5, <1>6

\* Where no upload is started, no row inserted and no state of a file is
\* made that somebody may have seen, the numbers stay sound.
LEMMA NumbersStep ==
  ASSUME IInv, TypeOK', uploads' = uploads,
         \A s \in Slots : Inserting(s)' => Inserting(s) /\ op'[s].n = op[s].n,
         \A s \in Slots : \/ op'[s].row = op[s].row
                          \/ op'[s].row = NoRow
                          \/ \E o \in Objects : op'[s].row = row[o],
         \A o \in Objects : row'[o] = row[o] \/ row'[o] = NoRow,
         \A o \in Objects : \/ disk'[o] = disk[o]
                            \/ disk'[o] = NoFile
                            \/ disk'[o].content \in 1..uploads \cup {Mixed}
  PROVE  Numbered' /\ IdsFresh'
<1>1. Numbered'
  <2>1. \A s \in Slots : op'[s].row.id \in 0..uploads
    BY DEF IInv, TypeOK, Numbered, NoRow
  <2>2. \A o \in Objects : /\ row'[o] # NoRow => row'[o].mime \in 1..uploads
                           /\ row'[o].id \in 0..uploads
    BY DEF IInv, TypeOK, Numbered, NoRow
  <2>3. \A o \in Objects : disk'[o] # NoFile =>
          disk'[o].content \in 1..uploads \/ disk'[o].content = Mixed
    BY DEF IInv, Numbered
  <2> QED
    BY <2>1, <2>2, <2>3 DEF IInv, Numbered
<1>2. \A s \in Slots : Inserting(s) => op[s].n # 0
  BY DEF IInv, Numbered, TypeOK
<1>3. IdsFresh'
  BY <1>2 DEF IInv, IdsFresh, NoRow
<1> QED
  BY <1>1, <1>3

\* No path comes back to a state of a file that it has left.
LEMMA CapturedStep ==
  ASSUME IInv, TypeOK', cache' = cache, uploads' \in {uploads, uploads + 1},
         \A s \in Slots : Writing(s)' =>
           (Writing(s) /\ op'[s].n = op[s].n) \/ op'[s].n = uploads + 1,
         \A s \in Slots : HasFile(s)' => Kept(s),
         \A o \in Objects :
           \/ disk'[o] = disk[o]
           \/ disk'[o] = NoFile
           \/ ~disk'[o].whole \/ disk'[o].content = Mixed
           \/ Over(disk[o])' /\ \E r \in Slots : Writing(r) /\ op[r].n = disk'[o].content
  PROVE  Captured'
<1>1. \A f : Over(f) => Over(f)'
  BY DEF Over, IInv, TypeOK
<1>2. ~Over(NoFile)
  BY DEF NoFile, Over, Mixed
<1>3. \A o \in Objects : disk'[o] # NoFile => Over(disk[o])'
  BY <1>1 DEF IInv, Captured, Over
<1>4. \A o \in Objects : \A f, b, w : Over(f) /\ Faithful(o, f, b, w) => Faithful(o, f, b, w)'
  BY <1>2 DEF Over, Faithful
<1>5. \A s \in Slots : HasFile(s)' => HasFile(s) /\ Over(op[s].fp)'
  BY <1>1 DEF IInv, Captured, HasFile, Kept
<1>6. \A s \in Slots : op'[s].pc = "cache" => Faithful(op[s].obj, op[s].fp, op[s].n, op[s].whole)'
  BY <1>4 DEF IInv, Captured, HasFile, Kept, TypeOK, Op
<1>7. \A e \in cache : Over(e.key.fp)' /\ Faithful(e.key.obj, e.key.fp, e.content, e.whole)'
  BY <1>1, <1>4 DEF IInv, Captured, TypeOK, Variant
<1> QED
  BY <1>3, <1>5, <1>6, <1>7 DEF Captured

-----------------------------------------------------------------------------
\* The empty bucket has nothing to disagree.
THEOREM InitIInv == Init => IInv
<1> SUFFICES ASSUME Init
             PROVE  IInv
  OBVIOUS
<1>1. \A s \in Slots : op[s] = Idle /\ op[s].pc = "idle" /\ op[s].row = NoRow
  BY DEF Init, Idle
<1>2. TypeOK
  BY NothingTypes DEF Init, TypeOK
<1>3. Numbered /\ IdsFresh /\ Checked /\ Sole /\ Midway
  BY <1>1 DEF Init, Numbered, IdsFresh, Checked, Sole, Midway, Inserting, InChange, NoRow
<1>4. RowsMatchBytes /\ Undisturbed /\ DownloadsMatch
  BY <1>1 DEF Init, RowsMatchBytes, Undisturbed, DownloadsMatch, HasFile
<1>5. Captured
  BY <1>1 DEF Init, Captured, HasFile
<1> QED
  BY <1>2, <1>3, <1>4, <1>5 DEF IInv

\* handleUpload, up to its first await.
LEMMA UploadStarts ==
  ASSUME IInv, NEW r \in Slots, NEW u \in Users, NEW o \in Objects, StartUpload(r, u, o)
  PROVE  IInv'
<1> DEFINE new == [Idle EXCEPT !.pc = "put", !.obj = o, !.user = u, !.n = uploads + 1]
<1>1. UNCHANGED <<row, disk, cache, inodes, clean>> /\ op[r].pc \in {"idle", "served"}
      /\ uploads' = uploads + 1 /\ uploads' \in 1..MaxUploads /\ op' = [op EXCEPT ![r] = new]
  BY DEF StartUpload, Begin, Free, counters, IInv, TypeOK
<1>2. new \in Op /\ new.pc = "put" /\ new.n = uploads + 1 /\ new.row = NoRow
  <2>1. uploads + 1 \in 0..Mixed
    BY <1>1 DEF Mixed
  <2> QED
    BY <2>1, NothingTypes DEF Op, Phases, Caller, Idle
<1> HIDE DEF new
<1>3. \A s \in Slots : op'[s] = IF s = r THEN new ELSE op[s]
  BY <1>1 DEF IInv, TypeOK
<1>4. TypeOK'
  BY <1>1, <1>2 DEF IInv, TypeOK
<1>5. \A s \in Slots : (InChange(s)' <=> InChange(s)) /\ (HasFile(s)' => s # r)
                      /\ (Inserting(s)' <=> Inserting(s) \/ s = r)
                      /\ (InChange(s) \/ Inserting(s) => s # r)
  BY <1>1, <1>2, <1>3 DEF InChange, Inserting, HasFile
<1>6. \A p \in Objects : Changing(p)' = Changing(p)
  BY <1>3, <1>5 DEF Changing, InChange
<1>7. Numbered'
  <2>1. \A s \in Slots : Inserting(s)' =>
          op'[s].n \in 1..uploads'
          /\ \A t \in Slots \ {s} : Inserting(t)' => op'[t].n # op'[s].n
    BY <1>1, <1>2, <1>3, <1>5 DEF IInv, Numbered, TypeOK
  <2>2. \A p \in Objects : /\ row[p] # NoRow => row[p].mime \in 1..uploads'
                           /\ row[p].id \in 0..uploads'
                           /\ disk[p] # NoFile => disk[p].content \in 1..uploads' \cup {Mixed}
    BY <1>1 DEF IInv, Numbered, TypeOK
  <2>3. \A s \in Slots : op'[s].row.id \in 0..uploads'
    BY <1>1, <1>2, <1>3 DEF IInv, Numbered, TypeOK, NoRow
  <2> QED
    BY <1>1, <2>1, <2>2, <2>3 DEF Numbered
<1>8. IdsFresh'
  BY <1>1, <1>2, <1>3, <1>5 DEF IInv, IdsFresh, Numbered, TypeOK, NoRow
<1>9. Checked' /\ Midway'
  BY <1>1, <1>2, <1>3 DEF IInv, Checked, Midway
<1>10. Sole'
  BY <1>3, <1>5 DEF IInv, Sole
<1>11. RowsMatchBytes' /\ DownloadsMatch'
  BY <1>1, <1>2, <1>3, <1>6 DEF IInv, RowsMatchBytes, DownloadsMatch
<1>12. Undisturbed'
  <2> SUFFICES ASSUME NEW s \in Slots, op'[s].alone,
                      HasFile(s)' \/ op'[s].pc \in {"row", "stat"}
               PROVE  /\ clean[op'[s].obj] /\ Changing(op[s].obj)' = {}
                      /\ op'[s].pc # "row" => /\ row[op'[s].obj] # NoRow
                                              /\ op'[s].row = row[op'[s].obj]
                      /\ HasFile(s)' => op'[s].fp = disk[op'[s].obj]
    BY <1>1 DEF Undisturbed
  <2>1. s # r /\ op'[s] = op[s]
    BY <1>2, <1>3, <1>5
  <2>2. op[s].obj \in Objects
    BY DEF IInv, TypeOK, Op
  <2> QED
    BY <1>6, <2>1, <2>2 DEF IInv, Undisturbed, HasFile
<1>13. Captured'
  BY <1>1, <1>2, <1>3, <1>4, <1>5, CapturedStep DEF Writing, Kept
<1> QED
  BY <1>4, <1>7, <1>8, <1>9, <1>10, <1>11, <1>12, <1>13 DEF IInv

\* put() opens and truncates the file.
LEMMA FileOpens ==
  ASSUME IInv, NEW r \in Slots, NEW o \in Objects, op[r].obj = o, PutOpens(r)
  PROVE  IInv'
<1> DEFINE ino == IF disk[o] = NoFile THEN inodes + 1 ELSE disk[o].ino
           new == [op[r] EXCEPT !.pc = "writing", !.ino = ino, !.alone = Changing(o) = {}]
           file == [ino |-> ino, content |-> op[r].n, whole |-> FALSE]
<1>1. /\ UNCHANGED <<row, cache, uploads, clean>> /\ op[r].pc = "put" /\ inodes' = ino
      /\ disk' = [disk EXCEPT ![o] = file]
      /\ op' = [Disturbed(o) EXCEPT ![r] = new]
  BY DEF PutOpens
<1>2. /\ op[r] \in Op /\ op[r].n \in 1..uploads /\ op[r].n \in 0..Mixed
      /\ ino \in Nat /\ op[r].row.id \in 0..uploads
  BY <1>1 DEF IInv, TypeOK, Numbered, Inserting, Op, File
<1>3. /\ new \in Op /\ new.pc = "writing" /\ new.n = op[r].n /\ new.row = op[r].row
      /\ new.obj = o /\ new.ino = ino /\ new.alone = (Changing(o) = {})
  BY <1>2 DEF Op, Phases
<1>4. file \in File
  BY <1>2 DEF File
<1> HIDE DEF new, ino
<1>5. \A s \in Slots :
        op'[s] = IF s = r THEN new
                 ELSE IF op[s].obj = o THEN [op[s] EXCEPT !.alone = FALSE] ELSE op[s]
  BY <1>1 DEF Disturbed
<1>6. \A s \in Slots \ {r} : Kept(s) /\ op'[s] \in Op /\ (op[s].obj = o => ~op'[s].alone)
  <2> SUFFICES ASSUME NEW s \in Slots \ {r}
               PROVE  Kept(s) /\ op'[s] \in Op /\ (op[s].obj = o => ~op'[s].alone)
    OBVIOUS
  <2>1. op[s] \in Op
    BY DEF IInv, TypeOK
  <2>2. CASE op[s].obj = o
    <3>1. op'[s] = [op[s] EXCEPT !.alone = FALSE]
      BY <1>5, <2>2
    <3> QED
      BY <2>1, <3>1 DEF Kept, Op
  <2>3. CASE op[s].obj # o
    BY <1>5, <2>1, <2>3 DEF Kept
  <2> QED
    BY <2>2, <2>3
<1>7. TypeOK'
  <2>1. op' \in [Slots -> Op]
    BY <1>1, <1>3, <1>5, <1>6 DEF Disturbed
  <2> QED
    BY <1>1, <1>2, <1>4, <2>1 DEF IInv, TypeOK
<1>8. \A p \in Objects : disk'[p] = IF p = o THEN file ELSE disk[p]
  BY <1>1 DEF IInv, TypeOK
<1>9. /\ Sole' /\ Undisturbed' /\ DownloadsMatch'
      /\ \A p \in Objects \ {o} : Changing(p)' = Changing(p)
      /\ \A s \in Slots \ {r} : op'[s].alone /\ op[s].obj = o => ~InChange(s)
  <2>1. op'[r].obj = o /\ op'[r].pc = "writing" /\ ~InChange(r)
        /\ (op'[r].alone => Changing(o) = {})
    BY <1>1, <1>3, <1>5 DEF InChange
  <2>2. \A p \in Objects \ {o} : row'[p] = row[p] /\ disk'[p] = disk[p]
                                 /\ clean'[p] = clean[p]
    BY <1>1, <1>8
  <2> QED
    BY <1>2, <1>6, <1>7, <2>1, <2>2, ChangeStep
<1>r. /\ op'[r].pc = "writing" /\ op'[r].n = op[r].n /\ op'[r].row = op[r].row
      /\ op'[r].obj = o /\ op'[r].ino = ino /\ op'[r].alone = (Changing(o) = {})
  BY <1>3, <1>5
<1>f. \A p \in Objects : disk'[p] = disk[p] \/ (p = o /\ disk'[p].content = op[r].n
                             /\ ~disk'[p].whole /\ disk'[p].ino = ino)
  BY <1>8
<1>w. \A s \in Slots : /\ Inserting(s)' => Inserting(s) /\ op'[s].n = op[s].n
                       /\ Writing(s)' => Writing(s) /\ op'[s].n = op[s].n
                       /\ HasFile(s)' => s # r
                       /\ op'[s].row = op[s].row
  BY <1>1, <1>r, <1>6 DEF Inserting, Writing, HasFile, Kept
<1> HIDE DEF file
<1>10. Numbered' /\ IdsFresh'
  BY <1>1, <1>2, <1>7, <1>f, <1>w, NumbersStep
<1>11. Checked'
  <2> SUFFICES ASSUME NEW s \in Slots, op'[s].pc \in {"remove", "drop"}
               PROVE  /\ op'[s].row.owner = op'[s].user
                      /\ row'[op'[s].obj] # NoRow /\ row'[op'[s].obj].id = op'[s].row.id
                           => row'[op'[s].obj].owner = op'[s].row.owner
    BY DEF Checked
  <2>1. Kept(s)
    BY <1>6, <1>r
  <2> QED
    BY <1>1, <2>1 DEF IInv, Checked, Kept
<1>12. Midway'
  <2> SUFFICES ASSUME NEW s \in Slots, op'[s].alone
               PROVE  LET f == disk'[op'[s].obj] IN
                 /\ op'[s].pc = "writing" => f.ino = op'[s].ino /\ f.content = op'[s].n
                                              /\ ~f.whole
                 /\ op'[s].pc = "upsert" => /\ f.whole /\ f.content = op'[s].n
                                            /\ op'[s].size = op'[s].n
                 /\ op'[s].pc = "drop" => f = NoFile
    BY DEF Midway
  <2>1. CASE s = r
    BY <1>8, <1>r, <2>1 DEF file
  <2>2. CASE s # r
    BY <1>6, <1>8, <2>2 DEF IInv, TypeOK, Op, Midway, Kept
  <2> QED
    BY <2>1, <2>2
<1>13. RowsMatchBytes'
  <2>1. r \in Changing(o)'
    BY <1>3, <1>5 DEF Changing
  <2> QED
    BY <1>1, <1>8, <1>9, <2>1 DEF IInv, RowsMatchBytes
<1>14. Captured'
  BY <1>1, <1>6, <1>7, <1>f, <1>w, CapturedStep
<1> QED
  BY <1>7, <1>9, <1>10, <1>11, <1>12, <1>13, <1>14 DEF IInv

\* A change that is under way goes on by itself, or ends.
LEMMA ChangeGoesOn ==
  ASSUME IInv, NEW r \in Slots, NEW o \in Objects, op[r].obj = o, InChange(r),
         op' \in [Slots -> Op], \A s \in Slots \ {r} : op'[s] = op[s],
         \/ op'[r].pc = "idle"
         \/ /\ op'[r].obj = o /\ op'[r].alone = op[r].alone
            /\ op'[r].row = op[r].row /\ op'[r].n = op[r].n
            /\ \/ op'[r].pc = "upsert" /\ op[r].pc = "writing"
               \/ op'[r].pc = "drop" /\ op[r].pc = "remove",
         UNCHANGED <<cache, uploads, inodes>>,
         row' \in [Objects -> Row], disk' \in [Objects -> File],
         clean' \in [Objects -> BOOLEAN],
         \A p \in Objects \ {o} : row'[p] = row[p] /\ disk'[p] = disk[p]
                                  /\ clean'[p] = clean[p]
  PROVE  /\ TypeOK' /\ Sole' /\ Undisturbed' /\ DownloadsMatch'
         /\ \A p \in Objects \ {o} : Changing(p)' = Changing(p)
         /\ \A s \in Slots \ {r} : op[s].alone /\ op[s].obj = o => ~InChange(s)
         /\ \A s \in Slots : Inserting(s)' => Inserting(s) /\ op'[s].n = op[s].n
         /\ \A s \in Slots : Writing(s)' => Writing(s) /\ op'[s].n = op[s].n /\ s # r
         /\ \A s \in Slots : HasFile(s)' => Kept(s)
<1>1. TypeOK'
  BY DEF IInv, TypeOK
<1>2. \A s \in Slots \ {r} : Kept(s)
  BY DEF Kept
<1>3. /\ Sole' /\ Undisturbed' /\ DownloadsMatch'
      /\ \A p \in Objects \ {o} : Changing(p)' = Changing(p)
      /\ \A s \in Slots \ {r} : op'[s].alone /\ op[s].obj = o => ~InChange(s)
  <2>1. op'[r].pc \in {"idle", "writing", "upsert", "remove", "drop"}
        /\ (op'[r].obj = o \/ ~InChange(r)')
    BY DEF InChange
  <2>2. InChange(r)' /\ op'[r].alone => op[r].alone
    BY DEF InChange
  <2> QED
    BY <1>1, <1>2, <2>1, <2>2, ChangeStep
<1>4. \A s \in Slots : /\ Inserting(s)' => Inserting(s) /\ op'[s].n = op[s].n
                       /\ Writing(s)' => Writing(s) /\ op'[s].n = op[s].n /\ s # r
                       /\ HasFile(s)' => s # r
  BY DEF Inserting, Writing, HasFile
<1> QED
  BY <1>1, <1>2, <1>3, <1>4

\* A step of a change leaves the others what they have got of theirs.
LEMMA MidwayStep ==
  ASSUME IInv, NEW r \in Slots, NEW o \in Objects, op[r].obj = o, InChange(r),
         \A s \in Slots \ {r} : op'[s] = op[s],
         \A p \in Objects \ {o} : disk'[p] = disk[p],
         op'[r].alone /\ op'[r].pc # "idle" =>
           /\ op'[r].obj = o /\ op'[r].pc # "writing"
           /\ op'[r].pc = "upsert" => /\ disk'[o].whole /\ disk'[o].content = op'[r].n
                                     /\ op'[r].size = op'[r].n
           /\ op'[r].pc = "drop" => disk'[o] = NoFile
  PROVE  Midway'
<1> SUFFICES ASSUME NEW s \in Slots, op'[s].alone
             PROVE  LET f == disk'[op'[s].obj] IN
               /\ op'[s].pc = "writing" => f.ino = op'[s].ino /\ f.content = op'[s].n
                                            /\ ~f.whole
               /\ op'[s].pc = "upsert" => /\ f.whole /\ f.content = op'[s].n
                                          /\ op'[s].size = op'[s].n
               /\ op'[s].pc = "drop" => f = NoFile
  BY DEF Midway
<1>1. CASE s = r
  BY <1>1
<1>2. CASE s # r
  <2>1. op'[s] = op[s] /\ op[s].obj \in Objects
    BY <1>2 DEF IInv, TypeOK, Op
  <2>2. op[s].obj = o => ~InChange(s)
    BY <1>2, <2>1 DEF IInv, Sole
  <2> QED
    BY <2>1, <2>2 DEF IInv, Midway, InChange
<1> QED
  BY <1>1, <1>2

\* An upload, or a stat after it, that fails.
LEMMA FileFails ==
  ASSUME IInv, NEW r \in Slots, NEW o \in Objects, op[r].obj = o, InChange(r),
         End(r), clean' = [clean EXCEPT ![o] = FALSE],
         UNCHANGED <<row, disk, cache, uploads, inodes>>
  PROVE  IInv'
<1>1. /\ op' \in [Slots -> Op] /\ op'[r].pc = "idle" /\ op'[r].row = NoRow
      /\ \A s \in Slots \ {r} : op'[s] = op[s]
  <2>1. Idle \in Op /\ Idle.pc = "idle" /\ Idle.row = NoRow
    BY NothingTypes DEF Idle
  <2> QED
    BY <2>1 DEF End, Step, IInv, TypeOK
<1>2. /\ TypeOK' /\ Sole' /\ Undisturbed' /\ DownloadsMatch'
      /\ \A p \in Objects \ {o} : Changing(p)' = Changing(p)
      /\ \A s \in Slots : Inserting(s)' => Inserting(s) /\ op'[s].n = op[s].n
      /\ \A s \in Slots : Writing(s)' => Writing(s) /\ op'[s].n = op[s].n
      /\ \A s \in Slots : HasFile(s)' => Kept(s)
  <2>1. row' \in [Objects -> Row] /\ disk' \in [Objects -> File]
        /\ clean' \in [Objects -> BOOLEAN]
    BY DEF IInv, TypeOK
  <2>2. \A p \in Objects \ {o} : row'[p] = row[p] /\ disk'[p] = disk[p] /\ clean'[p] = clean[p]
    BY DEF IInv, TypeOK
  <2> QED
    BY ZenonT(40), <1>1, <2>1, <2>2, ChangeGoesOn
<1>3. Numbered' /\ IdsFresh'
  BY <1>1, <1>2, NumbersStep
<1>4. Checked'
  BY <1>1 DEF IInv, Checked
<1>5. Midway'
  BY <1>1, MidwayStep
<1>6. RowsMatchBytes'
  BY <1>2 DEF IInv, TypeOK, RowsMatchBytes
<1>7. Captured'
  BY <1>2, CapturedStep
<1> QED
  BY <1>2, <1>3, <1>4, <1>5, <1>6, <1>7 DEF IInv

\* The last byte is written and stat finds a file at the path, ours or not.
LEMMA FileEnds ==
  ASSUME IInv, NEW r \in Slots, NEW o \in Objects, op[r].obj = o, op[r].pc = "writing",
         disk[o] # NoFile, disk' \in [Objects -> File],
         \A p \in Objects \ {o} : disk'[p] = disk[p],
         disk[o].ino # op[r].ino => disk'[o] = disk[o],
         disk[o].ino = op[r].ino =>
           /\ disk'[o].whole /\ disk'[o].content \in {op[r].n, Mixed}
           /\ disk[o].content = op[r].n /\ ~disk[o].whole => disk'[o].content = op[r].n,
         Step(r, [op[r] EXCEPT !.pc = "upsert", !.size = disk'[o].content]),
         UNCHANGED <<row, cache, uploads, inodes, clean>>
  PROVE  IInv'
<1> DEFINE mine == disk[o].ino = op[r].ino
           c == disk'[o].content
<1>1. /\ InChange(r) /\ Writing(r) /\ op[r] \in Op /\ disk[o] \in File
      /\ op[r].n \in 1..uploads /\ disk[o].content \in 1..uploads \cup {Mixed}
  BY DEF IInv, TypeOK, Numbered, Inserting, InChange, Writing
<1>2. c \in 1..uploads \cup {Mixed} /\ c \in 0..Mixed
  BY <1>1 DEF Mixed, IInv, TypeOK
<1>3. /\ op' \in [Slots -> Op] /\ \A s \in Slots \ {r} : op'[s] = op[s]
      /\ op'[r].pc = "upsert" /\ op'[r].obj = o /\ op'[r].alone = op[r].alone
      /\ op'[r].row = op[r].row /\ op'[r].n = op[r].n /\ op'[r].user = op[r].user
      /\ op'[r].size = c
  <2> DEFINE new == [op[r] EXCEPT !.pc = "upsert", !.size = c]
  <2>1. /\ new \in Op /\ new.pc = "upsert" /\ new.obj = o /\ new.alone = op[r].alone
        /\ new.row = op[r].row /\ new.n = op[r].n /\ new.user = op[r].user /\ new.size = c
    BY <1>1, <1>2 DEF Op, Phases
  <2>2. op' = [op EXCEPT ![r] = new]
    BY DEF Step
  <2> HIDE DEF new
  <2> QED
    BY <2>1, <2>2 DEF IInv, TypeOK
<1>4. /\ TypeOK' /\ Sole' /\ Undisturbed' /\ DownloadsMatch'
      /\ \A p \in Objects \ {o} : Changing(p)' = Changing(p)
      /\ \A s \in Slots : Inserting(s)' => Inserting(s) /\ op'[s].n = op[s].n
      /\ \A s \in Slots : Writing(s)' => Writing(s) /\ op'[s].n = op[s].n /\ s # r
      /\ \A s \in Slots : HasFile(s)' => Kept(s)
  <2>1. row' \in [Objects -> Row] /\ clean' \in [Objects -> BOOLEAN]
    BY DEF IInv, TypeOK
  <2> QED
    BY <1>1, <1>3, <2>1, ChangeGoesOn
<1>5. Numbered' /\ IdsFresh'
  <2>1. \A s \in Slots : op'[s].row = op[s].row
    BY <1>3
  <2>2. \A p \in Objects : disk'[p] = disk[p] \/ disk'[p].content \in 1..uploads \cup {Mixed}
    BY <1>2
  <2> QED
    BY <1>4, <2>1, <2>2, NumbersStep
<1>6. Checked'
  BY <1>3 DEF IInv, Checked
<1>7. Midway'
  <2>1. op[r].alone => mine /\ disk[o].content = op[r].n /\ ~disk[o].whole
    BY DEF IInv, Midway
  <2> QED
    BY <1>1, <1>3, <2>1, MidwayStep
<1>8. RowsMatchBytes'
  <2>1. r \in Changing(o)'
    BY <1>3 DEF Changing
  <2> QED
    BY <1>4, <2>1 DEF IInv, RowsMatchBytes
<1>9. Captured'
  <2>1. mine /\ c # Mixed => Over(disk[o])'
    <3> SUFFICES ASSUME mine, c # Mixed
                 PROVE  Over(disk[o])'
      OBVIOUS
    <3>1. \A s \in Slots : Writing(s)' => op'[s].n # op[r].n
      BY <1>1, <1>4 DEF IInv, Numbered, Inserting, Writing
    <3> QED
      BY <1>1, <3>1 DEF Over
  <2>2. \A p \in Objects :
           \/ disk'[p] = disk[p]
           \/ disk'[p].content = Mixed
           \/ Over(disk[p])' /\ \E t \in Slots : Writing(t) /\ op[t].n = disk'[p].content
    BY <1>1, <2>1
  <2> QED
    BY <1>4, <2>2, CapturedStep
<1> QED
  BY <1>4, <1>5, <1>6, <1>7, <1>8, <1>9 DEF IInv

\* A slot that ends is idle.
LEMMA Ends ==
  ASSUME IInv, NEW r \in Slots, End(r)
  PROVE  /\ op' \in [Slots -> Op] /\ op'[r].pc = "idle" /\ op'[r].row = NoRow
         /\ op'[r] = Idle
         /\ \A s \in Slots \ {r} : op'[s] = op[s]
<1>1. Idle \in Op /\ Idle.pc = "idle" /\ Idle.row = NoRow
  BY NothingTypes DEF Idle
<1> QED
  BY <1>1 DEF End, Step, IInv, TypeOK

\* The row is written: of this upload, but for the id and owner it may have had.
LEMMA RowWritten ==
  ASSUME IInv, NEW r \in Slots, NEW o \in Objects, op[r].obj = o, op[r].pc = "upsert",
         End(r), row' = [row EXCEPT ![o] = Upserted(r)],
         clean' = [clean EXCEPT ![o] = op[r].alone],
         UNCHANGED <<disk, cache, uploads, inodes>>
  PROVE  IInv'
<1> DEFINE new == Upserted(r)
<1>1. /\ InChange(r) /\ Inserting(r) /\ op[r] \in Op /\ row[o] \in Row
      /\ op[r].n \in 1..uploads /\ op[r].n \in 0..MaxUploads
      /\ op[r].alone \in BOOLEAN /\ uploads \in Nat
  BY DEF IInv, TypeOK, Numbered, Inserting, InChange, Op
<1>2. /\ new \in Row /\ new.mime = op[r].n /\ new.size = op[r].size
      /\ row[o] = NoRow => new.id = op[r].n
      /\ row[o] # NoRow => new.id = row[o].id /\ new.owner = row[o].owner
  BY <1>1 DEF Upserted, Row, Op, Caller
<1> HIDE DEF new
<1>3. new # NoRow
  BY <1>1, <1>2 DEF NoRow
<1>4. /\ \A p \in Objects \ {o} : row'[p] = row[p] /\ clean'[p] = clean[p]
      /\ row'[o] = new /\ clean'[o] = op[r].alone
      /\ row' \in [Objects -> Row] /\ clean' \in [Objects -> BOOLEAN]
      /\ disk' \in [Objects -> File]
  BY <1>1, <1>2 DEF IInv, TypeOK, new
<1>5. /\ op' \in [Slots -> Op] /\ op'[r].pc = "idle" /\ op'[r].row = NoRow
      /\ \A s \in Slots \ {r} : op'[s] = op[s]
  BY Ends
<1>6. /\ TypeOK' /\ Sole' /\ Undisturbed' /\ DownloadsMatch'
      /\ \A p \in Objects \ {o} : Changing(p)' = Changing(p)
      /\ \A s \in Slots : Writing(s)' => Writing(s) /\ op'[s].n = op[s].n
      /\ \A s \in Slots : HasFile(s)' => Kept(s)
  BY <1>1, <1>4, <1>5, ChangeGoesOn
<1>7. \A s \in Slots : Inserting(s)' => s # r /\ Inserting(s) /\ op'[s] = op[s]
  BY <1>5 DEF Inserting
<1>8. Numbered'
  <2>1. \A s \in Slots : op'[s].row.id \in 0..uploads
    BY <1>1, <1>5 DEF IInv, Numbered, NoRow
  <2>2. \A p \in Objects : /\ row'[p] # NoRow => row'[p].mime \in 1..uploads
                           /\ row'[p].id \in 0..uploads
    BY <1>1, <1>2, <1>4 DEF IInv, Numbered
  <2>3. \A s \in Slots : Inserting(s)' =>
          op'[s].n \in 1..uploads
          /\ \A t \in Slots \ {s} : Inserting(t)' => op'[t].n # op'[s].n
    BY <1>7 DEF IInv, Numbered
  <2> QED
    BY <2>1, <2>2, <2>3 DEF IInv, Numbered
<1>9. IdsFresh'
  <2> SUFFICES ASSUME NEW s \in Slots, Inserting(s)'
               PROVE  /\ \A p \in Objects : row'[p].id # op'[s].n
                      /\ \A t \in Slots : op'[t].row.id # op'[s].n
    BY DEF IdsFresh
  <2>1. s # r /\ Inserting(s) /\ op'[s] = op[s] /\ op[s].n # op[r].n /\ op[s].n \in 1..uploads
    BY <1>1, <1>7 DEF IInv, Numbered
  <2>2. \A p \in Objects : row'[p].id # op'[s].n
    BY <1>2, <1>4, <2>1 DEF IInv, IdsFresh
  <2>3. \A t \in Slots : op'[t].row.id # op'[s].n
    BY <1>1, <1>5, <2>1 DEF IInv, IdsFresh, NoRow
  <2> QED
    BY <2>2, <2>3
<1>10. Checked'
  <2> SUFFICES ASSUME NEW s \in Slots, op'[s].pc \in {"remove", "drop"}
               PROVE  /\ op'[s].row.owner = op'[s].user
                      /\ row'[op'[s].obj] # NoRow /\ row'[op'[s].obj].id = op'[s].row.id
                           => row'[op'[s].obj].owner = op'[s].row.owner
    BY DEF Checked
  <2>1. op'[s] = op[s] /\ op[s].obj \in Objects /\ op[s].row.id # op[r].n
    BY <1>1, <1>5 DEF IInv, TypeOK, Op, IdsFresh
  <2> QED
    BY <1>2, <1>4, <2>1 DEF IInv, Checked
<1>11. Midway'
  BY <1>1, <1>5, MidwayStep
<1>12. RowsMatchBytes'
  <2>1. op[r].alone => disk[o].whole /\ disk[o].content = op[r].n /\ op[r].size = op[r].n
    BY DEF IInv, Midway
  <2> QED
    BY <1>2, <1>3, <1>4, <1>6, <2>1 DEF IInv, RowsMatchBytes
<1>13. Captured'
  BY <1>6, CapturedStep
<1> QED
  BY <1>6, <1>8, <1>9, <1>10, <1>11, <1>12, <1>13 DEF IInv

\* remove() unlinks the file.
LEMMA BytesGo ==
  ASSUME IInv, NEW r \in Slots, NEW o \in Objects, op[r].obj = o, RemoveBytes(r)
  PROVE  IInv'
<1>1. /\ op[r].pc = "remove" /\ InChange(r) /\ UNCHANGED <<row, cache, uploads, inodes, clean>>
      /\ disk' = [disk EXCEPT ![o] = NoFile] /\ NoFile \in File
  BY NothingTypes DEF RemoveBytes, counters, InChange
<1>2. /\ disk'[o] = NoFile /\ \A p \in Objects \ {o} : disk'[p] = disk[p]
      /\ disk' \in [Objects -> File] /\ row' \in [Objects -> Row]
      /\ clean' \in [Objects -> BOOLEAN]
  BY <1>1 DEF IInv, TypeOK
<1>3. /\ op' \in [Slots -> Op] /\ \A s \in Slots \ {r} : op'[s] = op[s]
      /\ op'[r].pc = "drop" /\ op'[r].obj = o /\ op'[r].alone = op[r].alone
      /\ op'[r].row = op[r].row /\ op'[r].n = op[r].n /\ op'[r].user = op[r].user
  <2> DEFINE new == [op[r] EXCEPT !.pc = "drop"]
  <2>1. op[r] \in Op
    BY DEF IInv, TypeOK
  <2>2. /\ new \in Op /\ new.pc = "drop" /\ new.obj = o /\ new.alone = op[r].alone
        /\ new.row = op[r].row /\ new.n = op[r].n /\ new.user = op[r].user
    BY <2>1 DEF Op, Phases
  <2>3. op' = [op EXCEPT ![r] = new]
    BY DEF RemoveBytes, Step
  <2> HIDE DEF new
  <2> QED
    BY <2>2, <2>3 DEF IInv, TypeOK
<1>4. /\ TypeOK' /\ Sole' /\ Undisturbed' /\ DownloadsMatch'
      /\ \A p \in Objects \ {o} : Changing(p)' = Changing(p)
      /\ \A s \in Slots : Inserting(s)' => Inserting(s) /\ op'[s].n = op[s].n
      /\ \A s \in Slots : Writing(s)' => Writing(s) /\ op'[s].n = op[s].n
      /\ \A s \in Slots : HasFile(s)' => Kept(s)
  BY <1>1, <1>2, <1>3, ChangeGoesOn
<1>5. Numbered' /\ IdsFresh'
  BY <1>1, <1>2, <1>3, <1>4, NumbersStep
<1>6. Checked'
  BY <1>1, <1>3 DEF IInv, Checked
<1>7. Midway'
  BY <1>1, <1>2, <1>3, MidwayStep
<1>8. RowsMatchBytes'
  <2>1. r \in Changing(o)'
    BY <1>3 DEF Changing
  <2> QED
    BY <1>1, <1>2, <1>4, <2>1 DEF IInv, RowsMatchBytes
<1>9. Captured'
  BY <1>1, <1>2, <1>4, CapturedStep
<1> QED
  BY <1>4, <1>5, <1>6, <1>7, <1>8, <1>9 DEF IInv

\* The DELETE of the object's row.
LEMMA RowDropped ==
  ASSUME IInv, NEW r \in Slots, NEW o \in Objects, op[r].obj = o, DropRow(r)
  PROVE  IInv'
<1>1. /\ op[r].pc = "drop" /\ InChange(r) /\ UNCHANGED <<disk, cache, uploads, inodes>>
      /\ row' = [row EXCEPT ![o] = NoRow] /\ NoRow \in Row
      /\ clean' = [clean EXCEPT ![o] = op[r].alone] /\ op[r].alone \in BOOLEAN
      /\ End(r)
  BY NothingTypes DEF DropRow, counters, InChange, IInv, TypeOK, Op
<1>2. /\ \A p \in Objects \ {o} : row'[p] = row[p] /\ clean'[p] = clean[p]
      /\ row'[o] = NoRow /\ clean'[o] = op[r].alone
      /\ row' \in [Objects -> Row] /\ clean' \in [Objects -> BOOLEAN]
      /\ disk' \in [Objects -> File]
  BY <1>1 DEF IInv, TypeOK
<1>3. /\ op' \in [Slots -> Op] /\ op'[r].pc = "idle" /\ op'[r].row = NoRow
      /\ \A s \in Slots \ {r} : op'[s] = op[s]
  BY <1>1, Ends
<1>4. /\ TypeOK' /\ Sole' /\ Undisturbed' /\ DownloadsMatch'
      /\ \A p \in Objects \ {o} : Changing(p)' = Changing(p)
      /\ \A s \in Slots : Inserting(s)' => Inserting(s) /\ op'[s].n = op[s].n
      /\ \A s \in Slots : Writing(s)' => Writing(s) /\ op'[s].n = op[s].n
      /\ \A s \in Slots : HasFile(s)' => Kept(s)
  BY <1>1, <1>2, <1>3, ChangeGoesOn
<1>5. Numbered' /\ IdsFresh'
  BY <1>1, <1>2, <1>3, <1>4, NumbersStep
<1>6. Checked'
  <2>1. \A s \in Slots : op[s].obj \in Objects
    BY DEF IInv, TypeOK, Op
  <2>2. \A p \in Objects : row'[p] = row[p] \/ row'[p] = NoRow
    BY <1>2
  <2>3. \A s \in Slots : op'[s].pc \in {"remove", "drop"} => s # r /\ op'[s] = op[s]
    BY <1>3
  <2> QED
    BY <2>1, <2>2, <2>3 DEF IInv, Checked
<1>7. Midway'
  BY <1>1, <1>3, MidwayStep
<1>8. RowsMatchBytes'
  <2>1. op[r].alone => disk[o] = NoFile
    BY <1>1 DEF IInv, Midway
  <2> QED
    BY <1>1, <1>2, <1>4, <2>1 DEF IInv, RowsMatchBytes
<1>9. Captured'
  BY <1>1, <1>4, CapturedStep
<1> QED
  BY <1>4, <1>5, <1>6, <1>7, <1>8, <1>9 DEF IInv

\* handleDelete, up to its first await.
LEMMA DeleteStarts ==
  ASSUME IInv, NEW r \in Slots, NEW u \in Users, NEW o \in Objects, StartDelete(r, u, o)
  PROVE  IInv'
<1> DEFINE new == [Idle EXCEPT !.pc = "remove", !.obj = o, !.user = u, !.row = row[o],
                               !.alone = Changing(o) = {}]
<1>1. /\ UNCHANGED <<row, disk, cache, uploads, inodes, clean>>
      /\ op[r].pc \in {"idle", "served"} /\ row[o] # NoRow /\ row[o].owner = u
      /\ op' = [Disturbed(o) EXCEPT ![r] = new]
  BY DEF StartDelete, Free, counters
<1>2. /\ new \in Op /\ new.pc = "remove" /\ new.obj = o /\ new.row = row[o] /\ new.user = u
      /\ new.alone = (Changing(o) = {})
  BY NothingTypes DEF IInv, TypeOK, Op, Phases, Caller, Idle
<1> HIDE DEF new
<1>3. \A s \in Slots :
        op'[s] = IF s = r THEN new
                 ELSE IF op[s].obj = o THEN [op[s] EXCEPT !.alone = FALSE] ELSE op[s]
  BY <1>1 DEF Disturbed
<1>4. \A s \in Slots \ {r} : Kept(s) /\ op'[s] \in Op /\ (op[s].obj = o => ~op'[s].alone)
  <2> SUFFICES ASSUME NEW s \in Slots \ {r}
               PROVE  Kept(s) /\ op'[s] \in Op /\ (op[s].obj = o => ~op'[s].alone)
    OBVIOUS
  <2>1. op[s] \in Op
    BY DEF IInv, TypeOK
  <2>2. CASE op[s].obj = o
    <3>1. op'[s] = [op[s] EXCEPT !.alone = FALSE]
      BY <1>3, <2>2
    <3> QED
      BY <2>1, <3>1 DEF Kept, Op
  <2>3. CASE op[s].obj # o
    BY <1>3, <2>1, <2>3 DEF Kept
  <2> QED
    BY <2>2, <2>3
<1>5. /\ op'[r].pc = "remove" /\ op'[r].obj = o /\ op'[r].row = row[o] /\ op'[r].user = u
      /\ op'[r].alone = (Changing(o) = {})
  BY <1>2, <1>3
<1>6. TypeOK'
  <2>1. op' \in [Slots -> Op]
    BY <1>1, <1>2, <1>3, <1>4 DEF Disturbed
  <2> QED
    BY <1>1, <2>1 DEF IInv, TypeOK
<1>7. /\ Sole' /\ Undisturbed' /\ DownloadsMatch'
      /\ \A p \in Objects \ {o} : Changing(p)' = Changing(p)
      /\ \A s \in Slots \ {r} : op'[s].alone /\ op[s].obj = o => ~InChange(s)
  <2>1. ~InChange(r) /\ (op'[r].alone => Changing(o) = {})
    BY <1>1, <1>5 DEF InChange
  <2> QED
    BY <1>1, <1>4, <1>5, <1>6, <2>1, ChangeStep
<1>8. \A s \in Slots : /\ Inserting(s)' => Inserting(s) /\ op'[s].n = op[s].n
                       /\ Writing(s)' => Writing(s) /\ op'[s].n = op[s].n
                       /\ HasFile(s)' => Kept(s)
                       /\ op'[s].row = op[s].row \/ op'[s].row = row[o]
  BY <1>4, <1>5 DEF Inserting, Writing, HasFile, Kept
<1>9. Numbered' /\ IdsFresh'
  BY <1>1, <1>6, <1>8, NumbersStep
<1>10. Checked'
  <2> SUFFICES ASSUME NEW s \in Slots, op'[s].pc \in {"remove", "drop"}
               PROVE  /\ op'[s].row.owner = op'[s].user
                      /\ row'[op'[s].obj] # NoRow /\ row'[op'[s].obj].id = op'[s].row.id
                           => row'[op'[s].obj].owner = op'[s].row.owner
    BY DEF Checked
  <2>1. CASE s = r
    BY <1>1, <1>5, <2>1
  <2>2. CASE s # r
    BY <1>1, <1>4, <2>2 DEF IInv, Checked, Kept
  <2> QED
    BY <2>1, <2>2
<1>11. Midway'
  BY <1>1, <1>4, <1>5 DEF IInv, Midway, Kept
<1>12. RowsMatchBytes'
  <2>1. r \in Changing(o)'
    BY <1>5 DEF Changing
  <2> QED
    BY <1>1, <1>7, <2>1 DEF IInv, RowsMatchBytes
<1>13. Captured'
  BY <1>1, <1>6, <1>8, CapturedStep
<1> QED
  BY <1>6, <1>7, <1>9, <1>10, <1>11, <1>12, <1>13 DEF IInv

\* The admin service deletes the bucket, and rows cascade.
LEMMA BucketGoes ==
  ASSUME IInv, handleDeleteBucket
  PROVE  IInv'
<1>1. /\ row' = [o \in Objects |-> NoRow]
      /\ op' = [r \in Slots |-> [op[r] EXCEPT !.alone = FALSE]]
      /\ clean' = [o \in Objects |-> clean[o] /\ row[o] = NoRow]
      /\ UNCHANGED <<disk, cache, uploads, inodes>>
  BY DEF handleDeleteBucket
<1>2. \A s \in Slots : Kept(s) /\ op'[s] \in Op /\ ~op'[s].alone
  <2> SUFFICES ASSUME NEW s \in Slots
               PROVE  Kept(s) /\ op'[s] \in Op /\ ~op'[s].alone
    OBVIOUS
  <2>1. op[s] \in Op /\ op'[s] = [op[s] EXCEPT !.alone = FALSE]
    BY <1>1 DEF IInv, TypeOK
  <2> QED
    BY <2>1 DEF Kept, Op
<1>3. TypeOK'
  <2>1. op' \in [Slots -> Op]
    BY <1>1, <1>2
  <2>2. row' \in [Objects -> Row] /\ clean' \in [Objects -> BOOLEAN]
    BY <1>1, NothingTypes DEF IInv, TypeOK
  <2> QED
    BY <1>1, <2>1, <2>2 DEF IInv, TypeOK
<1>4. \A s \in Slots : /\ Inserting(s)' => Inserting(s) /\ op'[s].n = op[s].n
                       /\ Writing(s)' => Writing(s) /\ op'[s].n = op[s].n
                       /\ HasFile(s)' => Kept(s)
                       /\ op'[s].row = op[s].row
  BY <1>2 DEF Inserting, Writing, HasFile, Kept
<1>5. Numbered' /\ IdsFresh'
  BY <1>1, <1>3, <1>4, NumbersStep
<1>6. Checked'
  <2> SUFFICES ASSUME NEW s \in Slots, op'[s].pc \in {"remove", "drop"}
               PROVE  op'[s].row.owner = op'[s].user /\ row'[op'[s].obj] = NoRow
    BY DEF Checked
  <2>1. op'[s].obj \in Objects
    BY <1>2 DEF Op
  <2>2. op'[s].pc = op[s].pc /\ op'[s].row = op[s].row /\ op'[s].user = op[s].user
    BY <1>2 DEF Kept
  <2>3. op[s].row.owner = op[s].user
    BY <2>2 DEF IInv, Checked
  <2> QED
    BY <1>1, <2>1, <2>2, <2>3
<1>7. Sole' /\ Midway' /\ Undisturbed' /\ DownloadsMatch'
  BY <1>2 DEF Sole, Midway, Undisturbed, DownloadsMatch
<1>8. RowsMatchBytes'
  <2>1. \A o \in Objects : Changing(o)' = Changing(o)
    BY <1>2 DEF Changing, Kept
  <2> QED
    BY <1>1, <2>1 DEF IInv, RowsMatchBytes
<1>9. Captured'
  BY <1>1, <1>3, <1>4, CapturedStep
<1> QED
  BY <1>3, <1>5, <1>6, <1>7, <1>8, <1>9 DEF IInv

\* The process dies: requests are gone, bytes stay as they are.
LEMMA CrashKeepsIInv ==
  ASSUME IInv, Crash
  PROVE  IInv'
<1>1. /\ op' = [r \in Slots |-> Idle] /\ Idle \in Op /\ Idle.pc = "idle" /\ Idle.row = NoRow
      /\ clean' = [o \in Objects |-> clean[o] /\ Changing(o) = {}]
      /\ UNCHANGED <<row, disk, cache, uploads, inodes>>
  BY NothingTypes DEF Crash, Idle
<1>2. \A s \in Slots : op'[s] \in Op /\ op'[s].pc = "idle" /\ op'[s].row = NoRow
  BY <1>1
<1>3. TypeOK'
  BY <1>1 DEF IInv, TypeOK
<1>4. \A s \in Slots : ~Inserting(s)' /\ ~Writing(s)' /\ ~HasFile(s)' /\ ~InChange(s)'
  BY <1>2 DEF Inserting, Writing, HasFile, InChange
<1>5. Numbered' /\ IdsFresh'
  BY <1>1, <1>2, <1>3, <1>4, NumbersStep
<1>6. Checked' /\ Sole' /\ Midway' /\ Undisturbed' /\ DownloadsMatch'
  BY <1>2, <1>4 DEF Checked, Sole, Midway, Undisturbed, DownloadsMatch
<1>7. RowsMatchBytes'
  BY <1>1 DEF IInv, RowsMatchBytes
<1>8. Captured'
  BY <1>1, <1>3, <1>4, CapturedStep
<1> QED
  BY <1>3, <1>5, <1>6, <1>7, <1>8 DEF IInv

\* A request that neither uploads nor deletes goes on to phase new.
LEMMA Goes ==
  ASSUME IInv, NEW r \in Slots, NEW new \in Op, Step(r, new)
  PROVE  /\ op' \in [Slots -> Op] /\ op'[r] = new
         /\ \A s \in Slots \ {r} : op'[s] = op[s]
  BY DEF Step, IInv, TypeOK

\* A download that ends with nothing.
LEMMA ReaderEnds ==
  ASSUME IInv, NEW r \in Slots, End(r), ~InChange(r), ~Inserting(r),
         UNCHANGED <<row, disk, uploads, inodes, clean, cache>>
  PROVE  IInv'
<1>1. op'[r].pc = "idle" /\ op'[r].row = NoRow /\ op' \in [Slots -> Op]
      /\ \A s \in Slots \ {r} : op'[s] = op[s]
  BY Ends
<1> QED
  BY <1>1, ReaderStep

\* handleDownload, up to its first await.
LEMMA DownloadStarts ==
  ASSUME IInv, NEW r \in Slots, NEW u \in Caller, NEW o \in Objects, NEW q \in Queries,
         StartDownload(r, u, o, q)
  PROVE  IInv'
<1> DEFINE variant == parseTransform(q) = "params"
           new == [Idle EXCEPT !.pc = "row", !.obj = o, !.variant = variant,
                               !.alone = clean[o] /\ Changing(o) = {}]
<1>1. /\ UNCHANGED <<row, disk, cache, uploads, inodes, clean>>
      /\ op[r].pc \in {"idle", "served"} /\ op' = [op EXCEPT ![r] = new]
  BY DEF StartDownload, Begin, Free, counters
<1>2. variant \in BOOLEAN
  OBVIOUS
<1> HIDE DEF variant
<1>3. /\ new \in Op /\ new.pc = "row" /\ new.obj = o /\ new.row = NoRow
      /\ new.alone => clean[o] /\ Changing(o) = {}
  BY <1>2, NothingTypes DEF IInv, TypeOK, Op, Phases, Caller, Idle
<1> HIDE DEF new
<1>4. /\ op' \in [Slots -> Op] /\ op'[r] = new
      /\ \A s \in Slots \ {r} : op'[s] = op[s]
  BY <1>1, <1>3 DEF IInv, TypeOK
<1>5. ~InChange(r) /\ ~Inserting(r)
  BY <1>1 DEF InChange, Inserting
<1> QED
  BY <1>1, <1>3, <1>4, <1>5, ReaderStep

\* The download reads the row.
LEMMA RowRead ==
  ASSUME IInv, NEW r \in Slots, NEW o \in Objects, op[r].obj = o, ReadRow(r)
  PROVE  IInv'
<1>1. /\ UNCHANGED <<row, disk, cache, uploads, inodes, clean>> /\ op[r].pc = "row"
      /\ op[r] \in Op /\ row[o] \in Row
  BY DEF ReadRow, counters, IInv, TypeOK
<1>2. ~InChange(r) /\ ~Inserting(r)
  BY <1>1 DEF InChange, Inserting
<1>3. CASE row[o] = NoRow
  BY <1>1, <1>2, <1>3, ReaderEnds DEF ReadRow
<1>4. CASE row[o] # NoRow
  <2> DEFINE new == [op[r] EXCEPT !.pc = "stat", !.row = row[o]]
  <2>1. /\ new \in Op /\ new.pc = "stat" /\ new.obj = o /\ new.row = row[o]
        /\ new.alone = op[r].alone
    BY <1>1 DEF Op, Phases
  <2>2. Step(r, new)
    BY <1>4 DEF ReadRow
  <2> HIDE DEF new
  <2>3. /\ op' \in [Slots -> Op] /\ op'[r] = new
        /\ \A s \in Slots \ {r} : op'[s] = op[s]
    BY <2>1, <2>2, Goes
  <2>4. op[r].alone => clean[o] /\ Changing(o) = {}
    BY <1>1 DEF IInv, Undisturbed
  <2> QED
    BY <1>1, <1>2, <1>4, <2>1, <2>3, <2>4, ReaderStep
<1> QED
  BY <1>3, <1>4

\* The download looks at the file.
LEMMA FileFound ==
  ASSUME IInv, NEW r \in Slots, NEW o \in Objects, op[r].obj = o, StatFile(r)
  PROVE  IInv'
<1>1. /\ UNCHANGED <<row, disk, cache, uploads, inodes, clean>> /\ op[r].pc = "stat"
      /\ op[r] \in Op /\ disk[o] \in File
  BY DEF StatFile, counters, IInv, TypeOK
<1>2. ~InChange(r) /\ ~Inserting(r)
  BY <1>1 DEF InChange, Inserting
<1>3. CASE disk[o] = NoFile
  BY <1>1, <1>2, <1>3, ReaderEnds DEF StatFile
<1>4. CASE disk[o] # NoFile
  <2> DEFINE new == [op[r] EXCEPT !.pc = IF op[r].variant THEN "lookup" ELSE "stream",
                                  !.fp = disk[o]]
  <2>1. /\ new \in Op /\ new.pc \in {"lookup", "stream"} /\ new.obj = o
        /\ new.row = op[r].row /\ new.alone = op[r].alone /\ new.fp = disk[o]
    BY <1>1 DEF Op, Phases
  <2>2. Step(r, new)
    BY <1>4 DEF StatFile
  <2> HIDE DEF new
  <2>3. /\ op' \in [Slots -> Op] /\ op'[r] = new
        /\ \A s \in Slots \ {r} : op'[s] = op[s]
    BY <2>1, <2>2, Goes
  <2>4. op[r].alone => /\ clean[o] /\ Changing(o) = {}
                       /\ row[o] # NoRow /\ op[r].row = row[o]
    BY <1>1 DEF IInv, Undisturbed
  <2>5. Over(disk[o])
    BY <1>4 DEF IInv, Captured
  <2> QED
    BY <1>1, <1>2, <1>4, <2>1, <2>3, <2>4, <2>5, ReaderStep
<1> QED
  BY <1>3, <1>4

\* What a download that is alone has found: a whole file of one upload, its row's.
LEMMA FoundOneUpload ==
  ASSUME IInv, NEW r \in Slots, HasFile(r), op[r].alone
  PROVE  LET o == op[r].obj IN
         /\ clean[o] /\ Changing(o) = {} /\ row[o] # NoRow /\ op[r].row = row[o]
         /\ op[r].fp = disk[o] /\ disk[o].whole /\ disk[o].content = row[o].mime
         /\ row[o].mime \in 1..uploads /\ disk[o].content # Mixed
<1>1. op[r].obj \in Objects
  BY DEF IInv, TypeOK, Op
<1>2. /\ clean[op[r].obj] /\ Changing(op[r].obj) = {} /\ row[op[r].obj] # NoRow
      /\ op[r].row = row[op[r].obj] /\ op[r].fp = disk[op[r].obj]
  BY DEF IInv, Undisturbed, HasFile
<1>3. disk[op[r].obj].whole /\ disk[op[r].obj].content = row[op[r].obj].mime
  BY <1>1, <1>2 DEF IInv, RowsMatchBytes
<1>4. row[op[r].obj].mime \in 1..uploads
  BY <1>1, <1>2 DEF IInv, Numbered
<1>5. row[op[r].obj].mime # Mixed
  BY <1>4 DEF IInv, TypeOK, Mixed
<1> QED
  BY <1>2, <1>3, <1>4, <1>5

\* The transform looks for a cached variant.
LEMMA VariantLookedUp ==
  ASSUME IInv, NEW r \in Slots, NEW o \in Objects, op[r].obj = o, LookUpVariant(r)
  PROVE  IInv'
<1> DEFINE key == transformCacheKey(op[r].obj, op[r].fp)
<1>1. /\ UNCHANGED <<row, disk, cache, uploads, inodes, clean>> /\ op[r].pc = "lookup"
      /\ op[r] \in Op
  BY DEF LookUpVariant, counters, IInv, TypeOK
<1>2. ~InChange(r) /\ ~Inserting(r) /\ HasFile(r) /\ Over(op[r].fp)
  BY <1>1 DEF InChange, Inserting, HasFile, IInv, Captured
<1>3. op[r].alone => /\ clean[o] /\ Changing(o) = {} /\ row[o] # NoRow /\ op[r].row = row[o]
                     /\ op[r].fp = disk[o] /\ disk[o].whole /\ disk[o].content = row[o].mime
                     /\ disk[o].content # Mixed
  BY <1>2, FoundOneUpload
<1>4. CASE Step(r, [op[r] EXCEPT !.pc = "render"])
  <2> DEFINE new == [op[r] EXCEPT !.pc = "render"]
  <2>1. /\ new \in Op /\ new.pc = "render" /\ new.obj = o
        /\ new.row = op[r].row /\ new.alone = op[r].alone /\ new.fp = op[r].fp
    BY <1>1 DEF Op, Phases
  <2>2. Step(r, new)
    BY <1>4
  <2> HIDE DEF new
  <2>3. /\ op' \in [Slots -> Op] /\ op'[r] = new
        /\ \A s \in Slots \ {r} : op'[s] = op[s]
    BY <2>1, <2>2, Goes
  <2> QED
    BY <1>1, <1>2, <1>3, <2>1, <2>3, ReaderStep
<1>5. ASSUME NEW e \in cache, e.key = key, Step(r, Served(r, e.content, e.content, e.whole))
      PROVE  IInv'
  <2> DEFINE new == Served(r, e.content, e.content, e.whole)
  <2>1. e \in Variant
    BY DEF IInv, TypeOK
  <2>2. /\ new \in Op /\ new.pc = "served" /\ new.obj = o /\ new.row = op[r].row
        /\ new.alone = op[r].alone /\ new.n = e.content /\ new.size = e.content
        /\ new.whole = e.whole
    BY <1>1, <2>1, NothingTypes DEF Served, Op, Phases, Variant
  <2>3. Step(r, new)
    BY <1>5
  <2> HIDE DEF new
  <2>4. /\ op' \in [Slots -> Op] /\ op'[r] = new
        /\ \A s \in Slots \ {r} : op'[s] = op[s]
    BY <2>2, <2>3, Goes
  <2>5. e.key.obj = o /\ e.key.fp = op[r].fp
    BY <1>5 DEF transformCacheKey
  <2>6. Faithful(o, op[r].fp, e.content, e.whole)
    BY <2>5 DEF IInv, Captured
  <2>7. op[r].alone => e.whole /\ e.content = op[r].row.mime
    BY <1>3, <2>6 DEF Faithful
  <2> QED
    BY <1>1, <1>2, <2>2, <2>4, <2>7, ReaderStep
<1> QED
  BY <1>4, <1>5 DEF LookUpVariant

\* The transform reads the bytes it renders.
LEMMA VariantRendered ==
  ASSUME IInv, NEW r \in Slots, NEW o \in Objects, op[r].obj = o, Render(r)
  PROVE  IInv'
<1>1. /\ UNCHANGED <<row, disk, cache, uploads, inodes, clean>> /\ op[r].pc = "render"
      /\ op[r] \in Op /\ disk[o] \in File
  BY DEF Render, counters, IInv, TypeOK
<1>2. ~InChange(r) /\ ~Inserting(r) /\ HasFile(r) /\ Over(op[r].fp)
  BY <1>1 DEF InChange, Inserting, HasFile, IInv, Captured
<1>3. op[r].alone => /\ clean[o] /\ Changing(o) = {} /\ row[o] # NoRow /\ op[r].row = row[o]
                     /\ op[r].fp = disk[o]
  BY <1>2, FoundOneUpload
<1>4. CASE Step(r, [op[r] EXCEPT !.pc = "cache", !.n = disk[o].content,
                                 !.whole = disk[o].whole])
  <2> DEFINE new == [op[r] EXCEPT !.pc = "cache", !.n = disk[o].content,
                                  !.whole = disk[o].whole]
  <2>1. /\ new \in Op /\ new.pc = "cache" /\ new.obj = o
        /\ new.row = op[r].row /\ new.alone = op[r].alone /\ new.fp = op[r].fp
        /\ new.n = disk[o].content /\ new.whole = disk[o].whole
    BY <1>1 DEF Op, Phases, File
  <2>2. Step(r, new)
    BY <1>4
  <2> HIDE DEF new
  <2>3. /\ op' \in [Slots -> Op] /\ op'[r] = new
        /\ \A s \in Slots \ {r} : op'[s] = op[s]
    BY <2>1, <2>2, Goes
  <2>4. Faithful(o, op[r].fp, disk[o].content, disk[o].whole)
    BY DEF Faithful
  <2> QED
    BY <1>1, <1>2, <1>3, <2>1, <2>3, <2>4, ReaderStep
<1>5. CASE Step(r, [op[r] EXCEPT !.pc = "stream"])
  <2> DEFINE new == [op[r] EXCEPT !.pc = "stream"]
  <2>1. /\ new \in Op /\ new.pc = "stream" /\ new.obj = o
        /\ new.row = op[r].row /\ new.alone = op[r].alone /\ new.fp = op[r].fp
    BY <1>1 DEF Op, Phases
  <2>2. Step(r, new)
    BY <1>5
  <2> HIDE DEF new
  <2>3. /\ op' \in [Slots -> Op] /\ op'[r] = new
        /\ \A s \in Slots \ {r} : op'[s] = op[s]
    BY <2>1, <2>2, Goes
  <2> QED
    BY <1>1, <1>2, <1>3, <2>1, <2>3, ReaderStep
<1> QED
  BY <1>4, <1>5 DEF Render

\* The rendered variant is cached.
LEMMA VariantCached ==
  ASSUME IInv, NEW r \in Slots, NEW o \in Objects, op[r].obj = o, CacheVariant(r)
  PROVE  IInv'
<1> DEFINE key == transformCacheKey(op[r].obj, op[r].fp)
           new == Served(r, op[r].n, op[r].n, op[r].whole)
<1>1. /\ UNCHANGED <<row, disk, uploads, inodes, clean>> /\ op[r].pc = "cache"
      /\ op[r] \in Op /\ op[r].fp \in File /\ op[r].n \in 0..Mixed /\ op[r].whole \in BOOLEAN
      /\ Step(r, new)
      /\ cache' = {e \in cache : e.key # key}
                    \cup {[key |-> key, content |-> op[r].n, whole |-> op[r].whole]}
  BY DEF CacheVariant, counters, IInv, TypeOK, Op
<1>2. ~InChange(r) /\ ~Inserting(r) /\ HasFile(r) /\ Over(op[r].fp)
      /\ Faithful(o, op[r].fp, op[r].n, op[r].whole)
  BY <1>1 DEF InChange, Inserting, HasFile, IInv, Captured
<1>3. op[r].alone => op[r].whole /\ op[r].n = op[r].row.mime
  BY <1>2, FoundOneUpload DEF Faithful
<1>4. /\ new \in Op /\ new.pc = "served" /\ new.obj = o /\ new.row = op[r].row
      /\ new.alone = op[r].alone /\ new.n = op[r].n /\ new.size = op[r].n
      /\ new.whole = op[r].whole
  BY <1>1, NothingTypes DEF Served, Op, Phases
<1> HIDE DEF new
<1>5. /\ op' \in [Slots -> Op] /\ op'[r] = new
      /\ \A s \in Slots \ {r} : op'[s] = op[s]
  BY <1>1, <1>4, Goes
<1>6. key \in [obj : Objects, fp : File] /\ key.obj = o /\ key.fp = op[r].fp
  BY <1>1 DEF transformCacheKey
<1> HIDE DEF key
<1>7. ASSUME NEW e \in cache', e \notin cache
      PROVE  /\ e \in Variant /\ Over(e.key.fp)
             /\ Faithful(e.key.obj, e.key.fp, e.content, e.whole)
  <2>1. e = [key |-> key, content |-> op[r].n, whole |-> op[r].whole]
    BY <1>1, <1>7
  <2>2. e \in Variant /\ e.key = key /\ e.content = op[r].n /\ e.whole = op[r].whole
    BY <1>1, <1>6, <2>1 DEF Variant
  <2> QED
    BY <1>2, <1>6, <2>2
<1> QED
  BY <1>1, <1>2, <1>3, <1>4, <1>5, <1>7, ReaderStep

\* The download opens the file it streams.
LEMMA FileStreamed ==
  ASSUME IInv, NEW r \in Slots, NEW o \in Objects, op[r].obj = o, Stream(r)
  PROVE  IInv'
<1>1. /\ UNCHANGED <<row, disk, cache, uploads, inodes, clean>> /\ op[r].pc = "stream"
      /\ op[r] \in Op /\ op[r].fp \in File /\ disk[o] \in File
  BY DEF Stream, counters, IInv, TypeOK, Op
<1>2. ~InChange(r) /\ ~Inserting(r) /\ HasFile(r)
  BY <1>1 DEF InChange, Inserting, HasFile
<1>3. CASE disk[o] = NoFile
  BY <1>1, <1>2, <1>3, ReaderEnds DEF Stream
<1>4. CASE disk[o] # NoFile
  <2> DEFINE new == Served(r, op[r].fp.content, disk[o].content, disk[o].whole)
  <2>1. /\ new \in Op /\ new.pc = "served" /\ new.obj = o /\ new.row = op[r].row
        /\ new.alone = op[r].alone /\ new.n = disk[o].content
        /\ new.size = op[r].fp.content /\ new.whole = disk[o].whole
    BY <1>1, NothingTypes DEF Served, Op, Phases, File
  <2>2. Step(r, new)
    BY <1>4 DEF Stream
  <2> HIDE DEF new
  <2>3. /\ op' \in [Slots -> Op] /\ op'[r] = new
        /\ \A s \in Slots \ {r} : op'[s] = op[s]
    BY <2>1, <2>2, Goes
  <2>4. op[r].alone => disk[o].whole /\ disk[o].content = op[r].row.mime
                       /\ op[r].fp.content = op[r].row.mime
    BY <1>2, FoundOneUpload
  <2> QED
    BY <1>1, <1>2, <2>1, <2>3, <2>4, ReaderStep
<1> QED
  BY <1>3, <1>4

-----------------------------------------------------------------------------
\* Every step of every request, and a crash, keeps the invariant (app.ts, fs.ts).
THEOREM NextIInv == IInv /\ [Next]_vars => IInv'
<1> SUFFICES ASSUME IInv, [Next]_vars
             PROVE  IInv'
  OBVIOUS
<1>1. ASSUME NEW r \in Slots, Serve(r)
      PROVE  IInv'
  <2> DEFINE o == op[r].obj
  <2>1. o \in Objects
    BY DEF IInv, TypeOK, Op
  <2>2. CASE PutOpens(r)
    BY <2>1, <2>2, FileOpens
  <2>3. CASE PutEnds(r)
    <3>1. /\ op[r].pc = "writing" /\ InChange(r)
          /\ UNCHANGED <<row, cache, uploads, inodes>>
      BY <2>3 DEF PutEnds, counters, InChange
    <3>2. CASE disk[o] = NoFile
      BY <2>1, <2>3, <3>1, <3>2, FileFails DEF PutEnds
    <3>3. CASE disk[o] # NoFile
      <4> DEFINE mine == disk[o].ino = op[r].ino
      <4>1. PICK c \in IF mine /\ (disk[o].content # op[r].n \/ disk[o].whole)
                         THEN {op[r].n, Mixed}
                         ELSE {IF mine THEN op[r].n ELSE disk[o].content} :
              /\ disk' = [disk EXCEPT ![o].content = c,
                                      ![o].whole = IF mine THEN TRUE ELSE @]
              /\ Step(r, [op[r] EXCEPT !.pc = "upsert", !.size = c])
              /\ UNCHANGED clean
        BY <2>3, <3>3 DEF PutEnds
      <4>2. /\ c \in {op[r].n, disk[o].content, Mixed}
            /\ ~mine => c = disk[o].content
            /\ mine => c \in {op[r].n, Mixed}
            /\ mine /\ disk[o].content = op[r].n /\ ~disk[o].whole => c = op[r].n
        OBVIOUS
      <4>3. disk[o] \in File /\ c \in 0..Mixed
        BY <2>1, <4>2 DEF IInv, TypeOK, Op, File, Mixed
      <4> DEFINE f == [disk[o] EXCEPT !.content = c, !.whole = IF mine THEN TRUE ELSE @]
      <4>4. /\ f \in File /\ f.content = c /\ (mine => f.whole)
            /\ ~mine => f = disk[o]
        BY <4>2, <4>3 DEF File
      <4>5. disk' = [disk EXCEPT ![o] = f]
        BY <4>1
      <4> HIDE DEF f
      <4>6. /\ disk' \in [Objects -> File] /\ disk'[o] = f
            /\ \A p \in Objects \ {o} : disk'[p] = disk[p]
        BY <2>1, <4>4, <4>5 DEF IInv, TypeOK
      <4>7. /\ Step(r, [op[r] EXCEPT !.pc = "upsert", !.size = disk'[o].content])
            /\ UNCHANGED <<row, cache, uploads, inodes, clean>>
        BY <3>1, <4>1, <4>4, <4>6
      <4>8. /\ ~mine => disk'[o] = disk[o]
            /\ mine => /\ disk'[o].whole /\ disk'[o].content \in {op[r].n, Mixed}
                       /\ disk[o].content = op[r].n /\ ~disk[o].whole
                            => disk'[o].content = op[r].n
        BY <4>2, <4>4, <4>6
      <4> QED
        BY <2>1, <3>1, <3>3, <4>6, <4>7, <4>8, FileEnds
    <3> QED
      BY <3>2, <3>3
  <2>4. CASE PutFails(r)
    <3>1. /\ op[r].pc = "writing" /\ InChange(r) /\ End(r)
          /\ clean' = [clean EXCEPT ![o] = FALSE]
          /\ UNCHANGED <<row, disk, cache, uploads, inodes>>
      BY <2>4 DEF PutFails, InChange
    <3> QED
      BY <2>1, <3>1, FileFails
  <2>5. CASE Upsert(r)
    <3>1. op[r].pc = "upsert" /\ InChange(r) /\ End(r) /\ UNCHANGED <<disk, cache, uploads, inodes>>
      BY <2>5 DEF Upsert, counters, InChange
    <3>2. CASE bucket = "none"
      BY <2>1, <2>5, <3>1, <3>2, FileFails DEF Upsert
    <3>3. CASE bucket # "none"
      BY <2>1, <2>5, <3>1, <3>3, RowWritten DEF Upsert
    <3> QED
      BY <3>2, <3>3
  <2>6. CASE RemoveBytes(r)
    BY <2>1, <2>6, BytesGo
  <2>7. CASE DropRow(r)
    BY <2>1, <2>7, RowDropped
  <2>8. CASE ReadRow(r)
    BY <2>1, <2>8, RowRead
  <2>9. CASE StatFile(r)
    BY <2>1, <2>9, FileFound
  <2>10. CASE LookUpVariant(r)
    BY <2>1, <2>10, VariantLookedUp
  <2>11. CASE Render(r)
    BY <2>1, <2>11, VariantRendered
  <2>12. CASE CacheVariant(r)
    BY <2>1, <2>12, VariantCached
  <2>13. CASE Stream(r)
    BY <2>1, <2>13, FileStreamed
  <2> QED
    BY <1>1, <2>2, <2>3, <2>4, <2>5, <2>6, <2>7, <2>8, <2>9, <2>10, <2>11, <2>12, <2>13
       DEF Serve
<1>2. ASSUME NEW r \in Slots, NEW o \in Objects, NEW u \in Users,
             StartUpload(r, u, o) \/ StartDelete(r, u, o)
      PROVE  IInv'
  BY <1>2, UploadStarts, DeleteStarts
<1>3. ASSUME NEW r \in Slots, NEW o \in Objects, NEW u \in Caller, NEW q \in Queries,
             StartDownload(r, u, o, q)
      PROVE  IInv'
  BY <1>3, DownloadStarts
<1>4. CASE UNCHANGED <<row, disk, cache, op, uploads, inodes, clean>>
  <2>1. \A o \in Objects : Changing(o)' = Changing(o)
    BY <1>4 DEF Changing
  <2>2. \A f : Over(f)' = Over(f)
    BY <1>4 DEF Over, Writing
  <2>3. \A o, f, b, w : Faithful(o, f, b, w)' = Faithful(o, f, b, w)
    BY <1>4 DEF Faithful
  <2>4. TypeOK' /\ Checked' /\ Sole' /\ Midway' /\ DownloadsMatch'
    BY <1>4 DEF IInv, TypeOK, Checked, Sole, Midway, DownloadsMatch, InChange
  <2>5. Numbered' /\ IdsFresh'
    BY <1>4 DEF IInv, Numbered, IdsFresh, Inserting
  <2>6. RowsMatchBytes'
    BY <1>4, <2>1 DEF IInv, RowsMatchBytes
  <2>7. Undisturbed'
    BY <1>4 DEF IInv, Undisturbed, Changing, HasFile
  <2>8. Captured'
    BY <1>4, <2>2, <2>3 DEF IInv, Captured, HasFile
  <2> QED
    BY <2>4, <2>5, <2>6, <2>7, <2>8 DEF IInv
<1>5. CASE \E o \in Objects : Sign(o) \/ Expire(o)
  BY <1>4, <1>5 DEF Sign, Expire, counters
<1>6. CASE \E kind \in {"public", "private"} : handleCreateBucket(kind)
  BY <1>4, <1>6 DEF handleCreateBucket, counters
<1>7. CASE UNCHANGED vars
  BY <1>4, <1>7 DEF vars
<1> QED
  BY <1>1, <1>2, <1>3, <1>5, <1>6, <1>7, BucketGoes, CrashKeepsIInv DEF Next, Caller

\* The invariant holds however uploads, deletes, downloads and crashes interleave.
THEOREM SpecIInv == Spec => []IInv
<1> QED
  BY InitIInv, NextIInv, PTL DEF Spec

\* Metadata and bytes agree at rest, after an undisturbed change: whatever races,
\* failed writes, crashes and bucket deletions went before.
THEOREM RowsAlwaysMatchBytes == Spec => []RowsMatchBytes
<1>1. IInv => RowsMatchBytes
  BY DEF IInv
<1> QED
  BY <1>1, SpecIInv, PTL

\* An undisturbed download gets the type, the length and the bytes of one upload.
THEOREM DownloadsAlwaysMatch == Spec => []DownloadsMatch
<1>1. IInv => DownloadsMatch
  BY DEF IInv
<1> QED
  BY <1>1, SpecIInv, PTL

\* Rows change in three ways only.
LEMMA RowsChange ==
  ASSUME IInv, [Next]_vars
  PROVE  \/ UNCHANGED row
         \/ bucket' = "none" /\ \A o \in Objects : row'[o] = NoRow
         \/ \E r \in Slots : /\ op[r].pc = "upsert"
                             /\ row' = [row EXCEPT ![op[r].obj] = Upserted(r)]
         \/ \E r \in Slots : /\ op[r].pc = "drop"
                             /\ row' = [row EXCEPT ![op[r].obj] = NoRow]
                             /\ \A s \in Slots \ {r} : op'[s] = op[s]
<1>1. ASSUME NEW r \in Slots, Upsert(r)
      PROVE  \/ UNCHANGED row
             \/ op[r].pc = "upsert" /\ row' = [row EXCEPT ![op[r].obj] = Upserted(r)]
  BY <1>1 DEF Upsert
<1>2. ASSUME NEW r \in Slots, DropRow(r)
      PROVE  /\ op[r].pc = "drop" /\ row' = [row EXCEPT ![op[r].obj] = NoRow]
             /\ \A s \in Slots \ {r} : op'[s] = op[s]
  BY <1>2, Ends DEF DropRow
<1>3. ASSUME NEW r \in Slots, Serve(r), ~Upsert(r), ~DropRow(r)
      PROVE  UNCHANGED row
  BY <1>3 DEF Serve, PutOpens, PutEnds, PutFails, RemoveBytes, ReadRow, StatFile,
              LookUpVariant, Render, CacheVariant, Stream
<1>4. ASSUME NEW r \in Slots, NEW o \in Objects, NEW u \in Caller, NEW q,
             StartUpload(r, u, o) \/ StartDelete(r, u, o) \/ StartDownload(r, u, o, q)
      PROVE  UNCHANGED row
  BY <1>4 DEF StartUpload, StartDelete, StartDownload
<1>5. ASSUME NEW o \in Objects, Sign(o) \/ Expire(o)
      PROVE  UNCHANGED row
  BY <1>5 DEF Sign, Expire
<1>6. ASSUME NEW kind, handleCreateBucket(kind)
      PROVE  UNCHANGED row
  BY <1>6 DEF handleCreateBucket
<1>7. CASE handleDeleteBucket
  BY <1>7 DEF handleDeleteBucket
<1>8. CASE Crash \/ UNCHANGED vars
  BY <1>8 DEF Crash, vars
<1> QED
  BY <1>1, <1>2, <1>3, <1>4, <1>5, <1>6, <1>7, <1>8 DEF Next, Caller

\* An object keeps its owner whoever overwrites it, and a delete takes away no
\* row of another user, but one made after it had checked the owner.
THEOREM OwnershipAlwaysHolds == Spec => OwnershipHolds
<1>1. ASSUME IInv, [Next]_vars, NEW o \in Objects,
             row[o] # NoRow, row'[o] # NoRow, row'[o].id = row[o].id
      PROVE  row'[o].owner = row[o].owner
  <2>1. CASE \E r \in Slots : /\ op[r].pc = "upsert"
                              /\ row' = [row EXCEPT ![op[r].obj] = Upserted(r)]
    <3>1. PICK r \in Slots : row' = [row EXCEPT ![op[r].obj] = Upserted(r)]
      BY <2>1
    <3>2. CASE op[r].obj = o
      BY <1>1, <3>1, <3>2 DEF IInv, TypeOK, Upserted
    <3>3. CASE op[r].obj # o
      BY <1>1, <3>1, <3>3 DEF IInv, TypeOK
    <3> QED
      BY <3>2, <3>3
  <2>2. CASE \E r \in Slots : row' = [row EXCEPT ![op[r].obj] = NoRow]
    BY <1>1, <2>2 DEF IInv, TypeOK
  <2> QED
    BY <1>1, <2>1, <2>2, RowsChange
<1>2. ASSUME IInv, [Next]_vars, NEW r \in Slots, op[r].pc = "drop",
             row[op[r].obj] # NoRow, row'[op[r].obj] = NoRow, bucket' # "none", op'[r] # op[r]
      PROVE  row[op[r].obj].owner = op[r].user \/ row[op[r].obj].id # op[r].row.id
  BY <1>2 DEF IInv, Checked
<1>3. IInv /\ [Next]_vars =>
        [/\ \A o \in Objects :
              row[o] # NoRow /\ row'[o] # NoRow /\ row'[o].id = row[o].id
                => row'[o].owner = row[o].owner
         /\ \A r \in Slots :
              op[r].pc = "drop" /\ row[op[r].obj] # NoRow /\ row'[op[r].obj] = NoRow
                => \/ bucket' = "none" \/ op'[r] = op[r]
                   \/ row[op[r].obj].owner = op[r].user
                   \/ row[op[r].obj].id # op[r].row.id]_vars
  BY <1>1, <1>2
<1> QED
  BY <1>3, SpecIInv, PTL DEF Spec, OwnershipHolds
=============================================================================
