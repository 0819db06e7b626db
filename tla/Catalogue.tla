----------------------------- MODULE Catalogue -----------------------------
(***************************************************************************)
(* apps/catalogue: one lot with its status, category and images, whose     *)
(* files are in R2.                                                        *)
(*                                                                         *)
(* A use case reads the lot and its images in two statements and saves     *)
(* both whole: an upsert of the row, and then a transaction that deletes   *)
(* the lot's images and inserts those of the caller.  A step is one await; *)
(* calls interleave between their awaits.                                  *)
(***************************************************************************)
EXTENDS Naturals, FiniteSets

CONSTANTS
  Images,       \* bound: the files uploaded for the lot, and their images
  Categories,
  Calls,        \* the HTTP calls that can be under way at one time
  None,         \* no category or image
  MayFail       \* may R2, or the database's transaction, fail by itself?

ASSUME CatalogueAssumption ==
  /\ IsFiniteSet(Images)
  /\ None \notin Images \cup Categories
  /\ MayFail \in BOOLEAN

VARIABLES
  lot,          \* the lot's row in lots
  images,       \* its rows in lot_images
  files,        \* how far each upload has come
  categories,   \* the table categories
  call,         \* what each call is doing, with its locals
  cut,          \* history: images whose deletion failed after R2 was asked
  overlapped    \* history: has a call saved images although another had
                \* written to the lot or its images since it read them?

vars == << lot, images, files, categories, call, cut, overlapped >>

-----------------------------------------------------------------------------
(***************************************************************************)
(* The lot as the use cases build it anew.                                 *)
(***************************************************************************)
LotActiveStatus == {"ACTIVE", "INACTIVE"}

NoImage == [listed |-> FALSE, order |-> 0, primary |-> FALSE]

NoImages == [i \in Images |-> NoImage]

Listed(rows) == {i \in Images : rows[i].listed}

Count(rows) == Cardinality(Listed(rows))

\* Appended; a new primary image takes the place of the old one.
Confirmed(rows, i, primary) ==
  [j \in Images |->
     IF j = i THEN [listed |-> TRUE, order |-> Count(rows), primary |-> primary]
     ELSE [rows[j] EXCEPT !.primary = @ /\ ~primary]]

\* Where the image comes among those that remain.  Two images of one order
\* are sorted as the SELECT returned them, in either order.
Ranks(rows) ==
  {f \in [Listed(rows) -> 0 .. Count(rows)] :
     /\ \A i, j \in Listed(rows) : rows[i].order < rows[j].order => f[i] < f[j]
     /\ {f[i] : i \in Listed(rows)} = 0 .. (Count(rows) - 1)}

Placed(rows, rank) ==
  [i \in Images |-> IF i \in DOMAIN rank THEN [rows[i] EXCEPT !.order = rank[i]]
                    ELSE NoImage]

\* Fault: the images that remain keep their numbers.
Deleted_NotRenumbered(rows, i) == {[rows EXCEPT ![i] = NoImage]}

\* Removed and renumbered; the first that remains inherits being primary.
Deleted(rows, i) ==
  LET rest == [rows EXCEPT ![i] = NoImage]
  IN  {[j \in Images |->
          IF rows[i].primary /\ j \in DOMAIN f /\ f[j] = 0
          THEN [Placed(rest, f)[j] EXCEPT !.primary = TRUE]
          ELSE Placed(rest, f)[j]] : f \in Ranks(rest)}

\* Fault: any known ids will do as the new order.
MayReorder_Some(rows, ids) == ids \subseteq Listed(rows)

MayReorder(rows, ids) == ids = Listed(rows)

\* The new order, a permutation of the ids the admin sends.
Reordered(rows, ids) ==
  {Placed(rows, f) : f \in {g \in [ids -> 0 .. (Cardinality(ids) - 1)] :
                              \A i, j \in ids : g[i] = g[j] => i = j}}

-----------------------------------------------------------------------------
Idle == [kind |-> "none", pc |-> "idle", image |-> None,
         primary |-> FALSE, ids |-> {}, status |-> "ACTIVE", category |-> None,
         seen |-> NoImages, snapshot |-> {}, stale |-> FALSE]

Goes(t, r) == call' = [call EXCEPT ![t] = r]

Answer(t) == Goes(t, Idle)

At(t, pc) == call[t].pc = pc

Holding(t) == call[t].pc \in {"images", "objects", "save", "delete", "commit"}

\* Call t goes on as r after a write, of the lot's row or of its images; what
\* the others hold counts as out of date then, even if the write has changed
\* nothing in it, and rows that are gone will not be found by their DELETE.
Overtakes(t, r, gone) ==
  call' = [s \in Calls |->
             IF s = t THEN r
             ELSE [call[s] EXCEPT !.stale = Holding(s), !.snapshot = @ \ gone]]

\* Fault: the lot is built without the status it had.
StatusOf_Forgotten(kind) == IF kind = "update" THEN LotActiveStatus ELSE {"ACTIVE"}

\* The status to be saved.  The lot that confirm builds is given none and so
\* becomes ACTIVE.
StatusOf(kind) ==
  CASE kind = "update"  -> LotActiveStatus
    [] kind = "confirm" -> {"ACTIVE"}
    [] OTHER            -> {lot.status}

CategoryOf(kind) ==
  IF kind = "update" THEN {lot.category} \cup categories ELSE {lot.category}

\* The first SELECT of findById; nothing a call does before depends on the state.
Reads(t, r) ==
  \E status \in StatusOf(r.kind), category \in CategoryOf(r.kind) :
    Goes(t, [r EXCEPT !.pc = "images", !.status = status, !.category = category])

\* What the admin's calls ask for.  An upload is confirmed once, as the portal
\* does; an update may change the status, the category, both or neither.
Confirm(t) ==
  \E i \in Images, primary \in BOOLEAN :
    /\ files[i] = "uploaded"
    /\ files' = [files EXCEPT ![i] = "confirmed"]
    /\ Reads(t, [Idle EXCEPT !.kind = "confirm", !.image = i, !.primary = primary])

Delete(t) ==
  /\ \E i \in Images :
       Reads(t, [Idle EXCEPT !.kind = "delete", !.image = i])
  /\ UNCHANGED files

Reorder(t) ==
  /\ \E ids \in SUBSET Images \ {{}} :
       Reads(t, [Idle EXCEPT !.kind = "reorder", !.ids = ids])
  /\ UNCHANGED files

Update(t) ==
  /\ Reads(t, [Idle EXCEPT !.kind = "update"])
  /\ UNCHANGED files

Request(t) ==
  /\ At(t, "idle")
  /\ Confirm(t) \/ Delete(t) \/ Reorder(t) \/ Update(t)
  /\ UNCHANGED << lot, images, categories, cut, overlapped >>

Holds(t, rows, pc) ==
  Goes(t, [call[t] EXCEPT !.pc = pc, !.seen = rows, !.ids = {}, !.primary = FALSE])

\* fetchImages, and what the use case makes of them.
FindImages(t) ==
  /\ At(t, "images")
  /\ \/ /\ call[t].kind = "confirm"
        /\ Holds(t, Confirmed(images, call[t].image, call[t].primary), "save")
     \/ /\ call[t].kind = "delete" /\ images[call[t].image].listed
        /\ Holds(t, images, "objects")
     \/ /\ call[t].kind = "reorder" /\ MayReorder(images, call[t].ids)
        /\ \E rows \in Reordered(images, call[t].ids) : Holds(t, rows, "save")
     \/ /\ call[t].kind = "update"
        /\ Holds(t, images, "save")
     \/ /\ \/ call[t].kind = "delete" /\ ~images[call[t].image].listed
           \/ call[t].kind = "reorder" /\ ~MayReorder(images, call[t].ids)
        /\ Answer(t)
  /\ UNCHANGED << lot, images, files, categories, cut, overlapped >>

\* A deletion that ends once R2 was asked may have taken the file, not the row.
Fails(t) ==
  /\ Answer(t)
  /\ cut' = IF call[t].kind = "delete" THEN cut \cup {call[t].image} ELSE cut

FileGoes(t) == files' = [files EXCEPT ![call[t].image] = "gone"]

\* The file and its thumbnail go before the row does.  R2 deletes or throws,
\* or throws although it has deleted.
DeleteObjects(t) ==
  /\ At(t, "objects")
  /\ \/ /\ FileGoes(t)
        /\ \E rows \in Deleted(call[t].seen, call[t].image) : Holds(t, rows, "save")
        /\ UNCHANGED cut
     \/ MayFail /\ Fails(t) /\ (FileGoes(t) \/ UNCHANGED files)
  /\ UNCHANGED << lot, images, categories, overlapped >>

\* save: the upsert of the row.  A category deleted since is rejected.
SaveLot(t) ==
  /\ At(t, "save")
  /\ \/ /\ call[t].category \in categories \cup {None}
        /\ lot' = [status |-> call[t].status, category |-> call[t].category]
        /\ Overtakes(t, [call[t] EXCEPT !.pc = "delete", !.status = "ACTIVE",
                                        !.category = None], {})
        /\ UNCHANGED cut
     \/ /\ call[t].category \notin categories \cup {None}
        /\ lot' = lot
        /\ Fails(t)
  /\ UNCHANGED << images, files, categories, overlapped >>

\* save: the DELETE finds the rows committed so far.
BeginSave(t) ==
  /\ At(t, "delete")
  /\ Goes(t, [call[t] EXCEPT !.pc = "commit", !.snapshot = Listed(images)])
  /\ UNCHANGED << lot, images, files, categories, cut, overlapped >>

\* save: rows that another transaction inserted meanwhile stay, and an INSERT
\* of the same id fails and undoes the transaction.  What this one deletes
\* and inserts anew, another's DELETE no longer finds.
Others(t) == Listed(images) \ call[t].snapshot

Commit(t) ==
  /\ At(t, "commit") /\ Others(t) \cap Listed(call[t].seen) = {}
  /\ images' = [i \in Images |-> IF i \in Others(t) THEN images[i]
                                 ELSE call[t].seen[i]]
  /\ Overtakes(t, Idle, call[t].snapshot)
  /\ overlapped' = (overlapped \/ call[t].stale)
  /\ UNCHANGED << lot, files, categories, cut >>

Abort(t) ==
  /\ At(t, "commit")
  /\ MayFail \/ Others(t) \cap Listed(call[t].seen) # {}
  /\ Fails(t)
  /\ UNCHANGED << lot, images, files, categories, overlapped >>

-----------------------------------------------------------------------------
\* The browser puts a file where the presigned URL says.
Upload ==
  /\ \E i \in Images :
       files[i] = "none" /\ files' = [files EXCEPT ![i] = "uploaded"]
  /\ UNCHANGED << lot, images, categories, call, cut, overlapped >>

\* One statement each; the foreign key keeps a category that the lot has.
CreateCategory ==
  /\ \E c \in Categories : categories' = categories \cup {c}
  /\ UNCHANGED << lot, images, files, call, cut, overlapped >>

DeleteCategory ==
  /\ \E c \in categories \ {lot.category} : categories' = categories \ {c}
  /\ UNCHANGED << lot, images, files, call, cut, overlapped >>

\* createLot: a lot without images, its status given or ACTIVE.
Init ==
  /\ lot \in [status : LotActiveStatus, category : {None}]
  /\ images = NoImages
  /\ files = [i \in Images |-> "none"]
  /\ categories = {}
  /\ call = [t \in Calls |-> Idle]
  /\ cut = {}
  /\ overlapped = FALSE

CallStep(t) ==
  \/ FindImages(t) \/ DeleteObjects(t) \/ SaveLot(t)
  \/ BeginSave(t) \/ Commit(t) \/ Abort(t)

Next ==
  \/ \E t \in Calls : Request(t) \/ CallStep(t)
  \/ Upload \/ CreateCategory \/ DeleteCategory

Spec == Init /\ [][Next]_vars
=============================================================================
