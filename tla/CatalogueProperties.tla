------------------------ MODULE CatalogueProperties ------------------------
(***************************************************************************)
(* What the admin who edits a lot, and the page that shows it, may rely on.*)
(***************************************************************************)
EXTENDS LotEditor

Rows == {images[i] : i \in Listed(images)}

\* As long as no call saved images with another's write to the lot or to its
\* images since it read them, the images are numbered 0, 1, ..., at most one is primary, and each
\* has its file, unless its deletion is under way or failed half-way.
ImagesSound ==
  ~overlapped =>
    /\ {row.order : row \in Rows} = 0 .. (Count(images) - 1)
    /\ \A i, j \in Listed(images) : images[i].primary /\ images[j].primary => i = j
    /\ \A i \in Listed(images) :
         \/ files[i] = "confirmed" \/ i \in cut
         \/ \E t \in Calls : call[t].kind = "delete" /\ call[t].image = i

ImagesLeave ==
  \A i \in Listed(images) \ Listed(images)' :
    \E t \in Calls :
      /\ At(t, "commit")
      /\ call[t].stale \/ (call[t].kind = "delete" /\ call[t].image = i)

StatusChanges ==
  lot'.status # lot.status =>
    \E t \in Calls :
      /\ At(t, "save")
      /\ \/ call[t].kind = "update" \/ call[t].stale
         \/ call[t].kind = "confirm" /\ lot'.status = "ACTIVE"

\* What one admin did to the lot, another's call does not undo by accident.  An
\* image leaves the lot only because an admin deletes it, or because a call
\* that read the images before another's write saves its own list over them:
\* not by a reordering that leaves it out, nor by a change of the lot.  And
\* the lot becomes active or inactive only when an admin's update says so,
\* when an upload is confirmed (which makes it active, whatever it was), or
\* when a call that read it before another's write saves it again.
LotKept == [][ImagesLeave /\ StatusChanges]_vars

\* Is the image one that the page should show, by what it heard of its calls?
Heard(i) == images[i].listed # (i \in unheard)

\* The uploader never reads the lot again, yet it differs from the lot in
\* exactly the images whose upload or deletion was committed and whose answer
\* was lost, and in no other, but for those whose upload or deletion is under
\* way: whichever calls fail half-way, and however its own calls overlap, as
\* long as no call saved images with another's write since it read them.
UploaderAgrees ==
  ~overlapped /\ page.open =>
    \A i \in Images :
      \/ i \in page.shown <=> Heard(i)
      \/ \E t \in Calls : asked[t].image = i
=============================================================================
