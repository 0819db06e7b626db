------------------------------ MODULE LotEditor ------------------------------
(***************************************************************************)
(* admin-portal: the page on which an admin edits a lot, with its form and *)
(* its image uploader, in front of Catalogue.                              *)
(*                                                                         *)
(* The uploader keeps the images itself: it reads them once, with the page,*)
(* and from then on goes by the answers of its own calls, some of which    *)
(* get lost.  The module follows one such page, until its admin leaves it  *)
(* or another window changes which images the lot has.  The calls of other *)
(* windows, and those of a page that is gone, are Catalogue's, with any    *)
(* arguments.                                                              *)
(***************************************************************************)
EXTENDS Catalogue

VARIABLES
  page,         \* is the page open, and which images does it show?
  asked,        \* of each call, what the uploader asked and waits to hear
  unheard       \* history: images whose call did what the page heard it had not

editorVars == << vars, page, asked, unheard >>

\* An answer of "sent" is none yet.
Unasked == [kind |-> "none", image |-> None, answer |-> "sent"]

Pages == [open : BOOLEAN, shown : SUBSET Images]

Away == [open |-> FALSE, shown |-> {}]

Waits(t) == asked[t] # Unasked /\ asked[t].answer = "sent"

PageGone ==
  /\ page' = Away
  /\ asked' = [t \in Calls |-> Unasked]
  /\ unheard' = {}

PageStays == UNCHANGED << page, asked, unheard >>

-----------------------------------------------------------------------------
\* The page is rendered with the images that the lot has then.
Open ==
  /\ ~page.open
  /\ page' = [open |-> TRUE, shown |-> Listed(images)]
  /\ UNCHANGED << vars, asked, unheard >>

\* The admin goes elsewhere, or the form, once saved, back to the list of lots.
Leave ==
  /\ page.open
  /\ PageGone
  /\ UNCHANGED vars

\* The form requires a category, and sends everything it holds.  (If the lot's
\* auction is live it asks the admin once more before it does.)
FormSends(r) == r.category # None

\* What the page has a control for: adding an image, deleting one that it
\* shows, dragging one onto another (all are sent, in the new order), the form.
Offers(r) ==
  CASE r.kind = "confirm" -> TRUE
    [] r.kind = "delete"  -> r.image \in page.shown
    [] r.kind = "reorder" -> r.ids = page.shown /\ Cardinality(r.ids) > 1
    [] r.kind = "update"  -> FormSends(r)

\* Of an order or a change of the lot, the uploader hears nothing more.
PageAsks(t) ==
  /\ page.open /\ asked[t] = Unasked
  /\ Request(t)
  /\ Offers(call'[t])
  /\ asked' = IF call'[t].kind \notin {"confirm", "delete"} THEN asked
              ELSE [asked EXCEPT ![t] = [kind |-> call'[t].kind,
                                         image |-> call'[t].image, answer |-> "sent"]]
  /\ UNCHANGED << page, unheard >>

OtherAsks(t) ==
  /\ asked[t] = Unasked
  /\ Request(t)
  /\ PageStays

\* Call t ends.  Another window's may leave the page with images that the lot
\* no longer has, of which nobody tells it.
Replies(t, answer) ==
  IF Waits(t) THEN asked' = [asked EXCEPT ![t].answer = answer] /\ UNCHANGED << page, unheard >>
  ELSE IF Listed(images') # Listed(images) THEN PageGone
  ELSE PageStays

CallRuns(t) ==
  \/ Commit(t) /\ Replies(t, "ok")
  \/ /\ FindImages(t) \/ DeleteObjects(t) \/ SaveLot(t) \/ BeginSave(t) \/ Abort(t)
     /\ IF call'[t] = Idle THEN Replies(t, "failed") ELSE PageStays

\* Fault: the image goes from the page whether or not the call succeeded.
ShownAfter_Optimistic(a) ==
  CASE a.kind = "confirm" /\ a.answer = "ok" -> page.shown \cup {a.image}
    [] a.kind = "delete"                     -> page.shown \ {a.image}
    [] OTHER                                 -> page.shown

\* The uploader adds and removes an image when its call has succeeded.  Where
\* it puts them, which is no concern here, it decides by the numbers it was told.
ShownAfter(a) ==
  CASE a.kind = "confirm" /\ a.answer = "ok" -> page.shown \cup {a.image}
    [] a.kind = "delete" /\ a.answer = "ok"  -> page.shown \ {a.image}
    [] OTHER                                 -> page.shown

PageHears(t) ==
  /\ asked[t].answer # "sent"
  /\ page' = [page EXCEPT !.shown = ShownAfter(asked[t])]
  /\ asked' = [asked EXCEPT ![t] = Unasked]
  /\ UNCHANGED << vars, unheard >>

\* An answer does not arrive: a service or the portal dies after the commit,
\* or a connection breaks.  The uploader hears that its call has failed, and
\* shows the images as before.  (Whether it hears so after the call has ended
\* or before makes no difference to what it shows or offers.)
PageMisses(t) ==
  /\ asked[t].answer = "ok"
  /\ unheard' = unheard \cup {asked[t].image}
  /\ asked' = [asked EXCEPT ![t] = Unasked]
  /\ UNCHANGED << vars, page >>

\* The page of categories offers to delete each of them, and tells nobody when
\* that fails because lots are assigned; names, and who is whose parent, are
\* left out.
CategoryTree == (CreateCategory \/ DeleteCategory) /\ PageStays

-----------------------------------------------------------------------------
EditorInit ==
  Init /\ page = Away /\ asked = [t \in Calls |-> Unasked] /\ unheard = {}

EditorNext ==
  \/ \E t \in Calls :
       PageAsks(t) \/ OtherAsks(t) \/ CallRuns(t) \/ PageHears(t) \/ PageMisses(t)
  \/ Open \/ Leave
  \/ Upload /\ PageStays
  \/ CategoryTree

EditorSpec == EditorInit /\ [][EditorNext]_editorVars
=============================================================================
