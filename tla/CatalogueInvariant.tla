-------------------------- MODULE CatalogueInvariant --------------------------
(***************************************************************************)
(* The inductive invariant of the lot's editor: what a call may still      *)
(* believe of the lot and its images between two of its awaits, and what   *)
(* the uploader may believe of them between the end of a call and its      *)
(* answer.                                                                 *)
(***************************************************************************)
EXTENDS CatalogueProperties

-----------------------------------------------------------------------------
(***************************************************************************)
(* Types.                                                                  *)
(***************************************************************************)
Image == [listed : BOOLEAN, order : Nat, primary : BOOLEAN]

Uploads == {"none", "uploaded", "confirmed", "gone"}

Kinds == {"none", "confirm", "delete", "reorder", "update"}

\* Where a call carries the images it is going to save.
Saving == {"save", "delete", "commit"}

Steps == {"idle", "images", "objects"} \cup Saving

CallState ==
  [kind : Kinds, pc : Steps, image : Images \cup {None}, primary : BOOLEAN,
   ids : SUBSET Images, status : LotActiveStatus,
   category : Categories \cup {None}, seen : [Images -> Image],
   snapshot : SUBSET Images, stale : BOOLEAN]

TypeOK ==
  /\ lot \in [status : LotActiveStatus, category : Categories \cup {None}]
  /\ images \in [Images -> Image]
  /\ files \in [Images -> Uploads]
  /\ categories \subseteq Categories
  /\ call \in [Calls -> CallState]
  /\ cut \subseteq Images
  /\ overlapped \in BOOLEAN

-----------------------------------------------------------------------------
(***************************************************************************)
(* The calls.                                                              *)
(***************************************************************************)
Confirming(t, i) == call[t].kind = "confirm" /\ call[t].image = i

\* The call has its image, and goes the way of its kind.
OnItsWay(t) ==
  LET c == call[t] IN
    /\ c.kind = "none" <=> c.pc = "idle"
    /\ c.kind \in {"confirm", "delete"} => c.image \in Images
    /\ c.pc = "objects" => c.kind = "delete" /\ c.seen[c.image].listed
    /\ c.kind = "confirm" /\ c.pc \in {"images", "save"} => c.status = "ACTIVE"

\* An image comes into the world by the one call that confirms it.
Unborn(i) ==
  /\ ~images[i].listed
  /\ \A t \in Calls : ~call[t].seen[i].listed /\ ~Confirming(t, i)

BornOnce(t) ==
  \A i \in Images :
    Confirming(t, i) =>
      /\ files[i] = "confirmed"
      /\ ~images[i].listed
      /\ \A s \in Calls \ {t} : ~call[s].seen[i].listed /\ ~Confirming(s, i)

\* The images there will be, when call t has been the next to save them.
Expected(t) ==
  LET c == call[t] IN
    CASE c.kind = "confirm" -> Listed(images) \cup {c.image}
      [] c.kind = "delete"  -> Listed(images) \ {c.image}
      [] OTHER              -> Listed(images)

\* What a call holds that no other call's write has put out of date.
UpToDate(t) ==
  LET c == call[t] IN
    ~c.stale =>
      /\ c.pc = "objects" => c.seen = images
      /\ c.pc \in Saving => Listed(c.seen) = Expected(t)
      /\ c.pc = "commit" => c.snapshot = Listed(images)
      /\ c.kind = "delete" /\ c.pc \in Saving => images[c.image].listed
      /\ c.kind \in {"delete", "reorder"} /\ c.pc \in {"images", "objects", "save"} =>
           c.status = lot.status

CallsSound ==
  /\ TypeOK
  /\ \A t \in Calls : OnItsWay(t) /\ BornOnce(t) /\ UpToDate(t)
  /\ \A i \in Images : files[i] \in {"none", "uploaded"} => Unborn(i)

-----------------------------------------------------------------------------
(***************************************************************************)
(* The images.                                                             *)
(***************************************************************************)
Numbered(rows) == {rows[i].order : i \in Listed(rows)} = 0 .. (Count(rows) - 1)

OnePrimary(rows) ==
  \A i, j \in Listed(rows) : rows[i].primary /\ rows[j].primary => i = j

InOrder(rows) == Numbered(rows) /\ OnePrimary(rows)

\* The file of a listed image is missing only if its deletion is past the
\* file, or ended there.
FileKept(i) ==
  \/ files[i] = "confirmed" \/ i \in cut
  \/ \E t \in Calls :
       call[t].kind = "delete" /\ call[t].image = i /\ call[t].pc \in Saving

LotSound ==
  /\ CallsSound
  /\ ~overlapped =>
       /\ InOrder(images)
       /\ \A t \in Calls :
            call[t].pc \in Saving /\ ~call[t].stale => InOrder(call[t].seen)
       /\ \A i \in Listed(images) : FileKept(i)

-----------------------------------------------------------------------------
(***************************************************************************)
(* The page.                                                               *)
(***************************************************************************)
Answers == [kind : {"none", "confirm", "delete"}, image : Images \cup {None},
            answer : {"sent", "ok", "failed"}]

EditorTypeOK ==
  page \in Pages /\ asked \in [Calls -> Answers] /\ unheard \subseteq Images

\* An image that has been confirmed, by a call that has ended.
Settled(i) ==
  files[i] \notin {"none", "uploaded"} /\ \A t \in Calls : ~Confirming(t, i)

\* The uploader waits for its own calls, each of an image that it may ask for.
AskedSound(t) ==
  LET a == asked[t] IN
    a # Unasked =>
      /\ page.open /\ a.kind \in {"confirm", "delete"} /\ a.image \in Images
      /\ a.answer = "sent" => call[t].kind = a.kind /\ call[t].image = a.image
      /\ a.kind = "delete" \/ a.answer # "sent" => Settled(a.image)
      /\ a.kind = "confirm" =>
           /\ a.image \notin page.shown \cup unheard
           /\ files[a.image] \notin {"none", "uploaded"}
           /\ \A s \in Calls : asked[s].image = a.image => s = t

\* The calls whose success, with an image, the page has yet to hear of.
Answered(i) == {t \in Calls : asked[t].image = i /\ asked[t].answer = "ok"}

\* Between the page and what it should show there is one answer on its way, or
\* none.  An image whose addition it did not hear of, it can ask nothing about.
InTouch(i) ==
  /\ \A s, t \in Answered(i) : s = t
  /\ (i \in page.shown <=> Heard(i)) <=> Answered(i) = {}
  /\ \A t \in Answered(i) : asked[t].kind = "delete" <=> i \in page.shown
  /\ i \in unheard /\ images[i].listed => \A t \in Calls : asked[t].image # i

EditorSound ==
  /\ LotSound
  /\ EditorTypeOK
  /\ \A t \in Calls : AskedSound(t)
  /\ \A i \in page.shown \cup unheard : page.open /\ Settled(i)
  /\ page.open /\ ~overlapped => \A i \in Images : InTouch(i)
=============================================================================
