--------------------------- MODULE CatalogueProofs ---------------------------
(***************************************************************************)
(* Machine-checked proofs about the lot's editor, for any set of calls and *)
(* of categories and any finite set of uploads: EditorSound is inductive,  *)
(* and with it go what the images, the page and the calls' writes promise. *)
(***************************************************************************)
EXTENDS CatalogueInvariant, FiniteSetTheorems, TLAPS

-----------------------------------------------------------------------------
(***************************************************************************)
(* The images as the use cases build them anew.                            *)
(***************************************************************************)

\* The images of a lot are counted.
LEMMA RowsCounted ==
  ASSUME NEW rows \in [Images -> Image]
  PROVE  /\ Listed(rows) \subseteq Images /\ IsFiniteSet(Listed(rows))
         /\ Count(rows) \in Nat
<1>1. Listed(rows) \subseteq Images
  BY DEF Listed
<1>2. IsFiniteSet(Listed(rows))
  BY <1>1, FS_Subset, CatalogueAssumption
<1> QED BY <1>1, <1>2, FS_CardinalityType DEF Count

\* An image confirmed is appended to those there are.
LEMMA ConfirmedRows ==
  ASSUME NEW rows \in [Images -> Image], NEW i \in Images, NEW primary \in BOOLEAN
  PROVE  LET new == Confirmed(rows, i, primary) IN
           /\ new \in [Images -> Image]
           /\ Listed(new) = Listed(rows) \cup {i}
           /\ i \notin Listed(rows) /\ InOrder(rows) => InOrder(new)
<1> DEFINE new == Confirmed(rows, i, primary)
<1>1. Count(rows) \in Nat /\ IsFiniteSet(Listed(rows))
  BY RowsCounted
<1>2. /\ new[i] = [listed |-> TRUE, order |-> Count(rows), primary |-> primary]
      /\ \A j \in Images \ {i} :
           /\ new[j] = [rows[j] EXCEPT !.primary = @ /\ ~primary]
           /\ rows[j] \in Image
  BY DEF Confirmed
<1>3. /\ new[i].listed /\ new[i].order = Count(rows) /\ new[i].primary = primary
      /\ new[i] \in Image
  BY <1>1, <1>2 DEF Image
<1>4. ASSUME NEW j \in Images \ {i}
      PROVE  /\ new[j].listed = rows[j].listed /\ new[j].order = rows[j].order
             /\ new[j].primary = (rows[j].primary /\ ~primary)
             /\ new[j] \in Image
  <2>1. new[j] = [rows[j] EXCEPT !.primary = @ /\ ~primary] /\ rows[j] \in Image
    BY <1>2
  <2> QED BY <2>1 DEF Image
<1>5. new \in [Images -> Image]
  BY <1>3, <1>4 DEF Confirmed
<1>6. Listed(new) = Listed(rows) \cup {i}
  BY <1>3, <1>4 DEF Listed
<1> HIDE DEF new
<1>7. ASSUME i \notin Listed(rows), InOrder(rows)
      PROVE  InOrder(new)
  <2>1. Count(new) = Count(rows) + 1
    BY <1>1, <1>6, <1>7, FS_AddElement DEF Count
  <2>2. {new[j].order : j \in Listed(new)} =
          {rows[j].order : j \in Listed(rows)} \cup {Count(rows)}
    BY <1>3, <1>4, <1>6, <1>7 DEF Listed
  <2>3. Numbered(new)
    BY <1>1, <1>7, <2>1, <2>2 DEF InOrder, Numbered
  <2>4. OnePrimary(new)
    BY <1>3, <1>4, <1>6, <1>7 DEF InOrder, OnePrimary, Listed
  <2> QED BY <2>3, <2>4 DEF InOrder
<1> QED BY <1>5, <1>6, <1>7 DEF new

\* Images given places: those listed are the ones that got one.
LEMMA PlacedRows ==
  ASSUME NEW rows \in [Images -> Image], NEW S \in SUBSET Listed(rows),
         NEW n \in Nat, NEW rank \in [S -> 0 .. n]
  PROVE  LET new == Placed(rows, rank) IN
           /\ new \in [Images -> Image]
           /\ Listed(new) = S
           /\ \A i \in S : /\ new[i].order = rank[i]
                           /\ new[i].primary = rows[i].primary
<1> DEFINE new == Placed(rows, rank)
<1>1. DOMAIN rank = S /\ S \subseteq Images
  BY DEF Listed
<1>2. ASSUME NEW i \in Images, i \notin S
      PROVE  new[i] \in Image /\ ~new[i].listed
  BY <1>1, <1>2 DEF Placed, NoImage, Image
<1>3. ASSUME NEW i \in S
      PROVE  /\ new[i] \in Image /\ new[i].listed
             /\ new[i].order = rank[i] /\ new[i].primary = rows[i].primary
  <2>1. new[i] = [rows[i] EXCEPT !.order = rank[i]]
    BY <1>1 DEF Placed
  <2>2. rows[i] \in Image /\ rows[i].listed /\ rank[i] \in Nat
    BY DEF Listed
  <2> QED BY <2>1, <2>2 DEF Image
<1>4. new \in [Images -> Image]
  BY <1>1, <1>2, <1>3 DEF Placed
<1>5. Listed(new) = S
  BY <1>1, <1>2, <1>3 DEF Listed
<1> QED BY <1>3, <1>4, <1>5

\* Deletion takes out the image, numbers the others, and leaves a primary.
LEMMA DeletedRows ==
  ASSUME NEW rows \in [Images -> Image], NEW i \in Listed(rows),
         NEW new \in Deleted(rows, i)
  PROVE  /\ new \in [Images -> Image]
         /\ Listed(new) = Listed(rows) \ {i}
         /\ OnePrimary(rows) => InOrder(new)
<1> DEFINE rest == [rows EXCEPT ![i] = NoImage]
<1>0. i \in Images
  BY DEF Listed
<1>1. /\ rest \in [Images -> Image]
      /\ Listed(rest) = Listed(rows) \ {i}
      /\ \A j \in Listed(rest) : rest[j] = rows[j]
  BY <1>0 DEF Image, NoImage, Listed
<1>2. PICK f \in Ranks(rest) :
        new = [j \in Images |->
                 IF rows[i].primary /\ j \in DOMAIN f /\ f[j] = 0
                 THEN [Placed(rest, f)[j] EXCEPT !.primary = TRUE]
                 ELSE Placed(rest, f)[j]]
  BY DEF Deleted
<1> DEFINE p == Placed(rest, f)
<1> HIDE DEF rest
<1>3. /\ f \in [Listed(rest) -> 0 .. Count(rest)]
      /\ {f[j] : j \in Listed(rest)} = 0 .. (Count(rest) - 1)
      /\ DOMAIN f = Listed(rest)
      /\ \A j, k \in Listed(rest) : rest[j].order < rest[k].order => f[j] < f[k]
  BY DEF Ranks
<1>4. Count(rest) \in Nat /\ IsFiniteSet(Listed(rest)) /\ Listed(rest) \subseteq Images
  BY <1>1, RowsCounted
<1>5. /\ p \in [Images -> Image]
      /\ Listed(p) = Listed(rest)
      /\ \A j \in Listed(rest) : p[j].order = f[j] /\ p[j].primary = rest[j].primary
  <2>1. Listed(rest) \in SUBSET Listed(rest)
    OBVIOUS
  <2>2. /\ rest \in [Images -> Image] /\ Count(rest) \in Nat
        /\ f \in [Listed(rest) -> 0 .. Count(rest)]
    BY <1>1, <1>3, <1>4
  <2> QED BY <2>1, <2>2, PlacedRows
<1> HIDE DEF p
<1>6. ASSUME NEW j \in Images
      PROVE  /\ new[j] \in Image
             /\ new[j].listed = p[j].listed /\ new[j].order = p[j].order
             /\ new[j].primary = (p[j].primary \/
                  (rows[i].primary /\ j \in Listed(rest) /\ f[j] = 0))
  <2>1. p[j] \in Image /\ rows[i] \in Image
    BY <1>0, <1>5
  <2>2. new[j] = IF rows[i].primary /\ j \in DOMAIN f /\ f[j] = 0
                 THEN [p[j] EXCEPT !.primary = TRUE] ELSE p[j]
    BY <1>2 DEF p
  <2> QED BY <1>3, <2>1, <2>2 DEF Image
<1>7. new \in [Images -> Image]
  BY <1>2, <1>6
<1>8. Listed(new) = Listed(rest)
  BY <1>5, <1>6 DEF Listed
<1>10. \A j, k \in Listed(rest) : f[j] = f[k] => j = k
  <2>1. Cardinality(0 .. (Count(rest) - 1)) = Count(rest)
    BY <1>4, FS_Interval
  <2>2. f \in Surjection(Listed(rest), 0 .. (Count(rest) - 1))
    BY <1>3 DEF Surjection
  <2>3. f \in Injection(Listed(rest), 0 .. (Count(rest) - 1))
    BY <1>4, <2>1, <2>2, FS_SurjSameCardinalityImpliesInj DEF Count
  <2> QED BY <2>3 DEF Injection, IsInjective
<1>9. ASSUME OnePrimary(rows)
      PROVE  InOrder(new)
  <2>1. Count(new) = Count(rest)
    BY <1>8 DEF Count
  <2>2. {new[j].order : j \in Listed(new)} = {f[j] : j \in Listed(rest)}
    BY <1>4, <1>5, <1>6, <1>8
  <2>3. Numbered(new)
    BY <1>3, <2>1, <2>2 DEF Numbered
  <2>4. OnePrimary(new)
    <3> SUFFICES ASSUME NEW j \in Listed(new), NEW k \in Listed(new),
                        new[j].primary, new[k].primary
                 PROVE  j = k
      BY DEF OnePrimary
    <3>1. j \in Listed(rest) /\ k \in Listed(rest) /\ j \in Images /\ k \in Images
      BY <1>4, <1>8
    <3>2. /\ rest[j] = rows[j] /\ rest[k] = rows[k] /\ j # i /\ k # i
          /\ j \in Listed(rows) /\ k \in Listed(rows)
      BY <1>1, <3>1
    <3>3. CASE rows[i].primary
      <4>1. ~rows[j].primary /\ ~rows[k].primary
        BY <1>9, <3>2, <3>3 DEF OnePrimary
      <4>2. f[j] = 0 /\ f[k] = 0
        BY <1>5, <1>6, <3>1, <3>2, <4>1
      <4> QED BY <3>1, <4>2, <1>10
    <3>4. CASE ~rows[i].primary
      BY <1>5, <1>6, <1>9, <3>1, <3>2, <3>4 DEF OnePrimary
    <3> QED BY <3>3, <3>4
  <2> QED BY <2>3, <2>4 DEF InOrder
<1> QED BY <1>1, <1>7, <1>8, <1>9

\* Numbers from 0, as many as there are images and no two alike, are all used.
LEMMA ReorderedRows ==
  ASSUME NEW rows \in [Images -> Image], NEW new \in Reordered(rows, Listed(rows))
  PROVE  /\ new \in [Images -> Image]
         /\ Listed(new) = Listed(rows)
         /\ OnePrimary(rows) => InOrder(new)
<1> DEFINE S == Listed(rows)
           c == Cardinality(S)
<1>1. IsFiniteSet(S) /\ c \in Nat /\ c = Count(rows)
  BY RowsCounted DEF Count
<1>2. PICK f \in [S -> 0 .. (c - 1)] :
        /\ \A i, j \in S : f[i] = f[j] => i = j
        /\ new = Placed(rows, f)
  BY DEF Reordered
<1>3. f \in [S -> 0 .. c]
  BY <1>1
<1>4. /\ new \in [Images -> Image]
      /\ Listed(new) = S
      /\ \A i \in S : new[i].order = f[i] /\ new[i].primary = rows[i].primary
  BY <1>1, <1>2, <1>3, PlacedRows
<1>5. {f[i] : i \in S} = 0 .. (c - 1)
  <2>1. f \in Injection(S, 0 .. (c - 1))
    BY <1>2 DEF Injection, IsInjective
  <2>2. IsFiniteSet(0 .. (c - 1)) /\ Cardinality(0 .. (c - 1)) = c
    BY <1>1, FS_Interval
  <2>3. f \in Surjection(S, 0 .. (c - 1))
    BY <2>1, <2>2, FS_Injection
  <2> QED BY <1>2, <2>3 DEF Surjection
<1>6. Count(new) = c
  BY <1>4 DEF Count
<1>7. Numbered(new)
  <2>1. {new[i].order : i \in Listed(new)} = {f[i] : i \in S}
    BY <1>4
  <2> QED BY <1>5, <1>6, <2>1 DEF Numbered
<1>8. OnePrimary(rows) => OnePrimary(new)
  BY <1>4 DEF OnePrimary
<1> QED BY <1>4, <1>7, <1>8 DEF InOrder

-----------------------------------------------------------------------------
(***************************************************************************)
(* One call's step, seen from the others.                                  *)
(***************************************************************************)

\* What another call's step leaves a call with, out of date or not.
Unmoved(s) ==
  /\ call'[s].kind = call[s].kind /\ call'[s].pc = call[s].pc
  /\ call'[s].image = call[s].image /\ call'[s].status = call[s].status
  /\ call'[s].seen = call[s].seen

LEMMA IdleIsCall == Idle \in CallState /\ NoImages \in [Images -> Image]
<1>1. NoImage \in Image
  BY DEF NoImage, Image
<1>2. NoImages \in [Images -> Image]
  BY <1>1 DEF NoImages
<1> HIDE DEF NoImages
<1> QED BY <1>2 DEF Idle, CallState, Kinds, Steps, Saving, LotActiveStatus

LEMMA GoesAlone ==
  ASSUME TypeOK, NEW t \in Calls, NEW r \in CallState, Goes(t, r)
  PROVE  /\ call' \in [Calls -> CallState]
         /\ call'[t] = r
         /\ \A s \in Calls \ {t} : call'[s] = call[s] /\ Unmoved(s)
BY DEF TypeOK, Goes, Unmoved

LEMMA OvertakesOthers ==
  ASSUME TypeOK, NEW t \in Calls, NEW r \in CallState, NEW gone \in SUBSET Images,
         Overtakes(t, r, gone)
  PROVE  /\ call' \in [Calls -> CallState]
         /\ call'[t] = r
         /\ \A s \in Calls \ {t} : Unmoved(s) /\ call'[s].stale = Holding(s)
<1>1. call'[t] = r
  BY DEF Overtakes
<1>2. ASSUME NEW s \in Calls \ {t}
      PROVE  /\ call'[s] \in CallState
             /\ Unmoved(s) /\ call'[s].stale = Holding(s)
  <2>1. call'[s] = [call[s] EXCEPT !.stale = Holding(s), !.snapshot = @ \ gone]
    BY DEF Overtakes
  <2>2. call[s] \in CallState /\ Holding(s) \in BOOLEAN
    BY DEF TypeOK, Holding
  <2>3. call[s].snapshot \ gone \in SUBSET Images
    BY <2>2 DEF CallState
  <2> QED BY <2>1, <2>2, <2>3 DEF CallState, Unmoved
<1>3. call' \in [Calls -> CallState]
  BY <1>1, <1>2 DEF Overtakes
<1> QED BY <1>1, <1>2, <1>3

\* A call that only waits stays as sound as it was.
LEMMA OthersWait ==
  ASSUME CallsSound, NEW t \in Calls, NEW r \in CallState, Goes(t, r),
         UNCHANGED << lot, images >>
  PROVE  \A s \in Calls \ {t} : OnItsWay(s)' /\ UpToDate(s)'
<1> SUFFICES ASSUME NEW s \in Calls \ {t}
             PROVE  OnItsWay(s)' /\ UpToDate(s)'
  OBVIOUS
<1>1. call'[s] = call[s]
  BY GoesAlone DEF CallsSound
<1>2. OnItsWay(s) /\ UpToDate(s)
  BY DEF CallsSound
<1>3. OnItsWay(s)'
  BY <1>1, <1>2 DEF OnItsWay
<1>4. UpToDate(s)'
  BY <1>1, <1>2 DEF UpToDate, Expected, Listed
<1> QED BY <1>3, <1>4

\* A call that is overtaken is sound, and knows no more.
LEMMA OthersOvertaken ==
  ASSUME CallsSound, NEW t \in Calls, NEW r \in CallState,
         NEW gone \in SUBSET Images, Overtakes(t, r, gone)
  PROVE  \A s \in Calls \ {t} : OnItsWay(s)' /\ UpToDate(s)'
<1> SUFFICES ASSUME NEW s \in Calls \ {t}
             PROVE  OnItsWay(s)' /\ UpToDate(s)'
  OBVIOUS
<1>1. Unmoved(s) /\ call'[s].stale = Holding(s)
  BY OvertakesOthers DEF CallsSound
<1>2. OnItsWay(s) /\ call[s] \in CallState
  BY DEF CallsSound, TypeOK
<1>3. OnItsWay(s)'
  BY <1>1, <1>2 DEF OnItsWay, Unmoved
<1>4. Holding(s) \/ (call[s].kind = "none" /\ call[s].pc = "idle")
  <2>1. call[s].pc \in Steps
    BY <1>2 DEF CallState
  <2>2. call[s].kind = "none" <=> call[s].pc = "idle"
    BY <1>2 DEF OnItsWay
  <2> QED BY <2>1, <2>2 DEF Steps, Saving, Holding
<1>5. UpToDate(s)'
  BY <1>1, <1>4 DEF UpToDate, Unmoved, Saving
<1> QED BY <1>3, <1>5

\* What a call that runs on may do to the images, the uploads and its own
\* locals, so that an image still comes into the world once.
LEMMA BirthKept ==
  ASSUME CallsSound, NEW t \in Calls,
         \A s \in Calls \ {t} : Unmoved(s),
         \A i \in Images :
           /\ images'[i].listed => images[i].listed \/ call[t].seen[i].listed
           /\ call'[t].seen[i].listed =>
                call[t].seen[i].listed \/ images[i].listed \/ Confirming(t, i)
           /\ Confirming(t, i)' => Confirming(t, i) /\ images' = images
           /\ \/ files'[i] = files[i]
              \/ /\ files'[i] = "gone" /\ call[t].seen[i].listed
                 /\ call[t].kind = "delete"
  PROVE  /\ \A s \in Calls : BornOnce(s)'
         /\ \A i \in Images : files'[i] \in {"none", "uploaded"} => Unborn(i)'
<1>1. ASSUME NEW s \in Calls
      PROVE  BornOnce(s)'
  <2> SUFFICES ASSUME NEW i \in Images, Confirming(s, i)'
               PROVE  /\ files'[i] = "confirmed"
                      /\ ~images'[i].listed
                      /\ \A u \in Calls \ {s} :
                           ~call'[u].seen[i].listed /\ ~Confirming(u, i)'
    BY DEF BornOnce
  <2>1. Confirming(s, i)
    BY DEF Confirming, Unmoved
  <2>2. /\ files[i] = "confirmed" /\ ~images[i].listed
        /\ \A u \in Calls \ {s} : ~call[u].seen[i].listed /\ ~Confirming(u, i)
    BY <2>1 DEF CallsSound, BornOnce
  <2>3. call[t].seen[i].listed => s = t /\ call[t].kind = "confirm"
    BY <2>1, <2>2 DEF Confirming
  <2>4. files'[i] = "confirmed"
    BY <2>2, <2>3
  <2>5. ~images'[i].listed
    BY <2>2, <2>3
  <2>6. ASSUME NEW u \in Calls \ {s}
        PROVE  ~call'[u].seen[i].listed /\ ~Confirming(u, i)'
    <3>1. CASE u = t
      BY <2>2, <3>1
    <3>2. CASE u # t
      BY <2>2, <3>2 DEF Unmoved, Confirming
    <3> QED BY <3>1, <3>2
  <2> QED BY <2>4, <2>5, <2>6
<1>2. ASSUME NEW i \in Images, files'[i] \in {"none", "uploaded"}
      PROVE  Unborn(i)'
  <2>1. files[i] \in {"none", "uploaded"}
    BY <1>2
  <2>2. Unborn(i)
    BY <2>1 DEF CallsSound
  <2>3. ~images'[i].listed
    BY <2>2 DEF Unborn
  <2>4. ASSUME NEW u \in Calls
        PROVE  ~call'[u].seen[i].listed /\ ~Confirming(u, i)'
    <3>1. CASE u = t
      BY <2>2, <3>1 DEF Unborn
    <3>2. CASE u # t
      BY <2>2, <3>2 DEF Unmoved, Confirming, Unborn
    <3> QED BY <3>1, <3>2
  <2> QED BY <2>3, <2>4 DEF Unborn
<1> QED BY <1>1, <1>2

-----------------------------------------------------------------------------
(***************************************************************************)
(* CallsSound is inductive: one lemma per action.                          *)
(***************************************************************************)

\* The file that a deletion takes from a call's images.
TakesFile(t) ==
  call[t].kind = "delete" /\ call[t].seen[call[t].image].listed /\ FileGoes(t)

\* A call that ends, whatever it leaves behind in cut.
LEMMA AnswerSound ==
  ASSUME CallsSound, NEW t \in Calls, Answer(t),
         UNCHANGED << lot, images, categories, overlapped >>,
         files' = files \/ TakesFile(t),
         cut' \subseteq Images
  PROVE  CallsSound'
<1>1. Goes(t, Idle) /\ Idle \in CallState /\ TypeOK
  BY IdleIsCall DEF Answer, CallsSound
<1>2. /\ call' \in [Calls -> CallState] /\ call'[t] = Idle
      /\ \A s \in Calls \ {t} : Unmoved(s)
  BY <1>1, GoesAlone
<1>3. TypeOK'
  <2>1. files' \in [Images -> Uploads]
    BY <1>1 DEF TypeOK, TakesFile, FileGoes, Uploads
  <2> QED BY <1>1, <1>2, <2>1 DEF TypeOK
<1>4. \A s \in Calls \ {t} : OnItsWay(s)' /\ UpToDate(s)'
  BY <1>1, OthersWait
<1>5. OnItsWay(t)' /\ UpToDate(t)'
  BY <1>2 DEF OnItsWay, UpToDate, Idle, Saving
<1>6. \A i \in Images : ~call'[t].seen[i].listed /\ ~Confirming(t, i)'
  BY <1>2 DEF Idle, NoImages, NoImage, Confirming
<1>7. \A i \in Images :
        \/ files'[i] = files[i]
        \/ files'[i] = "gone" /\ call[t].seen[i].listed /\ call[t].kind = "delete"
  BY <1>1 DEF TypeOK, TakesFile, FileGoes
<1>8. /\ \A s \in Calls : BornOnce(s)'
      /\ \A i \in Images : files'[i] \in {"none", "uploaded"} => Unborn(i)'
  BY <1>2, <1>6, <1>7, BirthKept
<1> QED BY <1>3, <1>4, <1>5, <1>8 DEF CallsSound

\* What the first statement of a use case reads.
LEMMA ReadsRow ==
  ASSUME CallsSound, NEW t \in Calls, NEW r0 \in CallState,
         r0.kind # "none", r0.seen = NoImages, ~r0.stale,
         r0.kind \in {"confirm", "delete"} => r0.image \in Images,
         Reads(t, r0), UNCHANGED << lot, images >>
  PROVE  /\ call' \in [Calls -> CallState]
         /\ call'[t].kind = r0.kind /\ call'[t].image = r0.image
         /\ call'[t].category \in CategoryOf(r0.kind)
         /\ call'[t].seen = NoImages
         /\ \A s \in Calls \ {t} : Unmoved(s)
         /\ \A s \in Calls : OnItsWay(s)' /\ UpToDate(s)'
<1>1. PICK status \in StatusOf(r0.kind), category \in CategoryOf(r0.kind) :
        Goes(t, [r0 EXCEPT !.pc = "images", !.status = status, !.category = category])
  BY DEF Reads
<1> DEFINE r == [r0 EXCEPT !.pc = "images", !.status = status, !.category = category]
<1>2. TypeOK /\ lot.status \in LotActiveStatus /\ lot.category \in Categories \cup {None}
  BY DEF CallsSound, TypeOK
<1>3. /\ status \in LotActiveStatus
      /\ r0.kind = "confirm" => status = "ACTIVE"
      /\ r0.kind \in {"delete", "reorder"} => status = lot.status
  BY <1>1, <1>2 DEF StatusOf, LotActiveStatus
<1>4. category \in Categories \cup {None}
  BY <1>1, <1>2 DEF CategoryOf, TypeOK
<1>5. /\ r \in CallState
      /\ r.kind = r0.kind /\ r.image = r0.image /\ r.pc = "images"
      /\ r.status = status /\ r.category = category
      /\ r.seen = NoImages /\ ~r.stale
  BY <1>3, <1>4 DEF CallState, Steps
<1>6. Goes(t, r)
  BY <1>1
<1> HIDE DEF r
<1>7. /\ call' \in [Calls -> CallState] /\ call'[t] = r
      /\ \A s \in Calls \ {t} : Unmoved(s)
  BY <1>2, <1>5, <1>6, GoesAlone
<1>8. \A s \in Calls \ {t} : OnItsWay(s)' /\ UpToDate(s)'
  BY <1>5, <1>6, OthersWait
<1>9. OnItsWay(t)'
  BY <1>3, <1>5, <1>7 DEF OnItsWay
<1>10. UpToDate(t)'
  BY <1>3, <1>5, <1>7 DEF UpToDate, Saving
<1> QED BY <1>1, <1>5, <1>7, <1>8, <1>9, <1>10

\* A call other than a confirmation starts.
LEMMA OtherRequestSound ==
  ASSUME CallsSound, NEW t \in Calls,
         UNCHANGED << lot, images, categories, cut, overlapped >>,
         Delete(t) \/ Reorder(t) \/ Update(t)
  PROVE  CallsSound' /\ files' = files /\ call'[t].kind # "confirm"
<1>1. PICK r0 \in CallState :
        /\ r0.kind \notin {"none", "confirm"} /\ r0.seen = NoImages /\ ~r0.stale
        /\ r0.kind = "delete" => r0.image \in Images
        /\ Reads(t, r0)
  <2>1. /\ Idle \in CallState /\ Idle.seen = NoImages /\ ~Idle.stale
    BY IdleIsCall DEF Idle
  <2> HIDE DEF Idle
  <2>2. CASE Delete(t)
    <3>1. PICK i \in Images : Reads(t, [Idle EXCEPT !.kind = "delete", !.image = i])
      BY <2>2 DEF Delete
    <3> DEFINE r == [Idle EXCEPT !.kind = "delete", !.image = i]
    <3>2. /\ r \in CallState /\ r.kind = "delete" /\ r.image = i
          /\ r.seen = NoImages /\ ~r.stale
      BY <2>1 DEF CallState, Kinds
    <3>3. Reads(t, r)
      BY <3>1
    <3> HIDE DEF r
    <3> QED BY <3>2, <3>3
  <2>3. CASE Reorder(t)
    <3>1. PICK ids \in SUBSET Images \ {{}} :
            Reads(t, [Idle EXCEPT !.kind = "reorder", !.ids = ids])
      BY <2>3 DEF Reorder
    <3> DEFINE r == [Idle EXCEPT !.kind = "reorder", !.ids = ids]
    <3>2. /\ r \in CallState /\ r.kind = "reorder"
          /\ r.seen = NoImages /\ ~r.stale
      BY <2>1 DEF CallState, Kinds
    <3>3. Reads(t, r)
      BY <3>1
    <3> HIDE DEF r
    <3> QED BY <3>2, <3>3
  <2>4. CASE Update(t)
    <3> DEFINE r == [Idle EXCEPT !.kind = "update"]
    <3>1. /\ r \in CallState /\ r.kind = "update"
          /\ r.seen = NoImages /\ ~r.stale
      BY <2>1 DEF CallState, Kinds
    <3>2. Reads(t, r)
      BY <2>4 DEF Update
    <3> HIDE DEF r
    <3> QED BY <3>1, <3>2
  <2> QED BY <2>2, <2>3, <2>4
<1>2. /\ call' \in [Calls -> CallState]
      /\ call'[t].kind = r0.kind /\ call'[t].seen = NoImages
      /\ \A s \in Calls \ {t} : Unmoved(s)
      /\ \A s \in Calls : OnItsWay(s)' /\ UpToDate(s)'
  BY <1>1, ReadsRow
<1>3. files' = files
  BY DEF Delete, Reorder, Update
<1>4. TypeOK'
  BY <1>2, <1>3 DEF TypeOK, CallsSound
<1>5. \A j \in Images : ~call'[t].seen[j].listed /\ ~Confirming(t, j)'
  BY <1>1, <1>2 DEF NoImages, NoImage, Confirming
<1>6. /\ \A s \in Calls : BornOnce(s)'
      /\ \A j \in Images : files'[j] \in {"none", "uploaded"} => Unborn(j)'
  BY <1>2, <1>3, <1>5, BirthKept
<1> QED BY <1>1, <1>2, <1>3, <1>4, <1>6 DEF CallsSound

\* An upload is confirmed: of its image nobody has known before.
LEMMA ConfirmSound ==
  ASSUME CallsSound, NEW t \in Calls,
         UNCHANGED << lot, images, categories, cut, overlapped >>, Confirm(t)
  PROVE  /\ CallsSound' /\ call'[t].kind = "confirm" /\ call'[t].image \in Images
         /\ files[call'[t].image] = "uploaded"
         /\ files' = [files EXCEPT ![call'[t].image] = "confirmed"]
<1>1. PICK i \in Images, primary \in BOOLEAN :
        /\ files[i] = "uploaded"
        /\ files' = [files EXCEPT ![i] = "confirmed"]
        /\ Reads(t, [Idle EXCEPT !.kind = "confirm", !.image = i, !.primary = primary])
  BY DEF Confirm
<1> DEFINE r == [Idle EXCEPT !.kind = "confirm", !.image = i, !.primary = primary]
<1>2. /\ r \in CallState /\ r.kind = "confirm" /\ r.image = i
      /\ r.seen = NoImages /\ ~r.stale
  <2>1. /\ Idle \in CallState /\ Idle.seen = NoImages /\ ~Idle.stale
    BY IdleIsCall DEF Idle
  <2> HIDE DEF Idle
  <2> QED BY <2>1 DEF CallState, Kinds
<1>3. Reads(t, r)
  BY <1>1
<1> HIDE DEF r
<1>4. /\ call' \in [Calls -> CallState]
      /\ call'[t].kind = "confirm" /\ call'[t].image = i /\ call'[t].seen = NoImages
      /\ \A s \in Calls \ {t} : Unmoved(s)
      /\ \A s \in Calls : OnItsWay(s)' /\ UpToDate(s)'
  BY <1>2, <1>3, ReadsRow
<1>5. files \in [Images -> Uploads] /\ files' \in [Images -> Uploads]
  BY <1>1 DEF CallsSound, TypeOK, Uploads
<1>6. TypeOK'
  BY <1>4, <1>5 DEF TypeOK, CallsSound
<1>7. Unborn(i)
  BY <1>1 DEF CallsSound
<1>8. \A j \in Images : ~call'[t].seen[j].listed
  BY <1>4 DEF NoImages, NoImage
<1>9. ASSUME NEW s \in Calls
      PROVE  BornOnce(s)'
  <2> SUFFICES ASSUME NEW j \in Images, Confirming(s, j)'
               PROVE  /\ files'[j] = "confirmed" /\ ~images'[j].listed
                      /\ \A u \in Calls \ {s} :
                           ~call'[u].seen[j].listed /\ ~Confirming(u, j)'
    BY DEF BornOnce
  <2>1. CASE s = t
    <3>1. j = i
      BY <1>4, <2>1 DEF Confirming
    <3>2. files'[j] = "confirmed" /\ ~images'[j].listed
      BY <1>1, <1>5, <1>7, <3>1 DEF Unborn
    <3> QED BY <1>4, <1>7, <2>1, <3>1, <3>2 DEF Unborn, Unmoved, Confirming
  <2>2. CASE s # t
    <3>1. Confirming(s, j)
      BY <1>4, <2>2 DEF Unmoved, Confirming
    <3>2. j # i
      BY <1>7, <3>1 DEF Unborn
    <3>3. /\ files[j] = "confirmed" /\ ~images[j].listed
          /\ \A u \in Calls \ {s} : ~call[u].seen[j].listed /\ ~Confirming(u, j)
      BY <3>1 DEF CallsSound, BornOnce
    <3>4. files'[j] = "confirmed"
      BY <1>1, <1>5, <3>2, <3>3
    <3>5. ASSUME NEW u \in Calls \ {s}
          PROVE  ~call'[u].seen[j].listed /\ ~Confirming(u, j)'
      <4>1. CASE u = t
        BY <1>4, <1>8, <3>2, <4>1 DEF Confirming
      <4>2. CASE u # t
        BY <1>4, <3>3, <4>2 DEF Unmoved, Confirming
      <4> QED BY <4>1, <4>2
    <3> QED BY <3>3, <3>4, <3>5
  <2> QED BY <2>1, <2>2
<1>10. ASSUME NEW j \in Images, files'[j] \in {"none", "uploaded"}
       PROVE  Unborn(j)'
  <2>1. j # i /\ files[j] \in {"none", "uploaded"}
    BY <1>1, <1>5, <1>10
  <2>2. Unborn(j)
    BY <2>1 DEF CallsSound
  <2>3. ASSUME NEW u \in Calls
        PROVE  ~call'[u].seen[j].listed /\ ~Confirming(u, j)'
    <3>1. CASE u = t
      BY <1>4, <1>8, <2>1, <3>1 DEF Confirming
    <3>2. CASE u # t
      BY <1>4, <2>2, <3>2 DEF Unmoved, Confirming, Unborn
    <3> QED BY <3>1, <3>2
  <2> QED BY <2>2, <2>3 DEF Unborn
<1> QED BY <1>1, <1>4, <1>6, <1>9, <1>10 DEF CallsSound

\* The second statement of a use case, and what it makes of the images: a
\* call that goes on holds rows computed from the images there are.
LEMMA HoldsRows ==
  ASSUME CallsSound, NEW t \in Calls, NEW rows \in [Images -> Image],
         NEW pc \in Steps \ {"idle"}, Holds(t, rows, pc), call[t].kind # "none"
  PROVE  \E r \in CallState :
           /\ Goes(t, r) /\ r.pc = pc /\ r.seen = rows
           /\ r.kind = call[t].kind /\ r.image = call[t].image
           /\ r.status = call[t].status /\ r.category = call[t].category
           /\ r.stale = call[t].stale
           /\ call' \in [Calls -> CallState] /\ call'[t] = r
           /\ \A s \in Calls \ {t} : call'[s] = call[s] /\ Unmoved(s)
<1> DEFINE r == [call[t] EXCEPT !.pc = pc, !.seen = rows, !.ids = {}, !.primary = FALSE]
<1>1. TypeOK /\ call[t] \in CallState
  BY DEF CallsSound, TypeOK
<1>2. /\ r \in CallState /\ r.pc = pc /\ r.seen = rows
      /\ r.kind = call[t].kind /\ r.image = call[t].image
      /\ r.status = call[t].status /\ r.category = call[t].category
      /\ r.stale = call[t].stale
  BY <1>1 DEF CallState
<1>3. Goes(t, r)
  BY DEF Holds
<1> HIDE DEF r
<1> QED BY <1>1, <1>2, <1>3, GoesAlone

\* The image of a confirmation is not among those listed.
LEMMA ConfirmedIsNew ==
  ASSUME CallsSound, NEW t \in Calls, call[t].kind = "confirm"
  PROVE  call[t].image \in Images /\ call[t].image \notin Listed(images)
<1>1. call[t].image \in Images
  BY DEF CallsSound, OnItsWay
<1>2. Confirming(t, call[t].image)
  BY DEF Confirming
<1> QED BY <1>1, <1>2 DEF CallsSound, BornOnce, Listed

\* The rows a call goes on to save.
LEMMA FoundRows ==
  ASSUME CallsSound, NEW t \in Calls, FindImages(t), ~Answer(t)
  PROVE  \E rows \in [Images -> Image], pc \in {"objects", "save"} :
           /\ Holds(t, rows, pc)
           /\ pc = "objects" <=> call[t].kind = "delete"
           /\ pc = "objects" => rows = images /\ call[t].image \in Listed(images)
           /\ pc = "save" =>
                Listed(rows) = Expected(t) /\ (InOrder(images) => InOrder(rows))
<1> DEFINE c == call[t]
<1>1. images \in [Images -> Image] /\ c \in CallState /\ OnItsWay(t)
  BY DEF CallsSound, TypeOK
<1>2. CASE c.kind = "confirm"
  <2> DEFINE rows == Confirmed(images, c.image, c.primary)
  <2>1. Holds(t, rows, "save")
    BY <1>2 DEF FindImages
  <2>2. c.image \in Images /\ c.image \notin Listed(images) /\ c.primary \in BOOLEAN
    BY <1>1, <1>2, ConfirmedIsNew DEF CallState
  <2>3. /\ rows \in [Images -> Image] /\ Listed(rows) = Listed(images) \cup {c.image}
        /\ InOrder(images) => InOrder(rows)
    BY <1>1, <2>2, ConfirmedRows
  <2>4. Expected(t) = Listed(images) \cup {c.image}
    BY <1>2 DEF Expected
  <2> HIDE DEF rows
  <2> QED BY <1>2, <2>1, <2>3, <2>4
<1>3. CASE c.kind = "delete"
  <2>1. Holds(t, images, "objects") /\ images[c.image].listed /\ c.image \in Images
    BY <1>1, <1>3 DEF FindImages, OnItsWay
  <2> QED BY <1>1, <1>3, <2>1 DEF Listed
<1>4. CASE c.kind = "reorder"
  <2>1. PICK rows \in Reordered(images, Listed(images)) : Holds(t, rows, "save")
    BY <1>4 DEF FindImages, MayReorder
  <2>2. /\ rows \in [Images -> Image] /\ Listed(rows) = Listed(images)
        /\ InOrder(images) => InOrder(rows)
    BY <1>1, ReorderedRows DEF InOrder
  <2>3. Expected(t) = Listed(images)
    BY <1>4 DEF Expected
  <2> QED BY <1>4, <2>1, <2>2, <2>3
<1>5. CASE c.kind = "update"
  <2>1. Holds(t, images, "save")
    BY <1>5 DEF FindImages
  <2>2. Expected(t) = Listed(images)
    BY <1>5 DEF Expected
  <2> QED BY <1>1, <1>5, <2>1, <2>2
<1> QED BY <1>2, <1>3, <1>4, <1>5 DEF FindImages

LEMMA FindImagesSound ==
  ASSUME CallsSound, NEW t \in Calls, FindImages(t)
  PROVE  CallsSound'
<1>0. /\ lot' = lot /\ images' = images /\ files' = files /\ categories' = categories
      /\ cut' = cut /\ overlapped' = overlapped /\ call[t].pc = "images"
  BY DEF FindImages, At
<1>1. CASE Answer(t)
  BY <1>0, <1>1, AnswerSound DEF CallsSound, TypeOK
<1>2. CASE ~Answer(t)
  <2>1. PICK rows \in [Images -> Image], pc \in {"objects", "save"} :
          /\ Holds(t, rows, pc)
          /\ pc = "objects" <=> call[t].kind = "delete"
          /\ pc = "objects" => rows = images /\ call[t].image \in Listed(images)
          /\ pc = "save" => Listed(rows) = Expected(t)
    BY <1>2, FoundRows
  <2>2. TypeOK /\ OnItsWay(t) /\ UpToDate(t)
    BY DEF CallsSound
  <2>3. call[t].kind # "none"
    BY <1>0, <2>2 DEF OnItsWay
  <2>4. pc \in Steps \ {"idle"}
    BY DEF Steps, Saving
  <2>5. PICK r \in CallState :
          /\ Goes(t, r) /\ r.pc = pc /\ r.seen = rows
          /\ r.kind = call[t].kind /\ r.image = call[t].image
          /\ r.status = call[t].status /\ r.stale = call[t].stale
          /\ call' \in [Calls -> CallState] /\ call'[t] = r
          /\ \A s \in Calls \ {t} : call'[s] = call[s] /\ Unmoved(s)
    BY <2>1, <2>3, <2>4, HoldsRows
  <2>6. TypeOK'
    BY <1>0, <2>2, <2>5 DEF TypeOK
  <2>7. \A s \in Calls \ {t} : OnItsWay(s)' /\ UpToDate(s)'
    BY <1>0, <2>5, OthersWait
  <2>8. OnItsWay(t)'
    BY <1>0, <2>1, <2>2, <2>3, <2>5 DEF OnItsWay, Listed
  <2>9. UpToDate(t)'
    <3>1. Expected(t)' = Expected(t)
      BY <1>0, <2>5 DEF Expected, Listed
    <3>2. Listed(images)' = Listed(images)
      BY <1>0 DEF Listed
    <3> QED BY <1>0, <2>1, <2>2, <2>5, <3>1, <3>2 DEF UpToDate, Saving, Listed
  <2>10. ASSUME NEW i \in Images, call'[t].seen[i].listed
         PROVE  images[i].listed \/ Confirming(t, i)
    <3>1. CASE pc = "objects"
      BY <2>1, <2>5, <2>10, <3>1
    <3>2. CASE pc = "save"
      <4>1. i \in Expected(t)
        BY <2>1, <2>5, <2>10, <3>2 DEF Listed
      <4> QED BY <4>1 DEF Expected, Listed, Confirming
    <3> QED BY <3>1, <3>2
  <2>11. \A i \in Images : Confirming(t, i)' => Confirming(t, i)
    BY <2>5 DEF Confirming
  <2>12. /\ \A s \in Calls : BornOnce(s)'
         /\ \A i \in Images : files'[i] \in {"none", "uploaded"} => Unborn(i)'
    BY <1>0, <2>5, <2>10, <2>11, BirthKept
  <2> QED BY <2>6, <2>7, <2>8, <2>9, <2>12 DEF CallsSound
<1> QED BY <1>1, <1>2

\* A call that fails while it deletes or saves.
LEMMA FailsSound ==
  ASSUME CallsSound, NEW t \in Calls, Fails(t),
         UNCHANGED << lot, images, categories, overlapped >>,
         files' = files \/ TakesFile(t)
  PROVE  CallsSound'
<1>1. cut' \subseteq Images
  BY DEF Fails, CallsSound, TypeOK, OnItsWay
<1> QED BY <1>1, AnswerSound DEF Fails

\* The rows from which a deletion goes on, when the file is gone.
LEMMA DeleteObjectsRows ==
  ASSUME CallsSound, NEW t \in Calls, DeleteObjects(t), ~Fails(t)
  PROVE  \E rows \in [Images -> Image] :
           /\ Holds(t, rows, "save")
           /\ Listed(rows) = Listed(call[t].seen) \ {call[t].image}
           /\ InOrder(call[t].seen) => InOrder(rows)
<1>1. /\ call[t] \in CallState /\ OnItsWay(t) /\ call[t].pc = "objects"
  BY DEF CallsSound, TypeOK, DeleteObjects, At
<1>2. call[t].seen \in [Images -> Image] /\ call[t].image \in Listed(call[t].seen)
  BY <1>1 DEF CallState, OnItsWay, Listed
<1>3. PICK rows \in Deleted(call[t].seen, call[t].image) : Holds(t, rows, "save")
  BY DEF DeleteObjects
<1>4. /\ rows \in [Images -> Image]
      /\ Listed(rows) = Listed(call[t].seen) \ {call[t].image}
      /\ InOrder(call[t].seen) => InOrder(rows)
  BY <1>2, DeletedRows DEF InOrder
<1> QED BY <1>3, <1>4

LEMMA DeleteObjectsSound ==
  ASSUME CallsSound, NEW t \in Calls, DeleteObjects(t)
  PROVE  CallsSound'
<1>1. /\ lot' = lot /\ images' = images /\ categories' = categories
      /\ overlapped' = overlapped /\ call[t].pc = "objects"
  BY DEF DeleteObjects, At
<1>2. TypeOK /\ OnItsWay(t) /\ UpToDate(t)
  BY DEF CallsSound
<1>3. call[t].kind = "delete" /\ call[t].seen[call[t].image].listed
  BY <1>1, <1>2 DEF OnItsWay
<1>4. CASE Fails(t)
  <2>1. files' = files \/ TakesFile(t)
    BY <1>3 DEF DeleteObjects, TakesFile, FileGoes
  <2> QED BY <1>1, <1>4, <2>1, FailsSound
<1>5. CASE ~Fails(t)
  <2>1. cut' = cut /\ files' = [files EXCEPT ![call[t].image] = "gone"]
    BY <1>5 DEF DeleteObjects, FileGoes
  <2>2. PICK rows \in [Images -> Image] :
          /\ Holds(t, rows, "save")
          /\ Listed(rows) = Listed(call[t].seen) \ {call[t].image}
    BY <1>5, DeleteObjectsRows
  <2>3. "save" \in Steps \ {"idle"}
    BY DEF Steps, Saving
  <2>4. PICK r \in CallState :
          /\ Goes(t, r) /\ r.pc = "save" /\ r.seen = rows
          /\ r.kind = call[t].kind /\ r.image = call[t].image
          /\ r.status = call[t].status /\ r.stale = call[t].stale
          /\ call' \in [Calls -> CallState] /\ call'[t] = r
          /\ \A s \in Calls \ {t} : call'[s] = call[s] /\ Unmoved(s)
    BY <1>3, <2>2, <2>3, HoldsRows
  <2>5. TypeOK'
    BY <1>1, <1>2, <2>1, <2>4 DEF TypeOK, Uploads
  <2>6. \A s \in Calls \ {t} : OnItsWay(s)' /\ UpToDate(s)'
    BY <1>1, <2>4, OthersWait
  <2>7. OnItsWay(t)'
    BY <1>2, <1>3, <2>4 DEF OnItsWay
  <2>8. UpToDate(t)'
    <3>1. Expected(t)' = Listed(images) \ {call[t].image}
      BY <1>1, <1>3, <2>4 DEF Expected, Listed
    <3>2. ~call[t].stale => call[t].seen = images /\ call[t].status = lot.status
      BY <1>1, <1>2, <1>3 DEF UpToDate
    <3>3. Listed(call'[t].seen) = Listed(call[t].seen) \ {call[t].image}
      BY <2>2, <2>4
    <3> QED BY <1>1, <1>3, <2>4, <3>1, <3>2, <3>3 DEF UpToDate, Saving
  <2>9. \A i \in Images : call'[t].seen[i].listed => call[t].seen[i].listed
    BY <2>2, <2>4 DEF Listed
  <2>10. \A i \in Images : ~Confirming(t, i)'
    BY <1>3, <2>4 DEF Confirming
  <2>11. \A i \in Images :
           \/ files'[i] = files[i]
           \/ files'[i] = "gone" /\ call[t].seen[i].listed /\ call[t].kind = "delete"
    BY <1>1, <1>2, <1>3, <2>1 DEF TypeOK
  <2>12. /\ \A s \in Calls : BornOnce(s)'
         /\ \A i \in Images : files'[i] \in {"none", "uploaded"} => Unborn(i)'
    BY <1>1, <2>1, <2>4, <2>9, <2>10, <2>11, BirthKept
  <2> QED BY <2>5, <2>6, <2>7, <2>8, <2>12 DEF CallsSound
<1> QED BY <1>4, <1>5

\* What a call holds when its row is saved.
LEMMA SavedRow ==
  ASSUME CallsSound, NEW t \in Calls, SaveLot(t),
         call[t].category \in categories \cup {None}
  PROVE  /\ lot' = [status |-> call[t].status, category |-> call[t].category]
         /\ cut' = cut
         /\ call' \in [Calls -> CallState]
         /\ call'[t].kind = call[t].kind /\ call'[t].image = call[t].image
         /\ call'[t].pc = "delete" /\ call'[t].seen = call[t].seen
         /\ call'[t].stale = call[t].stale
         /\ \A s \in Calls \ {t} :
              /\ Unmoved(s) /\ call'[s].stale = Holding(s)
              /\ OnItsWay(s)' /\ UpToDate(s)'
<1>1. TypeOK /\ call[t] \in CallState
  BY DEF CallsSound, TypeOK
<1> DEFINE r == [call[t] EXCEPT !.pc = "delete", !.status = "ACTIVE", !.category = None]
<1>2. /\ r \in CallState /\ r.pc = "delete" /\ r.kind = call[t].kind
      /\ r.image = call[t].image /\ r.seen = call[t].seen /\ r.stale = call[t].stale
  BY <1>1 DEF CallState, Steps, Saving, LotActiveStatus
<1>3. Overtakes(t, r, {}) /\ cut' = cut
      /\ lot' = [status |-> call[t].status, category |-> call[t].category]
  BY DEF SaveLot
<1>4. {} \in SUBSET Images
  OBVIOUS
<1> HIDE DEF r
<1> QED BY <1>1, <1>2, <1>3, <1>4, OvertakesOthers, OthersOvertaken

LEMMA SaveLotSound ==
  ASSUME CallsSound, NEW t \in Calls, SaveLot(t)
  PROVE  CallsSound'
<1>1. /\ images' = images /\ files' = files /\ categories' = categories
      /\ overlapped' = overlapped /\ call[t].pc = "save"
  BY DEF SaveLot, At
<1>2. CASE call[t].category \notin categories \cup {None}
  BY <1>1, <1>2, FailsSound DEF SaveLot
<1>3. CASE call[t].category \in categories \cup {None}
  <2>1. TypeOK /\ OnItsWay(t) /\ UpToDate(t) /\ call[t] \in CallState
    BY DEF CallsSound, TypeOK
  <2>2. /\ lot' = [status |-> call[t].status, category |-> call[t].category]
        /\ cut' = cut
        /\ call' \in [Calls -> CallState]
        /\ call'[t].kind = call[t].kind /\ call'[t].image = call[t].image
        /\ call'[t].pc = "delete" /\ call'[t].seen = call[t].seen
        /\ call'[t].stale = call[t].stale
        /\ \A s \in Calls \ {t} : Unmoved(s) /\ OnItsWay(s)' /\ UpToDate(s)'
    BY <1>3, SavedRow
  <2>3. lot' \in [status : LotActiveStatus, category : Categories \cup {None}]
    BY <2>1, <2>2 DEF CallState
  <2>4. TypeOK'
    BY <1>1, <2>1, <2>2, <2>3 DEF TypeOK
  <2>5. OnItsWay(t)'
    BY <1>1, <2>1, <2>2 DEF OnItsWay
  <2>6. UpToDate(t)'
    <3>1. Expected(t)' = Expected(t)
      BY <1>1, <2>2 DEF Expected, Listed
    <3>2. ~call[t].stale => Listed(call[t].seen) = Expected(t)
      BY <1>1, <2>1 DEF UpToDate, Saving
    <3>3. ~call[t].stale /\ call[t].kind = "delete" => images[call[t].image].listed
      BY <1>1, <2>1 DEF UpToDate, Saving
    <3> QED BY <1>1, <2>2, <3>1, <3>2, <3>3 DEF UpToDate, Listed
  <2>7. \A i \in Images :
          /\ call'[t].seen[i].listed => call[t].seen[i].listed
          /\ Confirming(t, i)' => Confirming(t, i)
    BY <2>2 DEF Confirming
  <2>8. /\ \A s \in Calls : BornOnce(s)'
        /\ \A i \in Images : files'[i] \in {"none", "uploaded"} => Unborn(i)'
    BY <1>1, <2>2, <2>7, BirthKept
  <2> QED BY <2>2, <2>4, <2>5, <2>6, <2>8 DEF CallsSound
<1> QED BY <1>2, <1>3

LEMMA BeginSaveSound ==
  ASSUME CallsSound, NEW t \in Calls, BeginSave(t)
  PROVE  /\ CallsSound'
         /\ call'[t].seen = call[t].seen /\ call'[t].stale = call[t].stale
         /\ call'[t].pc = "commit" /\ call'[t].kind = call[t].kind
         /\ call'[t].image = call[t].image
         /\ \A s \in Calls \ {t} : call'[s] = call[s]
<1>1. /\ lot' = lot /\ images' = images /\ files' = files /\ categories' = categories
      /\ cut' = cut /\ overlapped' = overlapped /\ call[t].pc = "delete"
  BY DEF BeginSave, At
<1>2. TypeOK /\ OnItsWay(t) /\ UpToDate(t) /\ call[t] \in CallState
      /\ Listed(images) \in SUBSET Images
  BY DEF CallsSound, TypeOK, Listed
<1> DEFINE r == [call[t] EXCEPT !.pc = "commit", !.snapshot = Listed(images)]
<1>3. /\ r \in CallState /\ r.pc = "commit" /\ r.snapshot = Listed(images)
      /\ r.kind = call[t].kind /\ r.image = call[t].image
      /\ r.seen = call[t].seen /\ r.stale = call[t].stale
  BY <1>2 DEF CallState, Steps, Saving
<1>4. Goes(t, r)
  BY DEF BeginSave
<1> HIDE DEF r
<1>5. /\ call' \in [Calls -> CallState] /\ call'[t] = r
      /\ \A s \in Calls \ {t} : call'[s] = call[s] /\ Unmoved(s)
  BY <1>2, <1>3, <1>4, GoesAlone
<1>6. TypeOK'
  BY <1>1, <1>2, <1>5 DEF TypeOK
<1>7. \A s \in Calls \ {t} : OnItsWay(s)' /\ UpToDate(s)'
  BY <1>1, <1>3, <1>4, OthersWait
<1>8. OnItsWay(t)'
  BY <1>1, <1>2, <1>3, <1>5 DEF OnItsWay
<1>9. UpToDate(t)'
  <2>1. Expected(t)' = Expected(t) /\ Listed(images)' = Listed(images)
    BY <1>1, <1>3, <1>5 DEF Expected, Listed
  <2>2. ~call[t].stale => Listed(call[t].seen) = Expected(t)
    BY <1>1, <1>2 DEF UpToDate, Saving
  <2>3. Listed(call'[t].seen) = Listed(call[t].seen)
    BY <1>3, <1>5
  <2>4. ~call[t].stale /\ call[t].kind = "delete" => images[call[t].image].listed
    BY <1>1, <1>2 DEF UpToDate, Saving
  <2> QED BY <1>1, <1>3, <1>5, <2>1, <2>2, <2>3, <2>4 DEF UpToDate, Listed
<1>10. \A i \in Images :
         /\ call'[t].seen[i].listed => call[t].seen[i].listed
         /\ Confirming(t, i)' => Confirming(t, i)
  BY <1>3, <1>5 DEF Confirming
<1>11. /\ \A s \in Calls : BornOnce(s)'
       /\ \A i \in Images : files'[i] \in {"none", "uploaded"} => Unborn(i)'
  BY <1>1, <1>5, <1>10, BirthKept
<1> QED BY <1>3, <1>5, <1>6, <1>7, <1>8, <1>9, <1>11 DEF CallsSound

\* What a commit makes of the images: those of the call, and those that came
\* meanwhile.  A call that is up to date finds no others.
LEMMA CommittedRows ==
  ASSUME CallsSound, NEW t \in Calls, Commit(t)
  PROVE  /\ images' \in [Images -> Image]
         /\ \A i \in Images :
              images'[i].listed => images[i].listed \/ call[t].seen[i].listed
         /\ ~call[t].stale =>
              images' = call[t].seen /\ Listed(images)' = Expected(t)
         /\ call' \in [Calls -> CallState] /\ call'[t] = Idle
         /\ \A s \in Calls \ {t} :
              /\ Unmoved(s) /\ call'[s].stale = Holding(s)
              /\ OnItsWay(s)' /\ UpToDate(s)'
<1>1. TypeOK /\ UpToDate(t) /\ call[t] \in CallState
  BY DEF CallsSound, TypeOK
<1>2. /\ images \in [Images -> Image] /\ call[t].seen \in [Images -> Image]
      /\ call[t].snapshot \in SUBSET Images /\ call[t].pc = "commit"
  BY <1>1 DEF TypeOK, CallState, Commit, At
<1>3. images' = [i \in Images |-> IF i \in Others(t) THEN images[i]
                                  ELSE call[t].seen[i]]
      /\ Overtakes(t, Idle, call[t].snapshot)
  BY DEF Commit
<1>4. images' \in [Images -> Image]
  BY <1>2, <1>3
<1>5. \A i \in Images :
        images'[i].listed => images[i].listed \/ call[t].seen[i].listed
  BY <1>3
<1>6. ASSUME ~call[t].stale
      PROVE  images' = call[t].seen /\ Listed(images)' = Expected(t)
  <2>1. Others(t) = {} /\ Listed(call[t].seen) = Expected(t)
    BY <1>1, <1>2, <1>6 DEF UpToDate, Others, Saving
  <2>2. images' = call[t].seen
    BY <1>2, <1>3, <2>1
  <2> QED BY <2>1, <2>2 DEF Listed
<1>7. Idle \in CallState
  BY IdleIsCall
<1> QED BY <1>1, <1>2, <1>3, <1>4, <1>5, <1>6, <1>7, OvertakesOthers, OthersOvertaken

LEMMA CommitSound ==
  ASSUME CallsSound, NEW t \in Calls, Commit(t)
  PROVE  CallsSound'
<1>1. /\ lot' = lot /\ files' = files /\ categories' = categories /\ cut' = cut
      /\ overlapped' = (overlapped \/ call[t].stale)
  BY DEF Commit
<1>2. /\ images' \in [Images -> Image]
      /\ \A i \in Images :
           images'[i].listed => images[i].listed \/ call[t].seen[i].listed
      /\ call' \in [Calls -> CallState] /\ call'[t] = Idle
      /\ \A s \in Calls \ {t} : Unmoved(s) /\ OnItsWay(s)' /\ UpToDate(s)'
  BY CommittedRows
<1>3. TypeOK /\ call[t].stale \in BOOLEAN
  BY DEF CallsSound, TypeOK, CallState
<1>4. TypeOK'
  BY <1>1, <1>2, <1>3 DEF TypeOK
<1>5. OnItsWay(t)' /\ UpToDate(t)'
  BY <1>2 DEF OnItsWay, UpToDate, Idle, Saving
<1>6. \A i \in Images : ~call'[t].seen[i].listed /\ ~Confirming(t, i)'
  BY <1>2 DEF Idle, NoImages, NoImage, Confirming
<1>7. /\ \A s \in Calls : BornOnce(s)'
      /\ \A i \in Images : files'[i] \in {"none", "uploaded"} => Unborn(i)'
  BY <1>1, <1>2, <1>6, BirthKept
<1> QED BY <1>2, <1>4, <1>5, <1>7 DEF CallsSound

LEMMA AbortSound ==
  ASSUME CallsSound, NEW t \in Calls, Abort(t)
  PROVE  CallsSound'
BY FailsSound DEF Abort

\* The browser puts a file: of its image nobody knows.
LEMMA UploadSound ==
  ASSUME CallsSound, Upload
  PROVE  CallsSound'
<1>1. PICK i \in Images : files[i] = "none" /\ files' = [files EXCEPT ![i] = "uploaded"]
  BY DEF Upload
<1>2. /\ lot' = lot /\ images' = images /\ categories' = categories /\ call' = call
      /\ cut' = cut /\ overlapped' = overlapped
  BY DEF Upload
<1>3. TypeOK /\ TypeOK'
  BY <1>1, <1>2 DEF CallsSound, TypeOK, Uploads
<1>4. Unborn(i)
  BY <1>1 DEF CallsSound
<1>5. \A t \in Calls : OnItsWay(t)' /\ UpToDate(t)'
  BY <1>2 DEF CallsSound, OnItsWay, UpToDate, Expected, Listed
<1>6. \A t \in Calls : BornOnce(t)'
  BY <1>1, <1>2, <1>3, <1>4 DEF CallsSound, BornOnce, Confirming, Unborn, TypeOK
<1>7. \A j \in Images : files'[j] \in {"none", "uploaded"} => Unborn(j)'
  BY <1>1, <1>2, <1>3 DEF CallsSound, Unborn, Confirming, TypeOK
<1> QED BY <1>3, <1>5, <1>6, <1>7 DEF CallsSound

\* Neither the categories nor a step that changes nothing concern the calls.
LEMMA OtherStepsSound ==
  ASSUME CallsSound, UNCHANGED << lot, images, files, call, cut, overlapped >>,
         categories' \subseteq Categories
  PROVE  CallsSound'
<1>1. TypeOK'
  BY DEF CallsSound, TypeOK
<1>2. \A t \in Calls : OnItsWay(t)' /\ UpToDate(t)' /\ BornOnce(t)'
  BY DEF CallsSound, OnItsWay, UpToDate, Expected, Listed, BornOnce, Confirming
<1>3. \A i \in Images : files'[i] \in {"none", "uploaded"} => Unborn(i)'
  BY DEF CallsSound, Unborn, Confirming
<1> QED BY <1>1, <1>2, <1>3 DEF CallsSound

\* CallsSound is kept by every step.
LEMMA CallsStaySound ==
  ASSUME CallsSound, [Next]_vars
  PROVE  CallsSound'
<1>1. categories \subseteq Categories
  BY DEF CallsSound, TypeOK
<1>2. ASSUME NEW t \in Calls, Request(t)
      PROVE  CallsSound'
  BY <1>2, ConfirmSound, OtherRequestSound DEF Request
<1>3. ASSUME NEW t \in Calls, CallStep(t)
      PROVE  CallsSound'
  BY <1>3, FindImagesSound, DeleteObjectsSound, SaveLotSound, BeginSaveSound,
     CommitSound, AbortSound DEF CallStep
<1>4. CASE CreateCategory \/ DeleteCategory
  BY <1>1, <1>4, OtherStepsSound DEF CreateCategory, DeleteCategory
<1>5. CASE UNCHANGED vars
  BY <1>1, <1>5, OtherStepsSound DEF vars
<1> QED BY <1>2, <1>3, <1>4, <1>5, UploadSound DEF Next

LEMMA CallsSoundInit ==
  ASSUME Init
  PROVE  CallsSound
<1>1. Idle \in CallState /\ NoImages \in [Images -> Image]
  BY IdleIsCall
<1>2. TypeOK
  BY <1>1 DEF Init, TypeOK, Uploads
<1>3. ASSUME NEW t \in Calls
      PROVE  OnItsWay(t) /\ BornOnce(t) /\ UpToDate(t)
  BY <1>3 DEF Init, OnItsWay, BornOnce, UpToDate, Idle, Saving, Confirming
<1>4. \A i \in Images : Unborn(i)
  BY DEF Init, Unborn, Idle, NoImages, NoImage, Confirming
<1> QED BY <1>2, <1>3, <1>4 DEF CallsSound

-----------------------------------------------------------------------------
(***************************************************************************)
(* What follows of single steps: LotKept.                                  *)
(***************************************************************************)

\* Only a commit changes the images, only saving a row the lot.
LEMMA WhoWrites ==
  ASSUME [Next]_vars
  PROVE  /\ images' = images \/ \E t \in Calls : Commit(t)
         /\ lot' = lot \/ \E t \in Calls : SaveLot(t)
<1>1. ASSUME NEW t \in Calls, Request(t) \/ CallStep(t)
      PROVE  /\ images' = images \/ \E s \in Calls : Commit(s)
             /\ lot' = lot \/ \E s \in Calls : SaveLot(s)
  BY <1>1 DEF Request, CallStep, FindImages, DeleteObjects, SaveLot, BeginSave,
              Commit, Abort
<1>2. CASE Upload \/ CreateCategory \/ DeleteCategory \/ UNCHANGED vars
  BY <1>2 DEF Upload, CreateCategory, DeleteCategory, vars
<1> QED BY <1>1, <1>2 DEF Next

LEMMA ImagesLeaveLawfully ==
  ASSUME CallsSound, [Next]_vars
  PROVE  ImagesLeave
<1> SUFFICES ASSUME NEW i \in Listed(images) \ Listed(images)'
             PROVE  \E t \in Calls :
                      /\ At(t, "commit")
                      /\ call[t].stale \/ (call[t].kind = "delete" /\ call[t].image = i)
  BY DEF ImagesLeave
<1>1. images' # images
  BY DEF Listed
<1>2. PICK t \in Calls : Commit(t)
  BY <1>1, WhoWrites
<1>3. ~call[t].stale => Listed(images)' = Expected(t)
  BY <1>2, CommittedRows
<1>4. ~call[t].stale => call[t].kind = "delete" /\ call[t].image = i
  BY <1>3 DEF Expected
<1> QED BY <1>2, <1>4 DEF Commit

LEMMA StatusChangesLawfully ==
  ASSUME CallsSound, [Next]_vars
  PROVE  StatusChanges
<1> SUFFICES ASSUME lot'.status # lot.status
             PROVE  \E t \in Calls :
                      /\ At(t, "save")
                      /\ \/ call[t].kind = "update" \/ call[t].stale
                         \/ call[t].kind = "confirm" /\ lot'.status = "ACTIVE"
  BY DEF StatusChanges
<1>1. PICK t \in Calls : SaveLot(t)
  BY WhoWrites
<1>2. call[t].pc = "save" /\ lot'.status = call[t].status
  BY <1>1 DEF SaveLot, At
<1>3. OnItsWay(t) /\ UpToDate(t) /\ call[t].kind \in Kinds
  BY DEF CallsSound, TypeOK, CallState
<1>4. call[t].kind = "confirm" => call[t].status = "ACTIVE"
  BY <1>2, <1>3 DEF OnItsWay
<1>5. call[t].kind \in {"delete", "reorder"} => call[t].stale
  BY <1>2, <1>3 DEF UpToDate
<1>6. call[t].kind # "none"
  BY <1>2, <1>3 DEF OnItsWay
<1> QED BY <1>2, <1>3, <1>4, <1>5, <1>6 DEF Kinds, At

-----------------------------------------------------------------------------
(***************************************************************************)
(* The images are in order, and have their files, until a call saves some  *)
(* that are out of date.                                                   *)
(***************************************************************************)
LotInOrder ==
  /\ InOrder(images)
  /\ \A t \in Calls :
       call[t].pc \in Saving /\ ~call[t].stale => InOrder(call[t].seen)
  /\ \A i \in Listed(images) : FileKept(i)

\* What others hold in order stays so, or is marked as out of date.
LEMMA OthersInOrder ==
  ASSUME LotInOrder, NEW t \in Calls,
         \A s \in Calls \ {t} :
           \/ call'[s] = call[s]
           \/ Unmoved(s) /\ call'[s].stale = Holding(s)
  PROVE  \A s \in Calls \ {t} :
           /\ Unmoved(s)
           /\ call'[s].pc \in Saving /\ ~call'[s].stale => InOrder(call'[s].seen)
<1> SUFFICES ASSUME NEW s \in Calls \ {t}
             PROVE  /\ Unmoved(s)
                    /\ call'[s].pc \in Saving /\ ~call'[s].stale =>
                         InOrder(call'[s].seen)
  OBVIOUS
<1>1. CASE call'[s] = call[s]
  BY <1>1 DEF LotInOrder, Unmoved
<1>2. CASE Unmoved(s) /\ call'[s].stale = Holding(s)
  BY <1>2 DEF Unmoved, Holding, Saving
<1> QED BY <1>1, <1>2

\* The file of an image, seen from a step of call t that leaves the file, or
\* fails.
LEMMA FileStays ==
  ASSUME NEW t \in Calls, NEW i \in Images, FileKept(i),
         \A s \in Calls \ {t} : Unmoved(s),
         cut \subseteq cut', files'[i] = files[i] \/ i \in cut',
         call[t].kind = "delete" /\ call[t].image = i /\ call[t].pc \in Saving =>
           \/ i \in cut'
           \/ /\ call'[t].kind = "delete" /\ call'[t].image = i
              /\ call'[t].pc \in Saving
  PROVE  FileKept(i)'
<1>1. CASE files[i] = "confirmed" \/ i \in cut'
  BY <1>1 DEF FileKept
<1>2. ASSUME NEW s \in Calls, call[s].kind = "delete", call[s].image = i,
             call[s].pc \in Saving
      PROVE  FileKept(i)'
  <2>1. CASE s = t
    BY <1>2, <2>1 DEF FileKept
  <2>2. CASE s # t
    <3>1. call'[s].kind = "delete" /\ call'[s].image = i /\ call'[s].pc \in Saving
      BY <1>2, <2>2 DEF Unmoved
    <3> QED BY <3>1 DEF FileKept
  <2> QED BY <2>1, <2>2
<1> QED BY <1>1, <1>2 DEF FileKept

LEMMA RequestInOrder ==
  ASSUME CallsSound, LotInOrder, NEW t \in Calls, Request(t)
  PROVE  LotInOrder'
<1>1. /\ images' = images /\ lot' = lot /\ categories' = categories /\ cut' = cut
      /\ overlapped' = overlapped /\ call[t].pc = "idle"
  BY DEF Request, At
<1>2. /\ \A s \in Calls \ {t} : call'[s] = call[s]
      /\ call'[t].pc = "images"
  <2>1. ASSUME NEW r \in CallState, Reads(t, r)
        PROVE  /\ \A s \in Calls \ {t} : call'[s] = call[s]
               /\ call'[t].pc = "images"
    <3>1. PICK status \in StatusOf(r.kind), category \in CategoryOf(r.kind) :
            Goes(t, [r EXCEPT !.pc = "images", !.status = status,
                              !.category = category])
      BY <2>1 DEF Reads
    <3>2. [r EXCEPT !.pc = "images", !.status = status, !.category = category].pc
            = "images"
      BY DEF CallState
    <3>3. call \in [Calls -> CallState]
      BY DEF CallsSound, TypeOK
    <3> HIDE DEF CallState
    <3> QED BY <3>1, <3>2, <3>3 DEF Goes
  <2>2. \E r \in CallState : Reads(t, r)
    <3> DEFINE Fits(r) == r \in CallState
    <3>1. Idle \in CallState
      BY IdleIsCall
    <3> HIDE DEF Idle
    <3>2. ASSUME NEW i \in Images, NEW p \in BOOLEAN
          PROVE  Fits([Idle EXCEPT !.kind = "confirm", !.image = i, !.primary = p])
      BY <3>1 DEF CallState, Kinds
    <3>3. ASSUME NEW i \in Images
          PROVE  Fits([Idle EXCEPT !.kind = "delete", !.image = i])
      BY <3>1 DEF CallState, Kinds
    <3>4. ASSUME NEW ids \in SUBSET Images
          PROVE  Fits([Idle EXCEPT !.kind = "reorder", !.ids = ids])
      BY <3>1 DEF CallState, Kinds
    <3>5. Fits([Idle EXCEPT !.kind = "update"])
      BY <3>1 DEF CallState, Kinds
    <3> QED BY <3>2, <3>3, <3>4, <3>5 DEF Request, Confirm, Delete, Reorder, Update
  <2> QED BY <2>1, <2>2
<1>3. \A s \in Calls \ {t} :
        /\ Unmoved(s)
        /\ call'[s].pc \in Saving /\ ~call'[s].stale => InOrder(call'[s].seen)
  BY <1>2, OthersInOrder
<1>4. \A s \in Calls : call'[s].pc \in Saving /\ ~call'[s].stale => InOrder(call'[s].seen)
  BY <1>2, <1>3 DEF Saving
<1>5. ASSUME NEW i \in Listed(images)
      PROVE  FileKept(i)'
  <2>1. FileKept(i) /\ i \in Images
    BY DEF LotInOrder, Listed
  <2>2. files'[i] = files[i]
    <3>1. CASE Confirm(t)
      <4>1. PICK j \in Images : files[j] = "uploaded"
                                /\ files' = [files EXCEPT ![j] = "confirmed"]
        BY <3>1 DEF Confirm
      <4>2. ~images[j].listed
        BY <4>1 DEF CallsSound, Unborn
      <4> QED BY <4>1, <4>2 DEF Listed
    <3>2. CASE ~Confirm(t)
      BY <3>2 DEF Request, Delete, Reorder, Update
    <3> QED BY <3>1, <3>2
  <2> QED BY <1>1, <1>3, <2>1, <2>2, FileStays DEF Saving
<1>6. Listed(images)' = Listed(images) /\ InOrder(images)'
  BY <1>1 DEF LotInOrder, InOrder, Numbered, OnePrimary, Count, Listed
<1> QED BY <1>4, <1>5, <1>6 DEF LotInOrder

\* A call's step that leaves the images, and what uploads it does not cut short.
LEMMA StepInOrder ==
  ASSUME LotInOrder, NEW t \in Calls, images' = images, cut \subseteq cut',
         \A i \in Images : files'[i] = files[i] \/ i \in cut',
         \A s \in Calls \ {t} :
           \/ call'[s] = call[s]
           \/ Unmoved(s) /\ call'[s].stale = Holding(s),
         call'[t].pc \in Saving /\ ~call'[t].stale => InOrder(call'[t].seen),
         call[t].kind = "delete" /\ call[t].pc \in Saving =>
           \/ call[t].image \in cut'
           \/ /\ call'[t].kind = "delete" /\ call'[t].image = call[t].image
              /\ call'[t].pc \in Saving
  PROVE  LotInOrder'
<1>1. \A s \in Calls \ {t} :
        /\ Unmoved(s)
        /\ call'[s].pc \in Saving /\ ~call'[s].stale => InOrder(call'[s].seen)
  BY OthersInOrder
<1>2. Listed(images)' = Listed(images) /\ InOrder(images)'
  BY DEF LotInOrder, InOrder, Numbered, OnePrimary, Count, Listed
<1>3. ASSUME NEW i \in Listed(images)
      PROVE  FileKept(i)'
  <2>1. FileKept(i) /\ i \in Images
    BY DEF LotInOrder, Listed
  <2> QED BY <1>1, <2>1, FileStays
<1>4. \A s \in Calls : call'[s].pc \in Saving /\ ~call'[s].stale => InOrder(call'[s].seen)
  BY <1>1
<1> QED BY <1>2, <1>3, <1>4 DEF LotInOrder

LEMMA AnswerInOrder ==
  ASSUME CallsSound, LotInOrder, NEW t \in Calls, Answer(t),
         images' = images, cut \subseteq cut',
         \A i \in Images : files'[i] = files[i] \/ i \in cut',
         call[t].kind = "delete" /\ call[t].pc \in Saving => call[t].image \in cut'
  PROVE  LotInOrder'
<1>1. TypeOK /\ Idle \in CallState /\ Goes(t, Idle)
  BY IdleIsCall DEF CallsSound, Answer
<1>2. call'[t] = Idle /\ \A s \in Calls \ {t} : call'[s] = call[s]
  BY <1>1, GoesAlone
<1>3. call'[t].pc \notin Saving
  BY <1>2 DEF Idle, Saving
<1> QED BY <1>2, <1>3, StepInOrder

LEMMA FailsInOrder ==
  ASSUME CallsSound, LotInOrder, NEW t \in Calls, Fails(t), images' = images,
         files' = files \/ TakesFile(t)
  PROVE  LotInOrder'
<1>1. Answer(t) /\ cut \subseteq cut' /\ (call[t].kind = "delete" => call[t].image \in cut')
  BY DEF Fails
<1>2. \A i \in Images : files'[i] = files[i] \/ i \in cut'
  BY <1>1 DEF CallsSound, TypeOK, TakesFile, FileGoes
<1> QED BY <1>1, <1>2, AnswerInOrder

LEMMA FindImagesInOrder ==
  ASSUME CallsSound, LotInOrder, NEW t \in Calls, FindImages(t)
  PROVE  LotInOrder'
<1>1. /\ images' = images /\ files' = files /\ cut' = cut /\ call[t].pc = "images"
      /\ call[t].pc \notin Saving
  BY DEF FindImages, At, Saving
<1>2. CASE Answer(t)
  BY <1>1, <1>2, AnswerInOrder
<1>3. CASE ~Answer(t)
  <2>1. PICK rows \in [Images -> Image], pc \in {"objects", "save"} :
          /\ Holds(t, rows, pc)
          /\ pc = "save" /\ InOrder(images) => InOrder(rows)
    BY <1>3, FoundRows
  <2>2. call[t].kind # "none" /\ pc \in Steps \ {"idle"}
    BY <1>1 DEF CallsSound, OnItsWay, Steps, Saving
  <2>3. /\ call'[t].pc = pc /\ call'[t].seen = rows
        /\ \A s \in Calls \ {t} : call'[s] = call[s]
    BY <2>1, <2>2, HoldsRows
  <2>4. call'[t].pc \in Saving => InOrder(call'[t].seen)
    BY <2>1, <2>3 DEF Saving, LotInOrder
  <2> QED BY <1>1, <2>3, <2>4, StepInOrder
<1> QED BY <1>2, <1>3

LEMMA DeleteObjectsInOrder ==
  ASSUME CallsSound, LotInOrder, NEW t \in Calls, DeleteObjects(t)
  PROVE  LotInOrder'
<1>1. images' = images /\ call[t].pc = "objects"
  BY DEF DeleteObjects, At
<1>2. TypeOK /\ OnItsWay(t) /\ UpToDate(t)
  BY DEF CallsSound
<1>3. call[t].kind = "delete" /\ call[t].seen[call[t].image].listed
  BY <1>1, <1>2 DEF OnItsWay
<1>4. CASE Fails(t)
  <2>1. files' = files \/ TakesFile(t)
    BY <1>3 DEF DeleteObjects, TakesFile, FileGoes
  <2> QED BY <1>1, <1>4, <2>1, FailsInOrder
<1>5. CASE ~Fails(t)
  <2>1. cut' = cut /\ files' = [files EXCEPT ![call[t].image] = "gone"]
    BY <1>5 DEF DeleteObjects, FileGoes
  <2>2. PICK rows \in [Images -> Image] :
          /\ Holds(t, rows, "save")
          /\ InOrder(call[t].seen) => InOrder(rows)
    BY <1>5, DeleteObjectsRows
  <2>3. "save" \in Steps \ {"idle"}
    BY DEF Steps, Saving
  <2>4. /\ call'[t].pc = "save" /\ call'[t].seen = rows /\ call'[t].stale = call[t].stale
        /\ call'[t].kind = "delete" /\ call'[t].image = call[t].image
        /\ \A s \in Calls \ {t} : call'[s] = call[s]
    BY <1>3, <2>2, <2>3, HoldsRows
  <2>5. ~call[t].stale => InOrder(rows)
    BY <1>1, <1>2, <2>2 DEF UpToDate, LotInOrder
  <2>6. \A s \in Calls \ {t} :
          /\ Unmoved(s)
          /\ call'[s].pc \in Saving /\ ~call'[s].stale => InOrder(call'[s].seen)
    BY <2>4, OthersInOrder
  <2>7. \A s \in Calls : call'[s].pc \in Saving /\ ~call'[s].stale => InOrder(call'[s].seen)
    BY <2>4, <2>5, <2>6
  <2>8. Listed(images)' = Listed(images) /\ InOrder(images)'
    BY <1>1 DEF LotInOrder, InOrder, Numbered, OnePrimary, Count, Listed
  <2>9. ASSUME NEW i \in Listed(images)
        PROVE  FileKept(i)'
    <3>1. FileKept(i) /\ i \in Images
      BY DEF LotInOrder, Listed
    <3>2. CASE i = call[t].image
      BY <2>4, <3>2 DEF FileKept, Saving
    <3>3. CASE i # call[t].image
      <4>1. files'[i] = files[i]
        BY <1>2, <2>1, <3>1, <3>3 DEF TypeOK
      <4> QED BY <1>1, <2>1, <2>4, <2>6, <3>1, <3>3, <4>1, FileStays
    <3> QED BY <3>2, <3>3
  <2> QED BY <2>7, <2>8, <2>9 DEF LotInOrder
<1> QED BY <1>4, <1>5

LEMMA SaveLotInOrder ==
  ASSUME CallsSound, LotInOrder, NEW t \in Calls, SaveLot(t)
  PROVE  LotInOrder'
<1>1. /\ images' = images /\ files' = files /\ call[t].pc = "save"
      /\ call[t].pc \in Saving
  BY DEF SaveLot, At, Saving
<1>2. CASE call[t].category \notin categories \cup {None}
  BY <1>1, <1>2, FailsInOrder DEF SaveLot
<1>3. CASE call[t].category \in categories \cup {None}
  <2>1. /\ cut' = cut
        /\ call'[t].kind = call[t].kind /\ call'[t].image = call[t].image
        /\ call'[t].pc = "delete" /\ call'[t].seen = call[t].seen
        /\ call'[t].stale = call[t].stale
        /\ \A s \in Calls \ {t} : Unmoved(s) /\ call'[s].stale = Holding(s)
    BY <1>3, SavedRow
  <2>2. call'[t].pc \in Saving
    BY <2>1 DEF Saving
  <2>3. ~call'[t].stale => InOrder(call'[t].seen)
    BY <1>1, <2>1 DEF LotInOrder
  <2> QED BY <1>1, <2>1, <2>2, <2>3, StepInOrder
<1> QED BY <1>2, <1>3

LEMMA BeginSaveInOrder ==
  ASSUME CallsSound, LotInOrder, NEW t \in Calls, BeginSave(t)
  PROVE  LotInOrder'
<1>1. /\ images' = images /\ files' = files /\ cut' = cut /\ call[t].pc \in Saving
  BY DEF BeginSave, At, Saving
<1>2. /\ call'[t].seen = call[t].seen /\ call'[t].stale = call[t].stale
      /\ call'[t].pc = "commit" /\ call'[t].kind = call[t].kind
      /\ call'[t].image = call[t].image
      /\ \A s \in Calls \ {t} : call'[s] = call[s]
  BY BeginSaveSound
<1>3. call'[t].pc \in Saving
  BY <1>2 DEF Saving
<1>4. ~call'[t].stale => InOrder(call'[t].seen)
  BY <1>1, <1>2 DEF LotInOrder
<1> QED BY <1>1, <1>2, <1>3, <1>4, StepInOrder

\* A commit of what is up to date: the images are those of the call.
LEMMA CommitInOrder ==
  ASSUME CallsSound, LotInOrder, NEW t \in Calls, Commit(t), ~call[t].stale
  PROVE  LotInOrder'
<1>1. /\ files' = files /\ cut' = cut /\ call[t].pc = "commit" /\ call[t].pc \in Saving
  BY DEF Commit, At, Saving
<1>2. /\ images' = call[t].seen /\ Listed(images)' = Expected(t)
      /\ call'[t] = Idle
      /\ \A s \in Calls \ {t} : Unmoved(s) /\ call'[s].stale = Holding(s)
  BY CommittedRows
<1>3. \A s \in Calls \ {t} :
        /\ Unmoved(s)
        /\ call'[s].pc \in Saving /\ ~call'[s].stale => InOrder(call'[s].seen)
  BY <1>2, OthersInOrder
<1>4. \A s \in Calls : call'[s].pc \in Saving /\ ~call'[s].stale => InOrder(call'[s].seen)
  BY <1>2, <1>3 DEF Idle, Saving
<1>5. InOrder(images)'
  <2>1. InOrder(call[t].seen)
    BY <1>1 DEF LotInOrder
  <2> QED BY <1>2, <2>1 DEF InOrder, Numbered, OnePrimary, Count, Listed
<1>6. ASSUME NEW i \in Listed(images)'
      PROVE  FileKept(i)'
  <2>1. i \in Images
    BY DEF Listed
  <2>2. CASE Confirming(t, i)
    BY <1>1, <2>1, <2>2 DEF CallsSound, BornOnce, FileKept
  <2>3. CASE ~Confirming(t, i)
    <3>1. i \in Listed(images) /\ ~(call[t].kind = "delete" /\ call[t].image = i)
      BY <1>2, <1>6, <2>3 DEF Expected, Confirming
    <3>2. FileKept(i) /\ files'[i] = files[i]
      BY <1>1, <3>1 DEF LotInOrder
    <3> QED BY <1>1, <1>3, <2>1, <3>1, <3>2, FileStays
  <2> QED BY <2>2, <2>3
<1> QED BY <1>4, <1>5, <1>6 DEF LotInOrder

\* A step that no listed image, and no call, takes part in.
LEMMA RestInOrder ==
  ASSUME LotInOrder, UNCHANGED << images, call, cut >>,
         \A i \in Listed(images) : files'[i] = files[i]
  PROVE  LotInOrder'
<1>1. Listed(images)' = Listed(images) /\ InOrder(images)'
  BY DEF LotInOrder, InOrder, Numbered, OnePrimary, Count, Listed
<1>2. ASSUME NEW t \in Calls, call'[t].pc \in Saving, ~call'[t].stale
      PROVE  InOrder(call[t].seen)'
  <2>1. InOrder(call[t].seen) /\ call'[t].seen = call[t].seen
    BY <1>2 DEF LotInOrder
  <2> QED BY <2>1 DEF InOrder, Numbered, OnePrimary, Count, Listed
<1>3. ASSUME NEW i \in Listed(images)
      PROVE  FileKept(i)'
  BY <1>3 DEF LotInOrder, FileKept
<1> QED BY <1>1, <1>2, <1>3 DEF LotInOrder

LEMMA UploadInOrder ==
  ASSUME CallsSound, LotInOrder, Upload
  PROVE  LotInOrder'
<1>1. PICK i \in Images : files[i] = "none" /\ files' = [files EXCEPT ![i] = "uploaded"]
  BY DEF Upload
<1>2. images' = images /\ call' = call /\ cut' = cut
  BY DEF Upload
<1>3. i \notin Listed(images)
  BY <1>1 DEF CallsSound, Unborn, Listed
<1>4. \A j \in Listed(images) : files'[j] = files[j]
  BY <1>1, <1>3
<1> QED BY <1>2, <1>4, RestInOrder

\* LotSound is kept by every step.
LEMMA LotStaysSound ==
  ASSUME LotSound, [Next]_vars
  PROVE  LotSound'
<1>1. CallsSound /\ CallsSound'
  BY CallsStaySound DEF LotSound
<1>2. overlapped \in BOOLEAN /\ overlapped' \in BOOLEAN
  BY <1>1 DEF CallsSound, TypeOK
<1> SUFFICES ASSUME ~overlapped'
             PROVE  LotInOrder'
  BY <1>1 DEF LotSound, LotInOrder
<1>3. ~overlapped /\ LotInOrder
  <2>1. ASSUME NEW t \in Calls, Request(t) \/ CallStep(t)
        PROVE  ~overlapped
    BY <2>1 DEF Request, CallStep, FindImages, DeleteObjects, SaveLot, BeginSave,
                Commit, Abort
  <2>2. ~overlapped
    BY <2>1 DEF Next, Upload, CreateCategory, DeleteCategory, vars
  <2> QED BY <2>2 DEF LotSound, LotInOrder
<1>4. ASSUME NEW t \in Calls, CallStep(t)
      PROVE  LotInOrder'
  <2>1. CASE Commit(t)
    <3>1. ~call[t].stale
      BY <2>1 DEF Commit
    <3> QED BY <1>1, <1>3, <2>1, <3>1, CommitInOrder
  <2>2. CASE Abort(t)
    BY <1>1, <1>3, <2>2, FailsInOrder DEF Abort
  <2> QED BY <1>1, <1>3, <1>4, <2>1, <2>2, FindImagesInOrder, DeleteObjectsInOrder,
             SaveLotInOrder, BeginSaveInOrder DEF CallStep
<1>5. CASE CreateCategory \/ DeleteCategory \/ UNCHANGED vars
  <2>1. images' = images /\ files' = files /\ call' = call /\ cut' = cut
    BY <1>5 DEF CreateCategory, DeleteCategory, vars
  <2> QED BY <1>3, <2>1, RestInOrder
<1> QED BY <1>1, <1>3, <1>4, <1>5, RequestInOrder, UploadInOrder DEF Next

-----------------------------------------------------------------------------
(***************************************************************************)
(* The page.                                                               *)
(***************************************************************************)

\* What a step of a call leaves of it and of the others: a call goes on under
\* its kind and with its image, or it ends.
LEMMA CallGoesOn ==
  ASSUME CallsSound, NEW t \in Calls, CallStep(t)
  PROVE  /\ \A s \in Calls \ {t} : Unmoved(s)
         /\ \/ call'[t] = Idle
            \/ call'[t].kind = call[t].kind /\ call'[t].image = call[t].image
<1>1. TypeOK /\ Idle \in CallState /\ OnItsWay(t)
  BY IdleIsCall DEF CallsSound
<1>2. ASSUME Answer(t)
      PROVE  call'[t] = Idle /\ \A s \in Calls \ {t} : Unmoved(s)
  BY <1>1, <1>2, GoesAlone DEF Answer
<1>3. CASE FindImages(t)
  <2>1. CASE ~Answer(t)
    <3>1. PICK rows \in [Images -> Image], pc \in {"objects", "save"} : Holds(t, rows, pc)
      BY <1>3, <2>1, FoundRows
    <3>2. call[t].kind # "none" /\ pc \in Steps \ {"idle"}
      BY <1>1, <1>3 DEF OnItsWay, FindImages, At, Steps, Saving
    <3> QED BY <3>1, <3>2, HoldsRows
  <2> QED BY <1>2, <2>1
<1>4. CASE DeleteObjects(t)
  <2>1. CASE ~Fails(t)
    <3>1. PICK rows \in [Images -> Image] : Holds(t, rows, "save")
      BY <1>4, <2>1, DeleteObjectsRows
    <3>2. call[t].kind # "none" /\ "save" \in Steps \ {"idle"}
      BY <1>1, <1>4 DEF OnItsWay, DeleteObjects, At, Steps, Saving
    <3> QED BY <3>1, <3>2, HoldsRows
  <2> QED BY <1>2, <2>1 DEF Fails
<1>5. CASE SaveLot(t)
  <2>1. CASE call[t].category \in categories \cup {None}
    BY <1>5, <2>1, SavedRow
  <2>2. CASE call[t].category \notin categories \cup {None}
    BY <1>2, <1>5, <2>2 DEF SaveLot, Fails
  <2> QED BY <2>1, <2>2
<1>6. CASE BeginSave(t)
  BY <1>6, BeginSaveSound DEF Unmoved
<1>7. CASE Commit(t)
  BY <1>7, CommittedRows
<1>8. CASE Abort(t)
  BY <1>2, <1>8 DEF Abort, Fails
<1> QED BY <1>3, <1>4, <1>5, <1>6, <1>7, <1>8 DEF CallStep

\* An image once settled has no confirmation any more, and keeps its upload
\* or loses it for good.
LEMMA SettledStays ==
  ASSUME CallsSound, [Next]_vars, NEW i \in Images
  PROVE  /\ files[i] \notin {"none", "uploaded"} => files'[i] \notin {"none", "uploaded"}
         /\ Settled(i) => Settled(i)'
<1>1. ASSUME NEW t \in Calls, Request(t)
      PROVE  /\ files[i] \notin {"none", "uploaded"} =>
                  files'[i] \notin {"none", "uploaded"}
             /\ Settled(i) => Settled(i)'
  <2>1. call \in [Calls -> CallState] /\ files \in [Images -> Uploads]
    BY DEF CallsSound, TypeOK
  <2>2. \A s \in Calls \ {t} : call'[s] = call[s]
    BY <1>1, <2>1 DEF Request, Confirm, Delete, Reorder, Update, Reads, Goes
  <2>3. CASE Confirm(t)
    <3>1. /\ call'[t].image \in Images /\ files[call'[t].image] = "uploaded"
          /\ files' = [files EXCEPT ![call'[t].image] = "confirmed"]
      BY <1>1, <2>3, ConfirmSound DEF Request
    <3> QED BY <2>1, <2>2, <3>1 DEF Settled, Confirming
  <2>4. CASE ~Confirm(t)
    <3>1. files' = files /\ call'[t].kind # "confirm"
      BY <1>1, <2>4, OtherRequestSound DEF Request
    <3> QED BY <2>2, <3>1 DEF Settled, Confirming
  <2> QED BY <2>3, <2>4
<1>2. ASSUME NEW t \in Calls, CallStep(t)
      PROVE  /\ files[i] \notin {"none", "uploaded"} =>
                  files'[i] \notin {"none", "uploaded"}
             /\ Settled(i) => Settled(i)'
  <2>1. /\ \A s \in Calls \ {t} : Unmoved(s)
        /\ \/ call'[t] = Idle
           \/ call'[t].kind = call[t].kind /\ call'[t].image = call[t].image
    BY <1>2, CallGoesOn
  <2>2. files' = files \/ files' = [files EXCEPT ![call[t].image] = "gone"]
    BY <1>2 DEF CallStep, FindImages, DeleteObjects, FileGoes, SaveLot, BeginSave,
                Commit, Abort
  <2>3. files'[i] = files[i] \/ files'[i] = "gone"
    BY <2>2 DEF CallsSound, TypeOK
  <2>4. \A s \in Calls : Confirming(s, i)' => Confirming(s, i)
    BY <2>1 DEF Confirming, Unmoved, Idle
  <2> QED BY <2>3, <2>4 DEF Settled
<1>3. CASE Upload
  BY <1>3 DEF Upload, Settled, Confirming, CallsSound, TypeOK
<1>4. CASE CreateCategory \/ DeleteCategory \/ UNCHANGED vars
  BY <1>4 DEF CreateCategory, DeleteCategory, vars, Settled, Confirming
<1> QED BY <1>1, <1>2, <1>3, <1>4 DEF Next

\* A listed image is settled.
LEMMA ListedIsSettled ==
  ASSUME CallsSound, NEW i \in Listed(images)
  PROVE  Settled(i)
BY DEF CallsSound, Settled, Unborn, BornOnce, Listed

\* The page's steps are the catalogue's, or none.
LEMMA EditorStepsAreCatalogues ==
  ASSUME [EditorNext]_editorVars
  PROVE  [Next]_vars
BY DEF EditorNext, editorVars, PageAsks, OtherAsks, CallRuns, PageHears, PageMisses,
       Open, Leave, CategoryTree, Next, CallStep, vars

\* What the uploader knows of its calls.
PageSound ==
  /\ EditorTypeOK
  /\ \A t \in Calls : AskedSound(t)
  /\ \A i \in page.shown \cup unheard : page.open /\ Settled(i)

LEMMA UnaskedIsAnswer ==
  /\ Unasked \in Answers /\ Unasked.answer = "sent"
  /\ Unasked.kind = "none" /\ Unasked.image = None /\ None \notin Images
BY CatalogueAssumption DEF Unasked, Answers

\* A page that is gone waits for nothing.
LEMMA GoneIsSound ==
  ASSUME PageGone
  PROVE  PageSound' /\ ~page'.open
BY UnaskedIsAnswer DEF PageGone, PageSound, EditorTypeOK, Away, Pages, AskedSound

\* A page that stays as it is, while the calls it waits for go on or end.
LEMMA StaysSound ==
  ASSUME CallsSound, PageSound, PageStays, [Next]_vars,
         \A t \in Calls :
           Waits(t) => call'[t].kind = call[t].kind /\ call'[t].image = call[t].image
  PROVE  PageSound'
<1>1. \A i \in Images :
        /\ files[i] \notin {"none", "uploaded"} => files'[i] \notin {"none", "uploaded"}
        /\ Settled(i) => Settled(i)'
  BY SettledStays
<1>2. page' = page /\ asked' = asked /\ unheard' = unheard
  BY DEF PageStays
<1>3. ASSUME NEW t \in Calls
      PROVE  AskedSound(t)'
  <2>1. AskedSound(t)
    BY DEF PageSound
  <2> QED BY <1>1, <1>2, <2>1 DEF AskedSound, Waits
<1>4. \A i \in page'.shown \cup unheard' : page'.open /\ Settled(i)'
  BY <1>1, <1>2 DEF PageSound, EditorTypeOK, Pages
<1> QED BY <1>2, <1>3, <1>4 DEF PageSound, EditorTypeOK

LEMMA RequestLeavesOthers ==
  ASSUME CallsSound, NEW t \in Calls, Request(t)
  PROVE  /\ \A s \in Calls \ {t} : call'[s] = call[s]
         /\ images' = images /\ overlapped' = overlapped
BY DEF CallsSound, TypeOK, Request, Confirm, Delete, Reorder, Update, Reads, Goes

LEMMA OtherAsksSound ==
  ASSUME CallsSound, PageSound, NEW t \in Calls, OtherAsks(t), [Next]_vars
  PROVE  PageSound'
<1>1. /\ asked[t] = Unasked /\ Request(t) /\ PageStays
      /\ \A s \in Calls \ {t} : call'[s] = call[s]
  BY RequestLeavesOthers DEF OtherAsks
<1> QED BY <1>1, StaysSound DEF Waits

\* The uploader asks about an image that is its to ask about.
LEMMA PageAsksSound ==
  ASSUME CallsSound, CallsSound', PageSound, NEW t \in Calls, PageAsks(t), [Next]_vars
  PROVE  PageSound'
<1>1. /\ asked[t] = Unasked /\ Request(t) /\ page.open /\ Offers(call'[t])
      /\ page' = page /\ unheard' = unheard
      /\ \A s \in Calls \ {t} : call'[s] = call[s]
  BY RequestLeavesOthers DEF PageAsks
<1>2. CASE call'[t].kind \notin {"confirm", "delete"}
  <2>1. PageStays
    BY <1>1, <1>2 DEF PageAsks, PageStays
  <2> QED BY <1>1, <2>1, StaysSound DEF Waits
<1>3. CASE call'[t].kind \in {"confirm", "delete"}
  <2>1. PICK i \in Images : call'[t].image = i
    BY <1>3 DEF CallsSound, OnItsWay
  <2> DEFINE a == [kind |-> call'[t].kind, image |-> i, answer |-> "sent"]
  <2>2. asked \in [Calls -> Answers] /\ asked' = [asked EXCEPT ![t] = a]
    BY <1>3, <2>1 DEF PageAsks, PageSound, EditorTypeOK
  <2>3. a.kind = call'[t].kind /\ a.image = i /\ a.answer = "sent" /\ a \in Answers
    BY <1>3, <2>1 DEF Answers
  <2> HIDE DEF a
  <2>4. asked'[t] = a /\ \A s \in Calls \ {t} : asked'[s] = asked[s]
    BY <2>2
  <2>5. \A j \in Images :
          /\ files[j] \notin {"none", "uploaded"} => files'[j] \notin {"none", "uploaded"}
          /\ Settled(j) => Settled(j)'
    BY SettledStays
  <2>6. call'[t].kind = "confirm" =>
          files[i] = "uploaded" /\ files'[i] \notin {"none", "uploaded"}
    <3>1. ASSUME call'[t].kind = "confirm"
          PROVE  Confirm(t)
      BY <1>1, <3>1, OtherRequestSound DEF Request
    <3>2. ASSUME Confirm(t)
          PROVE  files[i] = "uploaded" /\ files' = [files EXCEPT ![i] = "confirmed"]
      BY <1>1, <2>1, <3>2, ConfirmSound DEF Request
    <3> QED BY <2>1, <3>1, <3>2 DEF CallsSound, TypeOK
  <2>7. call'[t].kind = "delete" => i \in page.shown
    BY <1>1, <2>1 DEF Offers
  <2>8. \A j \in page.shown \cup unheard : Settled(j) /\ j \in Images
    BY <1>1 DEF PageSound, EditorTypeOK, Pages
  <2>9. ASSUME NEW s \in Calls \ {t}, asked[s].image = i
        PROVE  call'[t].kind = "delete" /\ asked[s].kind = "delete"
    <3>1. asked[s] # Unasked /\ AskedSound(s)
      BY <2>1, <2>9, UnaskedIsAnswer DEF PageSound
    <3>2. asked[s].kind = "confirm" =>
            files[i] \notin {"none", "uploaded"} /\ i \notin page.shown
      BY <2>9, <3>1 DEF AskedSound
    <3>3. asked[s].kind = "delete" => files[i] \notin {"none", "uploaded"}
      BY <2>9, <3>1 DEF AskedSound, Settled
    <3>4. asked[s].kind \in {"confirm", "delete"}
      BY <3>1 DEF AskedSound
    <3> QED BY <1>3, <2>6, <2>7, <3>2, <3>3, <3>4
  <2>10. AskedSound(t)'
    <3>1. i \notin page.shown \cup unheard \/ call'[t].kind = "delete"
      BY <1>3, <2>6, <2>8 DEF Settled
    <3>2. call'[t].kind = "delete" => Settled(i)'
      BY <2>5, <2>7, <2>8
    <3>3. call'[t].kind = "confirm" => \A s \in Calls : asked'[s].image = i => s = t
      BY <2>4, <2>9
    <3> QED BY <1>1, <1>3, <2>1, <2>3, <2>4, <2>6, <3>1, <3>2, <3>3 DEF AskedSound
  <2>11. ASSUME NEW s \in Calls \ {t}
         PROVE  AskedSound(s)'
    <3>1. AskedSound(s) /\ asked'[s] = asked[s] /\ call'[s] = call[s]
      BY <1>1, <2>4 DEF PageSound
    <3>2. asked[s] # Unasked /\ asked[s].kind = "confirm" =>
            \A u \in Calls : asked'[u].image = asked[s].image => u = s
      <4>1. asked'[t].image = asked[s].image => asked[s].kind = "delete"
        BY <2>3, <2>4, <2>9
      <4> QED BY <2>4, <3>1, <4>1 DEF AskedSound
    <3> QED BY <1>1, <2>5, <3>1, <3>2 DEF AskedSound
  <2>12. asked' \in [Calls -> Answers]
    BY <2>2, <2>3
  <2>13. \A j \in page'.shown \cup unheard' : Settled(j)'
    BY <1>1, <2>5, <2>8
  <2> QED BY <1>1, <2>10, <2>11, <2>12, <2>13 DEF PageSound, EditorTypeOK
<1> QED BY <1>2, <1>3

\* What a step of a call does to what the uploader waits for.
LEMMA CallAnswers ==
  ASSUME CallsSound, NEW t \in Calls, CallRuns(t)
  PROVE  /\ CallStep(t)
         /\ \/ PageGone
            \/ /\ PageStays
               /\ Waits(t) => call'[t].kind = call[t].kind /\ call'[t].image = call[t].image
               /\ images' = images \/ (Commit(t) /\ Listed(images') = Listed(images))
            \/ \E answer \in {"ok", "failed"} :
                 /\ Waits(t) /\ page' = page /\ unheard' = unheard
                 /\ asked' = [asked EXCEPT ![t].answer = answer]
                 /\ call'[t] = Idle
                 /\ answer = "ok" => Commit(t)
                 /\ answer = "failed" => images' = images
<1>1. CallStep(t)
  BY DEF CallRuns, CallStep
<1>2. \/ call'[t] = Idle
      \/ call'[t].kind = call[t].kind /\ call'[t].image = call[t].image
  BY <1>1, CallGoesOn
<1>3. CASE Commit(t) /\ Replies(t, "ok")
  <2>1. call'[t] = Idle
    BY <1>3, CommittedRows
  <2> QED BY <1>1, <1>3, <2>1 DEF Replies
<1>4. CASE /\ FindImages(t) \/ DeleteObjects(t) \/ SaveLot(t) \/ BeginSave(t) \/ Abort(t)
           /\ IF call'[t] = Idle THEN Replies(t, "failed") ELSE PageStays
  <2>1. images' = images
    BY <1>4 DEF FindImages, DeleteObjects, SaveLot, BeginSave, Abort
  <2>2. CASE call'[t] = Idle
    BY <1>1, <1>4, <2>1, <2>2 DEF Replies
  <2>3. CASE call'[t] # Idle
    BY <1>1, <1>2, <1>4, <2>1, <2>3
  <2> QED BY <2>2, <2>3
<1> QED BY <1>3, <1>4 DEF CallRuns

\* A call that the uploader waits for ends.
LEMMA AnsweredSound ==
  ASSUME CallsSound, PageSound, NEW t \in Calls, CallStep(t), Waits(t),
         page' = page, unheard' = unheard,
         NEW answer \in {"ok", "failed"}, asked' = [asked EXCEPT ![t].answer = answer],
         call'[t] = Idle, [Next]_vars
  PROVE  PageSound'
<1>1. \A s \in Calls \ {t} : Unmoved(s)
  BY CallGoesOn
<1>2. /\ asked \in [Calls -> Answers] /\ asked[t] # Unasked /\ asked[t].answer = "sent"
      /\ AskedSound(t)
  BY DEF PageSound, EditorTypeOK, Waits
<1>3. \A j \in Images :
        /\ files[j] \notin {"none", "uploaded"} => files'[j] \notin {"none", "uploaded"}
        /\ Settled(j) => Settled(j)'
  BY SettledStays
<1>4. /\ asked'[t] \in Answers
      /\ asked'[t].kind = asked[t].kind /\ asked'[t].image = asked[t].image
      /\ asked'[t].answer = answer
      /\ \A s \in Calls \ {t} : asked'[s] = asked[s]
  BY <1>2 DEF Answers
<1>5. asked' \in [Calls -> Answers]
  BY <1>2, <1>4
<1>6. PICK i \in Images : asked[t].image = i
  BY <1>2 DEF AskedSound
<1>7. Settled(i)'
  <2>1. CASE asked[t].kind = "delete"
    BY <1>2, <1>3, <1>6, <2>1 DEF AskedSound
  <2>2. CASE asked[t].kind = "confirm"
    <3>1. Confirming(t, i) /\ files[i] \notin {"none", "uploaded"}
      BY <1>2, <1>6, <2>2 DEF AskedSound, Confirming
    <3>2. \A s \in Calls \ {t} : ~Confirming(s, i)
      BY <3>1 DEF CallsSound, BornOnce
    <3>3. \A s \in Calls : ~Confirming(s, i)'
      BY <1>1, <3>2 DEF Confirming, Unmoved, Idle
    <3> QED BY <1>3, <3>1, <3>3 DEF Settled
  <2> QED BY <1>2, <2>1, <2>2 DEF AskedSound
<1>8. \A u \in Calls : asked'[u].image = asked[u].image
  BY <1>4
<1>9. AskedSound(t)'
  BY <1>2, <1>3, <1>4, <1>6, <1>7, <1>8 DEF AskedSound
<1>10. ASSUME NEW s \in Calls \ {t}
       PROVE  AskedSound(s)'
  <2>1. AskedSound(s) /\ asked'[s] = asked[s] /\ Unmoved(s)
    BY <1>1, <1>4 DEF PageSound
  <2> QED BY <1>3, <1>8, <2>1 DEF AskedSound, Unmoved
<1>11. \A j \in page'.shown \cup unheard' : page'.open /\ Settled(j)'
  BY <1>3 DEF PageSound, EditorTypeOK, Pages
<1> QED BY <1>5, <1>9, <1>10, <1>11 DEF PageSound, EditorTypeOK

LEMMA CallRunsSound ==
  ASSUME CallsSound, PageSound, NEW t \in Calls, CallRuns(t), [Next]_vars
  PROVE  PageSound'
<1>1. CallStep(t)
  BY CallAnswers
<1>2. CASE PageGone
  BY <1>2, GoneIsSound
<1>3. CASE /\ PageStays
           /\ Waits(t) => call'[t].kind = call[t].kind /\ call'[t].image = call[t].image
  <2>1. \A s \in Calls \ {t} : Unmoved(s)
    BY <1>1, CallGoesOn
  <2> QED BY <1>3, <2>1, StaysSound DEF Unmoved
<1>4. CASE \E answer \in {"ok", "failed"} :
             /\ Waits(t) /\ page' = page /\ unheard' = unheard /\ call'[t] = Idle
             /\ asked' = [asked EXCEPT ![t].answer = answer]
  BY <1>1, <1>4, AnsweredSound
<1> QED BY <1>2, <1>3, <1>4, CallAnswers

\* What the page shows after an answer.
LEMMA HeardShown ==
  ASSUME PageSound, NEW t \in Calls, PageHears(t)
  PROVE  /\ asked[t] # Unasked /\ asked[t].image \in Images /\ page.open
         /\ page'.open = page.open /\ unheard' = unheard
         /\ page'.shown =
              IF asked[t].answer # "ok" THEN page.shown
              ELSE IF asked[t].kind = "confirm" THEN page.shown \cup {asked[t].image}
              ELSE page.shown \ {asked[t].image}
         /\ page' \in Pages
         /\ asked' \in [Calls -> Answers] /\ asked'[t] = Unasked
         /\ \A s \in Calls \ {t} : asked'[s] = asked[s]
<1>1. page \in Pages /\ asked \in [Calls -> Answers] /\ AskedSound(t)
  BY DEF PageSound, EditorTypeOK
<1>2. /\ asked[t].answer # "sent"
      /\ page' = [page EXCEPT !.shown = ShownAfter(asked[t])]
      /\ asked' = [asked EXCEPT ![t] = Unasked] /\ unheard' = unheard
  BY DEF PageHears
<1>3. asked[t] # Unasked
  BY <1>2, UnaskedIsAnswer
<1>4. /\ asked[t].kind \in {"confirm", "delete"} /\ asked[t].image \in Images /\ page.open
      /\ asked[t].answer \in {"ok", "failed"}
  BY <1>1, <1>2, <1>3 DEF AskedSound, Answers
<1>5. ShownAfter(asked[t]) =
        IF asked[t].answer # "ok" THEN page.shown
        ELSE IF asked[t].kind = "confirm" THEN page.shown \cup {asked[t].image}
        ELSE page.shown \ {asked[t].image}
  BY <1>4 DEF ShownAfter
<1>6. ShownAfter(asked[t]) \in SUBSET Images
  BY <1>1, <1>4, <1>5 DEF Pages
<1>7. /\ page' \in Pages /\ page'.open = page.open
      /\ page'.shown = ShownAfter(asked[t])
  BY <1>1, <1>2, <1>6 DEF Pages
<1> QED BY <1>1, <1>2, <1>3, <1>4, <1>5, <1>7, UnaskedIsAnswer

LEMMA PageHearsSound ==
  ASSUME CallsSound, PageSound, NEW t \in Calls, PageHears(t)
  PROVE  PageSound'
<1>1. call' = call /\ files' = files /\ images' = images
  BY DEF PageHears, vars
<1>2. AskedSound(t) /\ asked[t].answer # "sent"
  BY DEF PageSound, PageHears
<1>3. PICK i \in Images : asked[t].image = i
  BY HeardShown
<1>4. Settled(i) /\ asked[t] # Unasked
  BY <1>2, <1>3, HeardShown DEF AskedSound
<1>5. page'.shown \subseteq page.shown \cup {i}
  BY <1>3, HeardShown
<1>6. \A j \in page'.shown \cup unheard' : Settled(j)'
  BY <1>1, <1>4, <1>5, HeardShown DEF PageSound, Settled, Confirming
<1>7. \A s \in Calls : asked'[s].image = asked[s].image \/ asked'[s].image = None
  BY HeardShown, UnaskedIsAnswer
<1>8. ASSUME NEW s \in Calls
      PROVE  AskedSound(s)'
  <2>1. CASE s = t
    BY <2>1, HeardShown DEF AskedSound
  <2>2. CASE s # t
    <3>1. AskedSound(s) /\ asked'[s] = asked[s]
      BY <2>2, HeardShown DEF PageSound
    <3>2. asked[s] # Unasked /\ asked[s].kind = "confirm" =>
            /\ asked[s].image \notin page'.shown \cup unheard'
            /\ \A u \in Calls : asked'[u].image = asked[s].image => u = s
      BY <1>3, <1>5, <1>7, <2>2, <3>1, HeardShown, UnaskedIsAnswer DEF AskedSound
    <3>3. \A j \in Images : Settled(j) => Settled(j)'
      BY <1>1 DEF Settled, Confirming
    <3>4. page'.open = page.open
      BY HeardShown
    <3> QED BY <1>1, <3>1, <3>2, <3>3, <3>4 DEF AskedSound
  <2> QED BY <2>1, <2>2
<1> QED BY <1>6, <1>8, HeardShown DEF PageSound, EditorTypeOK

\* What the page knows after an answer that it does not hear.
LEMMA MissedShown ==
  ASSUME PageSound, NEW t \in Calls, PageMisses(t)
  PROVE  /\ asked[t] # Unasked /\ asked[t].image \in Images /\ page.open
         /\ AskedSound(t) /\ page' = page
         /\ unheard' = unheard \cup {asked[t].image}
         /\ asked' \in [Calls -> Answers] /\ asked'[t] = Unasked
         /\ \A s \in Calls \ {t} : asked'[s] = asked[s]
BY UnaskedIsAnswer DEF PageMisses, PageSound, EditorTypeOK, AskedSound

LEMMA PageMissesSound ==
  ASSUME CallsSound, PageSound, NEW t \in Calls, PageMisses(t)
  PROVE  PageSound'
<1>1. call' = call /\ files' = files /\ images' = images
  BY DEF PageMisses, vars
<1>2. AskedSound(t) /\ asked[t].answer = "ok"
  BY MissedShown DEF PageMisses
<1>3. PICK i \in Images : asked[t].image = i
  BY MissedShown
<1>4. Settled(i) /\ asked[t] # Unasked
  BY <1>2, <1>3, MissedShown DEF AskedSound
<1>5. \A j \in page'.shown \cup unheard' : Settled(j)'
  BY <1>1, <1>3, <1>4, MissedShown DEF PageSound, Settled, Confirming
<1>6. \A s \in Calls : asked'[s].image = asked[s].image \/ asked'[s].image = None
  BY MissedShown, UnaskedIsAnswer
<1>7. ASSUME NEW s \in Calls
      PROVE  AskedSound(s)'
  <2>1. CASE s = t
    BY <2>1, MissedShown DEF AskedSound
  <2>2. CASE s # t
    <3>1. AskedSound(s) /\ asked'[s] = asked[s]
      BY <2>2, MissedShown DEF PageSound
    <3>2. asked[s] # Unasked /\ asked[s].kind = "confirm" =>
            /\ asked[s].image \notin page'.shown \cup unheard'
            /\ \A u \in Calls : asked'[u].image = asked[s].image => u = s
      BY <1>3, <1>6, <2>2, <3>1, MissedShown, UnaskedIsAnswer DEF AskedSound
    <3>3. \A j \in Images : Settled(j) => Settled(j)'
      BY <1>1 DEF Settled, Confirming
    <3> QED BY <1>1, <3>1, <3>2, <3>3, MissedShown DEF AskedSound
  <2> QED BY <2>1, <2>2
<1>8. EditorTypeOK'
  BY MissedShown DEF PageSound, EditorTypeOK
<1> QED BY <1>5, <1>7, <1>8, MissedShown DEF PageSound

\* A page that is opened waits for nothing, and has missed nothing yet.
LEMMA OpenSound ==
  ASSUME CallsSound, PageSound, Open
  PROVE  PageSound' /\ unheard' = {} /\ \A t \in Calls : asked'[t] = Unasked
<1>1. /\ call' = call /\ files' = files /\ images' = images
      /\ asked' = asked /\ unheard' = unheard
      /\ page' = [open |-> TRUE, shown |-> Listed(images)] /\ ~page.open
  BY DEF Open, vars
<1>2. \A t \in Calls : asked[t] = Unasked
  BY <1>1 DEF PageSound, AskedSound
<1>3. page' \in Pages /\ page'.shown = Listed(images)
  BY <1>1 DEF Pages, Listed
<1>4. \A i \in Listed(images) : Settled(i)'
  BY <1>1, ListedIsSettled DEF Settled, Confirming
<1>5. unheard' = {}
  BY <1>1 DEF PageSound
<1> QED BY <1>1, <1>2, <1>3, <1>4, <1>5 DEF PageSound, EditorTypeOK, AskedSound

LEMMA PageStaysSound ==
  ASSUME CallsSound, CallsSound', PageSound, [EditorNext]_editorVars
  PROVE  PageSound'
<1>1. [Next]_vars
  BY EditorStepsAreCatalogues
<1>2. CASE Open
  BY <1>2, OpenSound
<1>3. CASE Leave
  BY <1>3, GoneIsSound DEF Leave
<1>4. CASE (Upload /\ PageStays) \/ CategoryTree \/ UNCHANGED editorVars
  <2>1. PageStays /\ call' = call
    BY <1>4 DEF Upload, CategoryTree, CreateCategory, DeleteCategory, PageStays,
                editorVars, vars
  <2> QED BY <1>1, <2>1, StaysSound
<1> QED BY <1>1, <1>2, <1>3, <1>4, PageAsksSound, OtherAsksSound, CallRunsSound,
          PageHearsSound, PageMissesSound DEF EditorNext

-----------------------------------------------------------------------------
(***************************************************************************)
(* The page and the lot do not lose touch.                                 *)
(***************************************************************************)

\* A step that adds no answer, takes none away and lists the same images.
LEMMA InTouchRests ==
  ASSUME NEW i \in Images, InTouch(i), page' = page, unheard' = unheard,
         images'[i].listed = images[i].listed,
         \A t \in Calls :
           /\ asked'[t].answer = "ok" => asked'[t] = asked[t]
           /\ asked[t].answer = "ok" => asked'[t] = asked[t]
           /\ i \in unheard /\ images[i].listed => asked'[t].image # i
  PROVE  InTouch(i)'
<1>1. Heard(i)' = Heard(i)
  BY DEF Heard
<1>2. /\ Answered(i)' = Answered(i)
      /\ \A t \in Answered(i) : asked'[t] = asked[t]
  BY DEF Answered
<1> QED BY <1>1, <1>2 DEF InTouch

\* The uploader asks for the deletion of what it shows and the addition of what
\* is new: of neither did it miss that it was added.
LEMMA InTouchAsks ==
  ASSUME CallsSound, CallsSound', PageSound, NEW t \in Calls, PageAsks(t),
         NEW i \in Images, InTouch(i)
  PROVE  InTouch(i)'
<1>1. /\ asked[t] = Unasked /\ Request(t) /\ Offers(call'[t])
      /\ page' = page /\ unheard' = unheard /\ images' = images
  BY RequestLeavesOthers DEF PageAsks
<1>2. \/ asked' = asked
      \/ /\ call'[t].kind \in {"confirm", "delete"}
         /\ asked' = [asked EXCEPT ![t] = [kind |-> call'[t].kind,
                                           image |-> call'[t].image, answer |-> "sent"]]
  BY DEF PageAsks
<1>3. asked \in [Calls -> Answers]
  BY DEF PageSound, EditorTypeOK
<1>4. CASE asked' = asked
  BY <1>1, <1>4, InTouchRests DEF InTouch
<1>5. CASE /\ call'[t].kind \in {"confirm", "delete"}
           /\ asked'[t] = [kind |-> call'[t].kind,
                           image |-> call'[t].image, answer |-> "sent"]
           /\ \A s \in Calls \ {t} : asked'[s] = asked[s]
  <2>1. ASSUME i \in unheard, images[i].listed
        PROVE  call'[t].image # i
    <3>1. Settled(i) /\ \A s \in Calls : asked[s].image # i
      BY <2>1 DEF PageSound, InTouch
    <3>2. i \notin page.shown
      BY <2>1, <3>1 DEF InTouch, Answered, Heard
    <3>3. call'[t].kind = "confirm" => call'[t].image # i
      <4>1. ASSUME call'[t].kind = "confirm"
            PROVE  Confirm(t)
        BY <1>1, <4>1, OtherRequestSound DEF Request
      <4>2. ASSUME Confirm(t)
            PROVE  files[call'[t].image] = "uploaded"
        BY <1>1, <4>2, ConfirmSound DEF Request
      <4> QED BY <3>1, <4>1, <4>2 DEF Settled
    <3> QED BY <1>1, <1>5, <3>2, <3>3 DEF Offers
  <2>2. \A s \in Calls :
          /\ asked'[s].answer = "ok" => asked'[s] = asked[s]
          /\ asked[s].answer = "ok" => asked'[s] = asked[s]
          /\ i \in unheard /\ images[i].listed => asked'[s].image # i
    BY <1>1, <1>5, <2>1, UnaskedIsAnswer DEF InTouch
  <2> QED BY <1>1, <2>2, InTouchRests
<1> QED BY <1>2, <1>3, <1>4, <1>5

\* A call of the page's ends well: what it changed, its answer tells.
LEMMA InTouchCommit ==
  ASSUME CallsSound, PageSound, NEW t \in Calls, Commit(t), ~call[t].stale,
         Waits(t), page' = page, unheard' = unheard,
         asked' = [asked EXCEPT ![t].answer = "ok"],
         NEW i \in Images, InTouch(i)
  PROVE  InTouch(i)'
<1>1. Listed(images)' = Expected(t)
  BY CommittedRows
<1>2. /\ AskedSound(t) /\ asked \in [Calls -> Answers]
      /\ asked[t] # Unasked /\ asked[t].answer = "sent"
  BY DEF PageSound, EditorTypeOK, Waits
<1>3. /\ asked[t].kind \in {"confirm", "delete"} /\ asked[t].image \in Images
      /\ call[t].kind = asked[t].kind /\ call[t].image = asked[t].image
  BY <1>2 DEF AskedSound
<1>4. /\ asked'[t].kind = asked[t].kind /\ asked'[t].image = asked[t].image
      /\ asked'[t].answer = "ok"
      /\ \A s \in Calls \ {t} : asked'[s] = asked[s]
  BY <1>2 DEF Answers
<1>5. images[i].listed \in BOOLEAN /\ images'[i].listed \in BOOLEAN
  <2>1. images \in [Images -> Image] /\ images' \in [Images -> Image]
    BY CommittedRows DEF CallsSound, TypeOK
  <2> QED BY <2>1 DEF Image
<1>6. \A s \in Calls : asked'[s].image = asked[s].image
  BY <1>4
<1>7. CASE i # asked[t].image
  <2>1. images'[i].listed = images[i].listed
    <3>1. i \in Listed(images)' <=> i \in Listed(images)
      BY <1>1, <1>3, <1>7 DEF Expected
    <3> QED BY <1>5, <3>1 DEF Listed
  <2>2. Heard(i)' = Heard(i)
    BY <2>1 DEF Heard
  <2>3. /\ Answered(i)' = Answered(i)
        /\ \A s \in Answered(i) : asked'[s] = asked[s]
    BY <1>4, <1>7 DEF Answered
  <2> QED BY <1>6, <2>1, <2>2, <2>3 DEF InTouch
<1>8. CASE i = asked[t].image
  <2>1. i \notin unheard /\ (images[i].listed <=> asked[t].kind = "delete")
    <3>1. CASE asked[t].kind = "delete"
      <4>1. images[i].listed
        BY <1>3, <1>8, <3>1 DEF CallsSound, UpToDate, Commit, At, Saving
      <4> QED BY <1>8, <3>1, <4>1 DEF InTouch
    <3>2. CASE asked[t].kind = "confirm"
      <4>1. ~images[i].listed
        BY <1>3, <1>8, <3>2 DEF CallsSound, BornOnce, Confirming
      <4> QED BY <1>2, <1>8, <3>2, <4>1 DEF AskedSound
    <3> QED BY <1>3, <3>1, <3>2
  <2>2. images'[i].listed <=> ~images[i].listed
    BY <1>1, <1>3, <1>8, <2>1 DEF Expected, Listed
  <2>3. ASSUME NEW s \in Answered(i)
        PROVE  FALSE
    <3>1. s # t /\ asked[s].image = asked[t].image
      BY <1>2, <1>8, <2>3 DEF Answered
    <3>2. asked[s] # Unasked /\ AskedSound(s)
      BY <1>2, <2>3, UnaskedIsAnswer DEF Answered, PageSound
    <3>3. asked[t].kind = "delete" /\ asked[s].kind = "delete"
      BY <1>2, <1>3, <2>3, <3>1, <3>2 DEF AskedSound, Answered
    <3>4. i \in page.shown /\ Heard(i)
      BY <2>1, <2>3, <3>3 DEF InTouch, Heard
    <3> QED BY <2>3, <3>4 DEF InTouch
  <2>4. i \in page.shown <=> asked[t].kind = "delete"
    BY <1>5, <2>1, <2>3 DEF InTouch, Heard
  <2>5. Answered(i)' = {t}
    BY <1>4, <1>8, <2>3 DEF Answered
  <2>6. ~(i \in page.shown <=> Heard(i)')
    BY <1>5, <2>1, <2>2, <2>4 DEF Heard
  <2>7. i \notin unheard'
    BY <2>1
  <2> QED BY <1>4, <2>4, <2>5, <2>6, <2>7 DEF InTouch
<1> QED BY <1>7, <1>8

\* An answer that is no longer on its way, whether the page heard it or not.
LEMMA AnswerGone ==
  ASSUME NEW t \in Calls, NEW i \in Images, InTouch(i),
         asked'[t] = Unasked, \A s \in Calls \ {t} : asked'[s] = asked[s]
  PROVE  /\ t \in Answered(i) => Answered(i)' = {} /\ Answered(i) = {t}
         /\ t \notin Answered(i) =>
              /\ Answered(i)' = Answered(i)
              /\ \A s \in Answered(i) : asked'[s] = asked[s]
         /\ \A s \in Calls : asked'[s].image = i => asked'[s] = asked[s]
<1>1. t \notin Answered(i)'
  BY UnaskedIsAnswer DEF Answered
<1>2. Answered(i)' = Answered(i) \ {t}
  BY <1>1 DEF Answered
<1>3. \A s \in Answered(i) : s \in Calls
  BY DEF Answered
<1> QED BY <1>2, <1>3, UnaskedIsAnswer DEF InTouch

\* The page hears an answer, and shows what it tells.
LEMMA InTouchHears ==
  ASSUME PageSound, NEW t \in Calls, PageHears(t), NEW i \in Images, InTouch(i)
  PROVE  InTouch(i)'
<1>1. images' = images /\ unheard' = unheard /\ Heard(i)' = Heard(i)
  BY HeardShown DEF PageHears, vars, Heard
<1>2. AskedSound(t) /\ asked[t] # Unasked
  BY HeardShown DEF PageSound
<1>3. asked[t].kind \in {"confirm", "delete"}
  BY <1>2 DEF AskedSound
<1>4. /\ t \in Answered(i) => Answered(i)' = {} /\ Answered(i) = {t}
      /\ t \notin Answered(i) =>
           /\ Answered(i)' = Answered(i)
           /\ \A s \in Answered(i) : asked'[s] = asked[s]
      /\ \A s \in Calls : asked'[s].image = i => asked'[s] = asked[s]
  BY HeardShown, AnswerGone
<1>5. i \in unheard' /\ images'[i].listed => \A s \in Calls : asked'[s].image # i
  BY <1>1, <1>4 DEF InTouch
<1>6. CASE t \notin Answered(i)
  <2>1. i \in page'.shown <=> i \in page.shown
    BY <1>6, HeardShown DEF Answered
  <2> QED BY <1>1, <1>4, <1>5, <1>6, <2>1 DEF InTouch
<1>7. CASE t \in Answered(i)
  <2>1. asked[t].answer = "ok" /\ asked[t].image = i
    BY <1>7 DEF Answered
  <2>2. i \in page'.shown <=> asked[t].kind = "confirm"
    BY <1>3, <2>1, HeardShown
  <2>3. /\ ~(i \in page.shown <=> Heard(i))
        /\ asked[t].kind = "delete" <=> i \in page.shown
    BY <1>7 DEF InTouch
  <2>4. i \in page'.shown <=> Heard(i)'
    BY <1>1, <1>3, <2>2, <2>3
  <2> QED BY <1>4, <1>5, <1>7, <2>4 DEF InTouch
<1> QED BY <1>6, <1>7

\* The page does not hear an answer, and knows one image less.
LEMMA InTouchMisses ==
  ASSUME PageSound, NEW t \in Calls, PageMisses(t), NEW i \in Images, InTouch(i),
         images[i].listed \in BOOLEAN
  PROVE  InTouch(i)'
<1>1. /\ images' = images /\ page' = page /\ AskedSound(t)
      /\ asked[t] # Unasked /\ asked[t].answer = "ok"
      /\ unheard' = unheard \cup {asked[t].image}
  BY MissedShown DEF PageMisses, vars
<1>2. /\ t \in Answered(i) => Answered(i)' = {} /\ Answered(i) = {t}
      /\ t \notin Answered(i) =>
           /\ Answered(i)' = Answered(i)
           /\ \A s \in Answered(i) : asked'[s] = asked[s]
      /\ \A s \in Calls : asked'[s].image = i => asked'[s] = asked[s]
  BY MissedShown, AnswerGone
<1>3. CASE t \notin Answered(i)
  <2>1. i \in unheard' <=> i \in unheard
    BY <1>1, <1>3 DEF Answered
  <2>2. Heard(i)' = Heard(i)
    BY <1>1, <2>1 DEF Heard
  <2>3. i \in unheard' /\ images'[i].listed => \A s \in Calls : asked'[s].image # i
    BY <1>1, <1>2, <2>1 DEF InTouch
  <2> QED BY <1>1, <1>2, <1>3, <2>2, <2>3 DEF InTouch
<1>4. CASE t \in Answered(i)
  <2>1. asked[t].image = i /\ i \in unheard'
    BY <1>1, <1>4 DEF Answered
  <2>2. /\ ~(i \in page.shown <=> Heard(i))
        /\ asked[t].kind = "delete" <=> i \in page.shown
    BY <1>4 DEF InTouch
  <2>3. i \notin unheard
    <3>1. asked[t].kind = "confirm" => i \notin unheard
      BY <1>1, <2>1 DEF AskedSound
    <3>2. asked[t].kind = "delete" => i \notin unheard
      BY <2>1, <2>2 DEF InTouch, Heard
    <3> QED BY <1>1, <3>1, <3>2 DEF AskedSound
  <2>4. i \in page'.shown <=> Heard(i)'
    BY <1>1, <2>1, <2>2, <2>3 DEF Heard
  <2>5. images'[i].listed => \A s \in Calls : asked'[s].image # i
    <3>1. images[i].listed => asked[t].kind = "confirm"
      BY <1>1, <2>2, <2>3 DEF Heard, AskedSound
    <3>2. asked[t].kind = "confirm" => \A s \in Calls : asked'[s].image # i
      BY <1>1, <1>2, <2>1, MissedShown, UnaskedIsAnswer DEF AskedSound
    <3> QED BY <1>1, <3>1, <3>2
  <2> QED BY <1>2, <1>4, <2>4, <2>5 DEF InTouch
<1> QED BY <1>3, <1>4

\* EditorSound is kept by every step.
LEMMA EditorStaysSound ==
  ASSUME EditorSound, [EditorNext]_editorVars
  PROVE  EditorSound'
<1>1. [Next]_vars
  BY EditorStepsAreCatalogues
<1>2. LotSound /\ LotSound' /\ CallsSound /\ CallsSound' /\ PageSound
  BY <1>1, LotStaysSound DEF EditorSound, LotSound, PageSound
<1>3. PageSound'
  BY <1>2, PageStaysSound
<1>4. overlapped \in BOOLEAN /\ overlapped' \in BOOLEAN
      /\ page.open \in BOOLEAN /\ page'.open \in BOOLEAN
  BY <1>2, <1>3 DEF CallsSound, TypeOK, PageSound, EditorTypeOK, Pages
<1> SUFFICES ASSUME page'.open, ~overlapped', NEW i \in Images
             PROVE  InTouch(i)'
  BY <1>2, <1>3, <1>4 DEF EditorSound, PageSound
<1>5. ASSUME page.open, ~overlapped
      PROVE  InTouch(i)
  BY <1>5 DEF EditorSound
<1>6. ASSUME NEW t \in Calls, PageAsks(t) \/ OtherAsks(t)
      PROVE  InTouch(i)'
  <2>1. images' = images /\ overlapped' = overlapped /\ page' = page
    BY <1>2, <1>6, RequestLeavesOthers DEF PageAsks, OtherAsks, PageStays
  <2>2. InTouch(i)
    BY <1>5, <2>1
  <2>3. CASE OtherAsks(t)
    BY <2>1, <2>2, <2>3, InTouchRests DEF OtherAsks, PageStays, InTouch
  <2> QED BY <1>2, <1>6, <2>2, <2>3, InTouchAsks
<1>7. ASSUME NEW t \in Calls, CallRuns(t)
      PROVE  InTouch(i)'
  <2>1. CASE PageGone
    BY <2>1, GoneIsSound
  <2>2. CASE PageStays /\ images' = images
    <3>1. ~overlapped
      BY <1>7 DEF CallRuns, Commit, FindImages, DeleteObjects, SaveLot, BeginSave, Abort
    <3> QED BY <1>5, <2>2, <3>1, InTouchRests DEF PageStays, InTouch
  <2>3. CASE PageStays /\ Commit(t) /\ Listed(images') = Listed(images)
    <3>1. ~overlapped
      BY <2>3 DEF Commit
    <3>2. images \in [Images -> Image] /\ images' \in [Images -> Image]
      BY <1>2 DEF CallsSound, TypeOK
    <3>3. images'[i].listed = images[i].listed
      <4>1. images[i].listed \in BOOLEAN /\ images'[i].listed \in BOOLEAN
        BY <3>2 DEF Image
      <4> QED BY <2>3, <4>1 DEF Listed
    <3> QED BY <1>5, <2>3, <3>1, <3>3, InTouchRests DEF PageStays, InTouch
  <2>4. CASE /\ Commit(t) /\ Waits(t) /\ page' = page /\ unheard' = unheard
             /\ asked' = [asked EXCEPT ![t].answer = "ok"]
    <3>1. ~overlapped /\ ~call[t].stale
      BY <2>4 DEF Commit
    <3> QED BY <1>2, <1>5, <2>4, <3>1, InTouchCommit
  <2>5. CASE /\ images' = images /\ Waits(t) /\ page' = page /\ unheard' = unheard
             /\ asked' = [asked EXCEPT ![t].answer = "failed"]
    <3>1. ~overlapped
      BY <1>7 DEF CallRuns, Commit, FindImages, DeleteObjects, SaveLot, BeginSave, Abort
    <3>2. asked \in [Calls -> Answers] /\ asked[t].answer = "sent"
      BY <1>2, <2>5 DEF PageSound, EditorTypeOK, Waits
    <3>3. /\ asked'[t].answer = "failed" /\ asked'[t].image = asked[t].image
          /\ \A s \in Calls \ {t} : asked'[s] = asked[s]
      BY <2>5, <3>2 DEF Answers
    <3>4. InTouch(i)
      BY <1>5, <2>5, <3>1
    <3>5. \A s \in Calls :
            /\ asked'[s].answer = "ok" => asked'[s] = asked[s]
            /\ asked[s].answer = "ok" => asked'[s] = asked[s]
            /\ i \in unheard /\ images[i].listed => asked'[s].image # i
      BY <3>2, <3>3, <3>4 DEF InTouch
    <3> QED BY <2>5, <3>4, <3>5, InTouchRests
  <2> QED BY <1>2, <1>7, <2>1, <2>2, <2>3, <2>4, <2>5, CallAnswers
<1>8. ASSUME NEW t \in Calls, PageHears(t)
      PROVE  InTouch(i)'
  <2>1. page.open /\ overlapped' = overlapped
    BY <1>2, <1>8, HeardShown DEF PageHears, vars
  <2> QED BY <1>2, <1>5, <1>8, <2>1, InTouchHears
<1>9. CASE Open
  <2>1. unheard' = {} /\ \A t \in Calls : asked'[t] = Unasked
    BY <1>2, <1>9, OpenSound
  <2>2. page'.shown = Listed(images) /\ images' = images
    BY <1>9 DEF Open, vars
  <2>3. Answered(i)' = {}
    BY <2>1, UnaskedIsAnswer DEF Answered
  <2>4. images[i].listed \in BOOLEAN
    BY <1>2 DEF CallsSound, TypeOK, Image
  <2> QED BY <2>1, <2>2, <2>3, <2>4 DEF InTouch, Heard, Listed
<1>10. CASE Leave
  BY <1>10, GoneIsSound DEF Leave
<1>11. CASE (Upload /\ PageStays) \/ CategoryTree \/ UNCHANGED editorVars
  <2>1. /\ page' = page /\ asked' = asked /\ unheard' = unheard
        /\ images' = images /\ overlapped' = overlapped
    BY <1>11 DEF Upload, CategoryTree, CreateCategory, DeleteCategory, PageStays,
                 editorVars, vars
  <2> QED BY <1>5, <2>1, InTouchRests DEF InTouch
<1>12. ASSUME NEW t \in Calls, PageMisses(t)
       PROVE  InTouch(i)'
  <2>1. page.open /\ overlapped' = overlapped
    BY <1>2, <1>12, MissedShown DEF PageMisses, vars
  <2>2. images[i].listed \in BOOLEAN
    BY <1>2 DEF CallsSound, TypeOK, Image
  <2> QED BY <1>2, <1>4, <1>5, <1>12, <2>1, <2>2, InTouchMisses
<1> QED BY <1>6, <1>7, <1>8, <1>9, <1>10, <1>11, <1>12 DEF EditorNext

LEMMA EditorSoundInit ==
  ASSUME EditorInit
  PROVE  EditorSound
<1>1. Init /\ CallsSound
  BY CallsSoundInit DEF EditorInit
<1>2. Listed(images) = {}
  BY <1>1 DEF Init, NoImages, NoImage, Listed
<1>3. LotInOrder
  <2>1. Count(images) = 0
    BY <1>2, FS_EmptySet DEF Count
  <2>2. Numbered(images)
    <3>1. {images[i].order : i \in Listed(images)} = {} /\ 0 .. (0 - 1) = {}
      BY <1>2
    <3> QED BY <2>1, <3>1 DEF Numbered
  <2>3. OnePrimary(images)
    BY <1>2 DEF OnePrimary
  <2>4. \A t \in Calls : call[t].pc \notin Saving
    BY <1>1 DEF Init, Idle, Saving
  <2> QED BY <1>2, <2>2, <2>3, <2>4 DEF LotInOrder, InOrder
<1>4. LotSound
  BY <1>1, <1>3 DEF LotSound, LotInOrder
<1>5. page = Away /\ asked = [t \in Calls |-> Unasked] /\ unheard = {}
  BY DEF EditorInit
<1>6. PageSound /\ ~page.open
  BY <1>5, UnaskedIsAnswer DEF PageSound, EditorTypeOK, Away, Pages, AskedSound
<1> QED BY <1>4, <1>6 DEF EditorSound, PageSound

-----------------------------------------------------------------------------
(***************************************************************************)
(* The theorems.                                                           *)
(***************************************************************************)

\* What the admin portal does to a lot, the catalogue's calls may do: a page
\* asks for nothing that another caller could not ask for.
THEOREM EditorRunsCatalogue == EditorSpec => Spec
<1>1. EditorInit => Init
  BY DEF EditorInit
<1>2. [EditorNext]_editorVars => [Next]_vars
  BY EditorStepsAreCatalogues
<1> QED BY <1>1, <1>2, PTL DEF EditorSpec, Spec

\* The calls, the images and the page are always in the states that the
\* use cases' awaits allow.
THEOREM EditorAlwaysSound == EditorSpec => []EditorSound
<1>1. EditorInit => EditorSound
  BY EditorSoundInit
<1>2. EditorSound /\ [EditorNext]_editorVars => EditorSound'
  BY EditorStaysSound
<1> QED BY <1>1, <1>2, PTL DEF EditorSpec

\* Until a call saves images that are out of date, they are numbered without
\* a gap, at most one is primary, and a missing file has its reason, whatever
\* calls are confirming, deleting and reordering at the same time.
THEOREM ImagesAlwaysSound == EditorSpec => []ImagesSound
<1>1. EditorSound => ImagesSound
  <2> SUFFICES ASSUME EditorSound, ~overlapped
               PROVE  /\ {row.order : row \in Rows} = 0 .. (Count(images) - 1)
                      /\ \A i, j \in Listed(images) :
                           images[i].primary /\ images[j].primary => i = j
                      /\ \A i \in Listed(images) :
                           \/ files[i] = "confirmed" \/ i \in cut
                           \/ \E t \in Calls :
                                call[t].kind = "delete" /\ call[t].image = i
    BY DEF ImagesSound
  <2>1. InOrder(images) /\ \A i \in Listed(images) : FileKept(i)
    BY DEF EditorSound, LotSound
  <2>2. {row.order : row \in Rows} = {images[i].order : i \in Listed(images)}
    BY DEF Rows
  <2> QED BY <2>1, <2>2 DEF InOrder, Numbered, OnePrimary, FileKept
<1> QED BY <1>1, EditorAlwaysSound, PTL

\* No call undoes by accident what another did to the lot: an image leaves it
\* by a deletion, the status changes by an update or a confirmation, or else
\* by a call that some other's write had put out of date.
THEOREM LotAlwaysKept == EditorSpec => LotKept
<1>1. EditorSound /\ [EditorNext]_editorVars => [ImagesLeave /\ StatusChanges]_vars
  BY EditorStepsAreCatalogues, ImagesLeaveLawfully, StatusChangesLawfully
     DEF EditorSound, LotSound
<1> QED BY <1>1, EditorAlwaysSound, PTL DEF EditorSpec, LotKept

\* The uploader, which never reads the lot again, differs from the lot in just
\* the images whose call was committed and whose answer was lost, but for
\* those whose upload or deletion is under way.
THEOREM UploaderAlwaysAgrees == EditorSpec => []UploaderAgrees
<1>1. EditorSound => UploaderAgrees
  <2> SUFFICES ASSUME EditorSound, ~overlapped, page.open, NEW i \in Images
               PROVE  \/ i \in page.shown <=> Heard(i)
                      \/ \E t \in Calls : asked[t].image = i
    BY DEF UploaderAgrees
  <2>1. InTouch(i)
    BY DEF EditorSound
  <2> QED BY <2>1 DEF InTouch, Answered
<1> QED BY <1>1, EditorAlwaysSound, PTL
=============================================================================
