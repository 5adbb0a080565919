--------------------------- MODULE ReducerProofs ---------------------------
(***************************************************************************)
(* The projection of Reducer computes the accepted view of Ledger, for any *)
(* number of Decisions, Claims and instants.                               *)
(*                                                                         *)
(* The invariant says what the lists of intervals mean while the rows are  *)
(* read: the intervals of a Claim are the openings read so far, in logical *)
(* order, and the end of each lets through exactly the instants that the   *)
(* opening and the closes read so far let through.  It holds because what  *)
(* is read comes after nothing that is still to be read, so the last       *)
(* interval is the one that a close acts on.                               *)
(***************************************************************************)
EXTENDS Reducer, SequenceTheorems, FiniteSetTheorems, WellFoundedInduction, TLAPS

DecSet ==
    [act : {"ACCEPT", "ACCEPT_SUPERSEDE", "SUPERSEDE", "DEGRADE", "REJECT",
            "RETROACTIVE_CORRECTION"},
     claims : (SUBSET Claims) \ {{}}, eff : Nat, rec : Nat, ord : Nat,
     from : Nat \cup {NoTime}, to : Nat \cup {NoTime}]

IntervalSet == [from : Nat \cup {NoTime}, to : Nat \cup {NoTime}, dec : DecSet]

TypeInv ==
    /\ decisions \subseteq DecSet
    /\ \A d, e \in decisions : d.ord = e.ord => d = e
    /\ pc \in {"idle", "fold", "correct", "done", "raised"}
    /\ kt \in Nat /\ dt \in Nat
    /\ rows \subseteq RowsAt(kt)
    /\ iv \in [Claims -> Seq(IntervalSet)]
    /\ corr \in Seq(Corrections)
    /\ active \subseteq Claims \X decisions
    /\ pc = "idle" => rows = {} /\ iv = NoIntervals /\ corr = <<>> /\ active = {}

-----------------------------------------------------------------------------
(* What the lists mean. *)

\* Nothing that is still to be read comes before what was read.
ReadInOrder == \A r \in RowsAt(kt) \ rows : \A s \in rows : ~Before(s[1], r[1])

\* The corrections read are on the list.
Listed == \A r \in Corrections \ rows : \E i \in DOMAIN corr : corr[i] = r

Until(t, to) == to = NoTime \/ t < to

\* The intervals of c are its openings in logical order, and each holds as long
\* as its opening and the closes that were read let it.
Faithful(c) ==
    /\ \A i \in DOMAIN iv[c] :
         /\ iv[c][i].dec \in Openers(D, c) /\ <<iv[c][i].dec, c>> \notin rows
         /\ iv[c][i].from = iv[c][i].dec.from
         /\ \A t \in Nat : Until(t, iv[c][i].to) <=>
              /\ Until(t, iv[c][i].dec.to)
              /\ \A x \in Closers(D, c) :
                   <<x, c>> \notin rows /\ Closes(D, c, x, iv[c][i].dec) => t < CloseAt(x)
    /\ \A i, j \in DOMAIN iv[c] : i < j => Before(iv[c][i].dec, iv[c][j].dec)
    /\ \A o \in Openers(D, c) : <<o, c>> \notin rows => \E i \in DOMAIN iv[c] : iv[c][i].dec = o
    /\ \A x \in Closers(D, c) : <<x, c>> \notin rows => \E o \in Openers(D, c) : Before(o, x)

\* Every correction is waiting, or has taken out all it must.
Applied(r) == InTime(r) => \A cd \in active : Before(cd[2], r[1]) => cd[1] = r[2]
Waiting(r) == \E i \in DOMAIN corr : corr[i] = r

Corrects ==
    /\ rows = {}
    /\ \A r \in Corrections : Waiting(r) \/ Applied(r)
    /\ \A cd \in ActiveIn(iv, dt) \ active : \E r \in Corrections : InTime(r) /\ Before(cd[2], r[1])
    /\ Corrections = {} => active = ActiveIn(iv, dt)

RedInv ==
    /\ TypeInv
    /\ pc = "fold" => ReadInOrder /\ Listed
    /\ pc \in {"fold", "correct", "done"} /\ Corrections = {} => \A c \in Claims : Faithful(c)
    /\ pc \in {"correct", "done"} => Corrects
    /\ pc = "done" => corr = <<>>
    /\ pc = "raised" /\ Corrections = {} => ~Foldable(D)

-----------------------------------------------------------------------------
(* The logical order. *)

LEMMA LogicalOrder ==
    ASSUME NEW d \in DecSet, NEW e \in DecSet
    PROVE  /\ ~Before(d, d)
           /\ Before(d, e) => ~Before(e, d)
           /\ d.ord # e.ord => Before(d, e) \/ Before(e, d)
           /\ \A f \in DecSet : Before(d, e) /\ Before(e, f) => Before(d, f)
<1>1. \A f \in DecSet : f.eff \in Nat /\ f.rec \in Nat /\ f.ord \in Nat
  BY DEF DecSet
<1> QED
  BY <1>1 DEF Before

\* Two Decisions that are read are ordered one way or the other.
LEMMA Ordered ==
    ASSUME TypeInv, NEW d \in D, NEW e \in D, d # e
    PROVE  d \in DecSet /\ e \in DecSet /\ (Before(d, e) <=> ~Before(e, d))
<1>1. d \in decisions /\ e \in decisions
  BY DEF D, Visible
<1> QED
  BY <1>1, LogicalOrder DEF TypeInv

\* Every row joins a Decision the reader sees with a Claim it names.
LEMMA RowTypes ==
    ASSUME TypeInv, NEW r \in RowsAt(kt)
    PROVE  /\ r = <<r[1], r[2]>> /\ r[1] \in D /\ r[1] \in DecSet /\ r[2] \in Claims
           /\ r[2] \in r[1].claims
BY DEF RowsAt, D, Visible, TypeInv

\* A set of places on a list has a last one.
LEMMA LastPlace ==
    ASSUME NEW n \in Nat, NEW S \in SUBSET (1..n), S # {}
    PROVE  \E i \in S : \A j \in S : j <= i
<1> DEFINE T == {n - i : i \in S}
<1>0. \A i \in S : n - i \in Nat
  OBVIOUS
<1>1. T \subseteq Nat /\ T # {}
  BY <1>0, Zenon
<1>2. PICK m \in T : \A y \in T : ~(<<y, m>> \in OpToRel(<, Nat))
  BY <1>1, NatLessThanWellFounded, WFMin
<1>3. \A y \in T : ~(y < m)
  BY <1>1, <1>2 DEF OpToRel
<1>4. PICK i \in S : m = n - i
  BY <1>2
<1>5. \A j \in S : j <= i
  <2> SUFFICES ASSUME NEW j \in S PROVE j <= i
    OBVIOUS
  <2>1. n - j \in T
    OBVIOUS
  <2>2. ~(n - j < n - i)
    BY <1>3, <1>4, <2>1
  <2> QED BY <2>2
<1> QED
  BY <1>5

-----------------------------------------------------------------------------
(* Types. *)

LEMMA OpenedTypes ==
    ASSUME TypeInv, NEW r \in RowsAt(kt)
    PROVE  /\ Opened(r) \in [Claims -> Seq(IntervalSet)]
           /\ \A c \in Claims \ {r[2]} : Opened(r)[c] = iv[c]
           /\ Len(Opened(r)[r[2]]) = Len(iv[r[2]]) + 1
           /\ \A i \in 1..Len(iv[r[2]]) : Opened(r)[r[2]][i] = iv[r[2]][i]
           /\ Opened(r)[r[2]][Len(iv[r[2]]) + 1] = [from |-> r[1].from, to |-> r[1].to, dec |-> r[1]]
<1> DEFINE i == [from |-> r[1].from, to |-> r[1].to, dec |-> r[1]]
<1>1. i \in IntervalSet /\ r[2] \in Claims
  BY RowTypes DEF IntervalSet, DecSet
<1>2. iv \in [Claims -> Seq(IntervalSet)]
  BY DEF TypeInv
<1>3. Opened(r) = [iv EXCEPT ![r[2]] = Append(iv[r[2]], i)]
  BY <1>1, <1>2 DEF Opened
<1> HIDE DEF i
<1> QED
  BY <1>1, <1>2, <1>3, AppendProperties DEF i

LEMMA ClosedTypes ==
    ASSUME TypeInv, NEW r \in RowsAt(kt), iv[r[2]] # <<>>
    PROVE  /\ Closed(r) \in [Claims -> Seq(IntervalSet)]
           /\ \A c \in Claims \ {r[2]} : Closed(r)[c] = iv[c]
           /\ Len(Closed(r)[r[2]]) = Len(iv[r[2]])
           /\ Len(iv[r[2]]) \in Nat \ {0}
           /\ \A i \in 1..Len(iv[r[2]]) - 1 : Closed(r)[r[2]][i] = iv[r[2]][i]
           /\ Closed(r)[r[2]][Len(iv[r[2]])] = Shortened(iv[r[2]][Len(iv[r[2]])], r[1])
<1> DEFINE c == r[2]
           n == Len(iv[c])
           s == Shortened(iv[c][n], r[1])
<1>1. /\ c \in Claims /\ r[1] \in DecSet
      /\ iv \in [Claims -> Seq(IntervalSet)]
  BY RowTypes DEF TypeInv
<1>2. /\ iv[c] \in Seq(IntervalSet) /\ n \in Nat \ {0} /\ iv[c] \in [1..n -> IntervalSet]
  BY <1>1, LenProperties, EmptySeq
<1>3. iv[c][n] \in IntervalSet
  BY <1>2
<1>4. s \in IntervalSet
  <2>1. CloseAt(r[1]) \in Nat
    BY <1>1 DEF CloseAt, DecSet, NoTime
  <2> QED BY <1>3, <2>1 DEF Shortened, IntervalSet
<1>5. Closed(r) = [iv EXCEPT ![c] = [iv[c] EXCEPT ![n] = s]]
  BY <1>1 DEF Closed
<1> HIDE DEF s
<1>6. /\ [iv[c] EXCEPT ![n] = s] \in Seq(IntervalSet)
      /\ Len([iv[c] EXCEPT ![n] = s]) = n
      /\ \A i \in 1..n : [iv[c] EXCEPT ![n] = s][i] = IF i = n THEN s ELSE iv[c][i]
  BY <1>2, <1>4, ExceptSeq
<1>8. /\ Closed(r) \in [Claims -> Seq(IntervalSet)]
      /\ Closed(r)[c] = [iv[c] EXCEPT ![n] = s]
      /\ \A b \in Claims \ {c} : Closed(r)[b] = iv[b]
  BY <1>1, <1>5, <1>6
<1> QED
  BY <1>2, <1>6, <1>8 DEF s

\* A projection looks at one set of Decisions.
LEMMA Frame ==
    ASSUME decisions' = decisions, kt' = kt
    PROVE  /\ D' = D /\ RowsAt(kt)' = RowsAt(kt) /\ Corrections' = Corrections
           /\ \A c : Openers(D, c)' = Openers(D, c) /\ Closers(D, c)' = Closers(D, c)
           /\ \A c, x, o : Closes(D, c, x, o)' <=> Closes(D, c, x, o)
           /\ Foldable(D)' <=> Foldable(D)
<1>1. D' = D /\ RowsAt(kt)' = RowsAt(kt)
  BY DEF D, RowsAt, Visible
<1> QED
  BY <1>1 DEF Corrections, Openers, Closers, Closes, Foldable

LEMMA LoadStep ==
    ASSUME RedInv, NEW row \in Rows, NEW id \in Ids, Load(row, id)
    PROVE  RedInv'
<1> DEFINE d == [act |-> row.act, claims |-> row.claims, eff |-> row.eff, rec |-> row.rec,
                 ord |-> id, from |-> row.from, to |-> row.to]
<1>1. row \in RowSet /\ id \in Nat
  BY RowsOK
<1>2. d \in DecSet /\ d.ord = id
  BY <1>1 DEF RowSet, DecSet
<1>3. /\ decisions' = decisions \cup {d} /\ pc' = "idle" /\ pc = "idle" /\ rows' = {}
      /\ iv' = iv /\ corr' = <<>> /\ active' = {} /\ kt' = kt /\ dt' = dt /\ iv = NoIntervals
      /\ \A e \in decisions : e.ord # id
  BY DEF Load, RedInv, TypeInv
<1> HIDE DEF d
<1>4. decisions' \subseteq DecSet /\ \A e, f \in decisions' : e.ord = f.ord => e = f
  BY <1>2, <1>3 DEF RedInv, TypeInv
<1>5. corr' \in Seq(Corrections')
  BY <1>3, EmptySeq
<1>6. TypeInv'
  BY <1>3, <1>4, <1>5 DEF RedInv, TypeInv
<1> QED
  BY <1>3, <1>6 DEF RedInv

LEMMA BeginStep ==
    ASSUME RedInv, NEW t \in KnowledgeTimes, Begin(t)
    PROVE  RedInv'
<1>1. /\ pc' = "fold" /\ pc = "idle" /\ kt' = t /\ t \in Nat /\ rows' = RowsAt(kt)' /\ iv' = NoIntervals
      /\ corr' = <<>> /\ active' = {} /\ decisions' = decisions /\ dt' = dt /\ iv' = iv
  BY RowsOK DEF Begin, RedInv, TypeInv, RowsAt
<1>2. corr' \in Seq(Corrections')
  BY <1>1, EmptySeq
<1>3. TypeInv'
  BY <1>1, <1>2 DEF RedInv, TypeInv
<1>4. ReadInOrder' /\ Listed'
  BY <1>1 DEF ReadInOrder, Listed, Corrections
<1>5. ASSUME NEW c \in Claims
      PROVE  Faithful(c)'
  <2>1. DOMAIN iv'[c] = {}
    BY <1>1 DEF NoIntervals
  <2>2. \A d \in D' : c \in d.claims => <<d, c>> \in rows'
    BY <1>1 DEF D, RowsAt
  <2> QED BY <2>1, <2>2 DEF Faithful, Openers, Closers
<1> QED
  BY <1>1, <1>3, <1>4, <1>5 DEF RedInv

-----------------------------------------------------------------------------
(* The fold, row by row. *)

\* What a turn of the first loop leaves as it was.
LEMMA ReadTypes ==
    ASSUME RedInv, NEW r \in rows, Read(r), pc' \in {"fold", "raised"},
           iv' \in [Claims -> Seq(IntervalSet)], corr' \in Seq(Corrections)
    PROVE  TypeInv'
<1>1. decisions' = decisions /\ kt' = kt /\ dt' = dt /\ rows' = rows \ {r} /\ active' = active
  BY DEF Read
<1>2. Corrections' = Corrections /\ RowsAt(kt)' = RowsAt(kt)
  BY <1>1, Frame
<1> QED
  BY <1>1, <1>2 DEF RedInv, TypeInv

\* The first of the rows comes after all that were read.
LEMMA ReadNext ==
    ASSUME RedInv, NEW r \in rows, Read(r)
    PROVE  /\ ReadInOrder'
           /\ \A q \in RowsAt(kt) \ rows : ~Before(r[1], q[1])
           /\ \A s \in rows : ~Before(s[1], r[1])
           /\ r \in RowsAt(kt) /\ rows' = rows \ {r}
           /\ decisions' = decisions /\ kt' = kt
<1>1. /\ decisions' = decisions /\ kt' = kt /\ rows' = rows \ {r} /\ pc = "fold"
      /\ \A s \in rows : ~Before(s[1], r[1])
  BY DEF Read, Earliest
<1>2. ReadInOrder /\ r \in RowsAt(kt)
  BY <1>1 DEF RedInv, TypeInv
<1>3. RowsAt(kt)' = RowsAt(kt)
  BY <1>1, Frame
<1> QED
  BY <1>1, <1>2, <1>3 DEF ReadInOrder

\* The intervals of a Claim mean what they meant while neither they nor what was
\* read of the Claim's openings and closes has changed.
LEMMA SameFaithful ==
    ASSUME decisions' = decisions, kt' = kt, NEW c, iv'[c] = iv[c], Faithful(c),
           \A x \in Openers(D, c) \cup Closers(D, c) : <<x, c>> \in rows' <=> <<x, c>> \in rows
    PROVE  Faithful(c)'
<1>1. /\ D' = D
      /\ Openers(D, c)' = Openers(D, c) /\ Closers(D, c)' = Closers(D, c)
      /\ \A x, o : Closes(D, c, x, o)' <=> Closes(D, c, x, o)
  BY Frame
<1>2. \A i \in DOMAIN iv'[c] :
         /\ iv'[c][i].dec \in Openers(D, c) /\ <<iv'[c][i].dec, c>> \notin rows'
         /\ iv'[c][i].from = iv'[c][i].dec.from
  BY DEF Faithful
<1>3. \A i \in DOMAIN iv'[c] : \A t \in Nat : Until(t, iv'[c][i].to) <=>
         /\ Until(t, iv'[c][i].dec.to)
         /\ \A x \in Closers(D, c) :
              <<x, c>> \notin rows' /\ Closes(D, c, x, iv'[c][i].dec) => t < CloseAt(x)
  BY DEF Faithful
<1>4. \A i, j \in DOMAIN iv'[c] : i < j => Before(iv'[c][i].dec, iv'[c][j].dec)
  BY DEF Faithful
<1>5. /\ \A o \in Openers(D, c) : <<o, c>> \notin rows' =>
            \E i \in DOMAIN iv'[c] : iv'[c][i].dec = o
      /\ \A x \in Closers(D, c) : <<x, c>> \notin rows' => \E o \in Openers(D, c) : Before(o, x)
  BY DEF Faithful
<1> QED
  BY <1>1, <1>2, <1>3, <1>4, <1>5 DEF Faithful, Until

\* A turn concerns one Claim.
LEMMA OneTurn ==
    ASSUME RedInv, NEW r \in rows, Read(r), pc' = "fold", TypeInv', Listed',
           \A c \in Claims \ {r[2]} : iv'[c] = iv[c],
           Corrections = {} => Faithful(r[2])'
    PROVE  RedInv'
<1>1. /\ pc = "fold" /\ ReadInOrder' /\ rows' = rows \ {r}
      /\ decisions' = decisions /\ kt' = kt
  BY ReadNext DEF Read
<1>2. ASSUME Corrections' = {}, NEW c \in Claims
      PROVE  Faithful(c)'
  <2>1. Corrections = {}
    BY <1>1, <1>2, Frame
  <2>2. CASE c = r[2]
    BY <2>1, <2>2
  <2>3. CASE c # r[2]
    <3>1. Faithful(c) /\ iv'[c] = iv[c]
      BY <1>1, <2>1, <2>3 DEF RedInv
    <3>2. \A x : <<x, c>> \in rows' <=> <<x, c>> \in rows
      BY <1>1, <2>3
    <3> QED BY <1>1, <3>1, <3>2, SameFaithful
  <2> QED BY <2>2, <2>3
<1> QED
  BY <1>1, <1>2 DEF RedInv

LEMMA SkipStep ==
    ASSUME RedInv, NEW r \in rows, Skip(r)
    PROVE  RedInv'
<1>1. /\ Read(r) /\ r[1].act = "REJECT" /\ iv' = iv /\ corr' = corr /\ pc' = pc /\ pc = "fold"
      /\ r \in RowsAt(kt) /\ rows' = rows \ {r} /\ decisions' = decisions /\ kt' = kt
  BY ReadNext DEF Skip, Read
<1>2. TypeInv'
  BY <1>1, ReadTypes DEF RedInv, TypeInv
<1>3. Corrections' = Corrections /\ r \notin Corrections
  BY <1>1, Frame DEF Corrections
<1>4. Listed'
  BY <1>1, <1>3 DEF RedInv, Listed
<1>5. ASSUME Corrections = {}
      PROVE  Faithful(r[2])'
  <2>1. Faithful(r[2])
    BY <1>1, <1>5, RowTypes DEF RedInv
  <2>2. \A x \in Openers(D, r[2]) \cup Closers(D, r[2]) : <<x, r[2]>> # r
    BY <1>1 DEF Openers, Closers, OpeningActions, CloseActions
  <2> QED BY <1>1, <2>1, <2>2, SameFaithful
<1> QED
  BY <1>1, <1>2, <1>4, <1>5, OneTurn

\* A row of corrections joins the list and the intervals.
LEMMA CorrectStep ==
    ASSUME RedInv, NEW r \in rows, Correct(r)
    PROVE  RedInv'
<1>1. /\ Read(r) /\ iv' = Opened(r) /\ corr' = Append(corr, r) /\ pc' = pc /\ pc = "fold"
      /\ r[1].act = "RETROACTIVE_CORRECTION"
      /\ r \in RowsAt(kt) /\ rows' = rows \ {r} /\ decisions' = decisions /\ kt' = kt
  BY ReadNext DEF Correct, Read
<1>2. r \in Corrections /\ Corrections' = Corrections
  BY <1>1, Frame DEF Corrections
<1>3. TypeInv /\ Listed
  BY <1>1 DEF RedInv
<1>4. corr \in Seq(Corrections)
  BY <1>3 DEF TypeInv
<1>5. /\ corr' \in Seq(Corrections) /\ Len(corr') = Len(corr) + 1
      /\ \A i \in 1..Len(corr) : corr'[i] = corr[i]
      /\ corr'[Len(corr) + 1] = r
      /\ DOMAIN corr = 1..Len(corr) /\ DOMAIN corr' = 1..Len(corr) + 1 /\ Len(corr) \in Nat
  BY <1>1, <1>2, <1>4, AppendProperties, LenProperties
<1>6. /\ iv' \in [Claims -> Seq(IntervalSet)]
      /\ \A c \in Claims \ {r[2]} : iv'[c] = iv[c]
  BY <1>1, <1>3, OpenedTypes
<1>7. TypeInv'
  BY <1>1, <1>5, <1>6, ReadTypes
<1>8. Listed'
  <2> SUFFICES ASSUME NEW q \in Corrections \ rows'
               PROVE  \E i \in DOMAIN corr' : corr'[i] = q
    BY <1>2 DEF Listed
  <2>1. CASE q = r
    BY <1>5, <2>1
  <2>2. CASE q # r
    <3>1. PICK i \in DOMAIN corr : corr[i] = q
      BY <1>1, <1>3, <2>2 DEF Listed
    <3> QED BY <1>5, <3>1
  <2> QED BY <2>1, <2>2
<1> QED
  BY <1>1, <1>2, <1>6, <1>7, <1>8, OneTurn

\* The fold raises where Ledger says there is nothing to close.
LEMMA CloseOfNothingStep ==
    ASSUME RedInv, NEW r \in rows, CloseOfNothing(r)
    PROVE  RedInv'
<1>1. /\ Read(r) /\ iv' = iv /\ corr' = corr /\ pc' = "raised" /\ pc = "fold"
      /\ r[1].act \in CloseActions /\ iv[r[2]] = <<>>
      /\ r \in RowsAt(kt) /\ rows' = rows \ {r} /\ decisions' = decisions /\ kt' = kt
      /\ \A s \in rows : ~Before(s[1], r[1])
  BY ReadNext DEF CloseOfNothing, Read
<1>2. TypeInv'
  BY <1>1, ReadTypes DEF RedInv, TypeInv
<1>3. ASSUME Corrections' = {}
      PROVE  ~Foldable(D)'
  <2> DEFINE c == r[2]
  <2>1. /\ c \in Claims /\ r[1] \in D /\ c \in r[1].claims /\ Faithful(c)
    BY <1>1, <1>3, Frame, RowTypes DEF RedInv
  <2>2. ASSUME NEW o \in Openers(D, c), Before(o, r[1])
        PROVE  FALSE
    <3>1. <<o, c>> \notin rows
      BY <1>1, <2>2
    <3>2. DOMAIN iv[c] = {}
      BY <1>1
    <3> QED BY <2>1, <3>1, <3>2 DEF Faithful
  <2>3. ~Foldable(D)
    BY <1>1, <2>1, <2>2 DEF Foldable
  <2> QED BY <1>1, <2>3, Frame
<1> QED
  BY <1>1, <1>2, <1>3 DEF RedInv

\* A Decision that names c, of those a projection reads, is one of its rows.
LEMMA RowOf ==
    ASSUME NEW c \in Claims, NEW d \in Openers(D, c) \cup Closers(D, c)
    PROVE  d \in D /\ <<d, c>> \in RowsAt(kt)
BY DEF Openers, Closers, D, RowsAt

\* The opening that is read is the last so far, and no close read acts on it.
LEMMA OpenStep ==
    ASSUME RedInv, NEW r \in rows, Open(r)
    PROVE  RedInv'
<1> DEFINE c == r[2]
           d == r[1]
           n == Len(iv[c])
<1>1. /\ Read(r) /\ iv' = Opened(r) /\ corr' = corr /\ pc' = pc /\ pc = "fold"
      /\ d.act \in OpeningActions
      /\ r \in RowsAt(kt) /\ rows' = rows \ {r} /\ decisions' = decisions /\ kt' = kt
      /\ \A q \in RowsAt(kt) \ rows : ~Before(d, q[1])
  BY ReadNext DEF Open, Read
<1>2. TypeInv /\ Listed
  BY <1>1 DEF RedInv
<1>3. c \in Claims /\ d \in D /\ d \in DecSet /\ c \in d.claims /\ r = <<d, c>>
  BY <1>1, <1>2, RowTypes
<1>4. /\ iv' \in [Claims -> Seq(IntervalSet)]
      /\ \A b \in Claims \ {c} : iv'[b] = iv[b]
      /\ Len(iv'[c]) = n + 1
      /\ \A i \in 1..n : iv'[c][i] = iv[c][i]
      /\ iv'[c][n + 1] = [from |-> d.from, to |-> d.to, dec |-> d]
  BY <1>1, <1>2, OpenedTypes
<1>5. /\ TypeInv' /\ iv[c] \in Seq(IntervalSet) /\ iv'[c] \in Seq(IntervalSet)
  BY <1>1, <1>2, <1>3, <1>4, ReadTypes DEF TypeInv
<1>6. n \in Nat /\ DOMAIN iv[c] = 1..n /\ DOMAIN iv'[c] = 1..(n + 1)
  BY <1>4, <1>5, LenProperties
<1>7. Corrections' = Corrections /\ r \notin Corrections
  BY <1>1, Frame DEF Corrections, OpeningActions
<1>8. Listed'
  BY <1>1, <1>2, <1>7 DEF Listed
<1>9. ASSUME Corrections = {}
      PROVE  Faithful(c)'
  <2>1. Faithful(c)
    BY <1>1, <1>3, <1>9 DEF RedInv
  <2>2. d \in Openers(D, c) /\ d \notin Closers(D, c)
    BY <1>1, <1>3 DEF Openers, Closers, OpeningActions, CloseActions
  <2>3. \A x \in Closers(D, c) : <<x, c>> \notin rows' <=> <<x, c>> \notin rows
    BY <1>1, <2>2
  <2>4. ASSUME NEW i \in 1..n
        PROVE  /\ iv'[c][i] = iv[c][i]
               /\ iv'[c][i].dec \in Openers(D, c) /\ <<iv'[c][i].dec, c>> \notin rows'
               /\ iv'[c][i].from = iv'[c][i].dec.from
               /\ Before(iv'[c][i].dec, d)
               /\ \A t \in Nat : Until(t, iv'[c][i].to) <=>
                    /\ Until(t, iv'[c][i].dec.to)
                    /\ \A x \in Closers(D, c) :
                         <<x, c>> \notin rows' /\ Closes(D, c, x, iv'[c][i].dec) => t < CloseAt(x)
    <3> DEFINE o == iv[c][i].dec
    <3>1. iv'[c][i] = iv[c][i]
      BY <1>4
    <3>2. o \in Openers(D, c) /\ <<o, c>> \notin rows /\ iv[c][i].from = o.from
      BY <1>6, <2>1 DEF Faithful
    <3>3. o \in D /\ <<o, c>> \in RowsAt(kt) \ rows
      BY <1>3, <3>2, RowOf
    <3>4. o # d /\ ~Before(d, o)
      BY <1>1, <1>3, <3>3
    <3>5. Before(o, d)
      BY <1>2, <1>3, <3>3, <3>4, Ordered
    <3>6. \A t \in Nat : Until(t, iv[c][i].to) <=>
                    /\ Until(t, o.to)
                    /\ \A x \in Closers(D, c) :
                         <<x, c>> \notin rows' /\ Closes(D, c, x, o) => t < CloseAt(x)
      BY <1>6, <2>1, <2>3 DEF Faithful
    <3> QED BY <1>1, <3>1, <3>2, <3>5, <3>6
  <2>5. /\ iv'[c][n + 1].dec = d /\ iv'[c][n + 1].from = d.from /\ iv'[c][n + 1].to = d.to
        /\ <<d, c>> \notin rows'
    BY <1>1, <1>3, <1>4
  <2>6. ASSUME NEW x \in Closers(D, c), <<x, c>> \notin rows'
        PROVE  ~Closes(D, c, x, d)
    <3>1. <<x, c>> \in RowsAt(kt) \ rows
      BY <1>3, <2>3, <2>6, RowOf
    <3> QED BY <1>1, <3>1 DEF Closes
  <2>7. \A i \in DOMAIN iv'[c] :
         /\ iv'[c][i].dec \in Openers(D, c) /\ <<iv'[c][i].dec, c>> \notin rows'
         /\ iv'[c][i].from = iv'[c][i].dec.from
         /\ \A t \in Nat : Until(t, iv'[c][i].to) <=>
              /\ Until(t, iv'[c][i].dec.to)
              /\ \A x \in Closers(D, c) :
                   <<x, c>> \notin rows' /\ Closes(D, c, x, iv'[c][i].dec) => t < CloseAt(x)
    <3> SUFFICES ASSUME NEW i \in 1..(n + 1)
                 PROVE  /\ iv'[c][i].dec \in Openers(D, c) /\ <<iv'[c][i].dec, c>> \notin rows'
                        /\ iv'[c][i].from = iv'[c][i].dec.from
                        /\ \A t \in Nat : Until(t, iv'[c][i].to) <=>
                            /\ Until(t, iv'[c][i].dec.to)
                            /\ \A x \in Closers(D, c) :
                                <<x, c>> \notin rows' /\ Closes(D, c, x, iv'[c][i].dec) => t < CloseAt(x)
      BY <1>6
    <3>1. CASE i \in 1..n
      BY <2>4, <3>1
    <3>2. CASE i = n + 1
      <4>1. iv'[c][i].dec = d /\ iv'[c][i].from = d.from /\ iv'[c][i].to = d.to
        BY <2>5, <3>2
      <4> QED BY <2>2, <2>5, <2>6, <4>1
    <3> QED BY <1>6, <3>1, <3>2
  <2>8. \A i, j \in DOMAIN iv'[c] : i < j => Before(iv'[c][i].dec, iv'[c][j].dec)
    <3> SUFFICES ASSUME NEW i \in 1..(n + 1), NEW j \in 1..(n + 1), i < j
                 PROVE  Before(iv'[c][i].dec, iv'[c][j].dec)
      BY <1>6
    <3>1. i \in 1..n
      BY <1>6
    <3>2. CASE j = n + 1
      BY <2>4, <2>5, <3>1, <3>2
    <3>3. CASE j \in 1..n
      BY <1>6, <2>1, <2>4, <3>1, <3>3 DEF Faithful
    <3> QED BY <1>6, <3>2, <3>3
  <2>9. ASSUME NEW o \in Openers(D, c), <<o, c>> \notin rows'
        PROVE  \E i \in DOMAIN iv'[c] : iv'[c][i].dec = o
    <3>1. CASE o = d
      BY <1>6, <2>5, <3>1
    <3>2. CASE o # d
      <4>1. PICK i \in DOMAIN iv[c] : iv[c][i].dec = o
        BY <1>1, <1>3, <2>1, <2>9, <3>2 DEF Faithful
      <4>2. i \in 1..n /\ i \in DOMAIN iv'[c]
        BY <1>6
      <4>3. iv'[c][i].dec = o
        BY <1>4, <4>1, <4>2
      <4> QED BY <4>2, <4>3
    <3> QED BY <3>1, <3>2
  <2>10. \A x \in Closers(D, c) : <<x, c>> \notin rows' => \E o \in Openers(D, c) : Before(o, x)
    BY <2>1, <2>3 DEF Faithful
  <2>11. /\ D' = D /\ Openers(D, c)' = Openers(D, c) /\ Closers(D, c)' = Closers(D, c)
         /\ \A x, o : Closes(D, c, x, o)' <=> Closes(D, c, x, o)
    BY <1>1, Frame
  <2> QED BY <2>7, <2>8, <2>9, <2>10, <2>11 DEF Faithful, Until
<1> QED
  BY <1>1, <1>4, <1>5, <1>8, <1>9, OneTurn

LEMMA ShortenedUntil ==
    ASSUME NEW i \in IntervalSet, NEW d \in DecSet
    PROVE  /\ Shortened(i, d).from = i.from /\ Shortened(i, d).dec = i.dec
           /\ \A t \in Nat : Until(t, Shortened(i, d).to) <=> Until(t, i.to) /\ t < CloseAt(d)
<1>1. CloseAt(d) \in Nat
  BY DEF CloseAt, DecSet, NoTime
<1>2. i.to \in Nat \cup {NoTime}
  BY DEF IntervalSet
<1>3. CASE i.to = NoTime \/ CloseAt(d) < i.to
  <2>1. Shortened(i, d) = [i EXCEPT !.to = CloseAt(d)]
    BY <1>3 DEF Shortened
  <2>2. /\ Shortened(i, d).from = i.from /\ Shortened(i, d).dec = i.dec
        /\ Shortened(i, d).to = CloseAt(d)
    BY <2>1 DEF IntervalSet
  <2> QED BY <1>1, <1>2, <1>3, <2>2 DEF Until, NoTime
<1>4. CASE ~(i.to = NoTime \/ CloseAt(d) < i.to)
  <2>1. Shortened(i, d) = i
    BY <1>4 DEF Shortened
  <2> QED BY <1>1, <1>2, <1>4, <2>1 DEF Until, NoTime
<1> QED
  BY <1>3, <1>4

\* The close that is read acts on the last interval, and on no other.
LEMMA ClosesLast ==
    ASSUME RedInv, Corrections = {}, NEW r \in rows, Read(r), r[1].act \in CloseActions,
           NEW i \in DOMAIN iv[r[2]]
    PROVE  /\ Closes(D, r[2], r[1], iv[r[2]][i].dec) <=> i = Len(iv[r[2]])
           /\ Before(iv[r[2]][i].dec, r[1])
<1> DEFINE c == r[2]
           d == r[1]
           n == Len(iv[c])
<1>1. /\ r \in RowsAt(kt) /\ pc = "fold" /\ TypeInv
      /\ \A q \in RowsAt(kt) \ rows : ~Before(d, q[1])
      /\ \A s \in rows : ~Before(s[1], d)
  BY ReadNext DEF Read, RedInv
<1>2. c \in Claims /\ d \in D /\ d \in DecSet /\ c \in d.claims /\ r = <<d, c>>
  BY <1>1, RowTypes
<1>3. /\ Faithful(c) /\ iv[c] \in Seq(IntervalSet)
  BY <1>1, <1>2 DEF RedInv, TypeInv
<1>4. n \in Nat /\ DOMAIN iv[c] = 1..n
  BY <1>3, LenProperties
<1>5. d \notin Openers(D, c)
  BY DEF Openers, OpeningActions, CloseActions
<1>6. ASSUME NEW j \in DOMAIN iv[c]
      PROVE  /\ iv[c][j].dec \in Openers(D, c) /\ iv[c][j].dec \in DecSet
             /\ Before(iv[c][j].dec, d)
  <2> DEFINE o == iv[c][j].dec
  <2>1. o \in Openers(D, c) /\ <<o, c>> \notin rows
    BY <1>3 DEF Faithful
  <2>2. o \in D /\ <<o, c>> \in RowsAt(kt) \ rows
    BY <1>2, <2>1, RowOf
  <2>3. o # d /\ ~Before(d, o)
    BY <1>1, <1>5, <2>1, <2>2
  <2> QED BY <1>1, <1>2, <2>1, <2>2, <2>3, Ordered
<1>7. ASSUME i = n, NEW p \in Openers(D, c), Before(p, d)
      PROVE  ~Before(iv[c][i].dec, p)
  <2>1. <<p, c>> \notin rows
    BY <1>1, <1>7
  <2>2. PICK j \in DOMAIN iv[c] : iv[c][j].dec = p
    BY <1>3, <1>7, <2>1 DEF Faithful
  <2>3. CASE j = n
    <3>1. p = iv[c][i].dec /\ p \in DecSet
      BY <1>6, <1>7, <2>2, <2>3
    <3> QED BY <3>1, LogicalOrder
  <2>4. CASE j < i
    <3>1. Before(p, iv[c][i].dec) /\ p \in DecSet /\ iv[c][i].dec \in DecSet
      BY <1>3, <1>6, <2>2, <2>4 DEF Faithful
    <3> QED BY <3>1, LogicalOrder
  <2> QED BY <1>4, <1>7, <2>3, <2>4
<1>8. ASSUME i # n
      PROVE  ~Closes(D, c, d, iv[c][i].dec)
  <2>1. n \in DOMAIN iv[c] /\ i < n
    BY <1>4, <1>8
  <2>2. /\ iv[c][n].dec \in Openers(D, c) /\ Before(iv[c][n].dec, d)
        /\ Before(iv[c][i].dec, iv[c][n].dec)
    BY <1>3, <1>6, <2>1 DEF Faithful
  <2> QED BY <2>2 DEF Closes
<1> QED
  BY <1>6, <1>7, <1>8 DEF Closes

LEMMA CloseStep ==
    ASSUME RedInv, NEW r \in rows, Close(r)
    PROVE  RedInv'
<1> DEFINE c == r[2]
           d == r[1]
           n == Len(iv[c])
<1>1. /\ Read(r) /\ iv' = Closed(r) /\ corr' = corr /\ pc' = pc /\ pc = "fold"
      /\ d.act \in CloseActions /\ iv[c] # <<>>
      /\ r \in RowsAt(kt) /\ rows' = rows \ {r} /\ decisions' = decisions /\ kt' = kt
  BY ReadNext DEF Close, Read
<1>2. TypeInv /\ Listed
  BY <1>1 DEF RedInv
<1>3. c \in Claims /\ d \in D /\ d \in DecSet /\ c \in d.claims /\ r = <<d, c>>
  BY <1>1, <1>2, RowTypes
<1>4. /\ iv' \in [Claims -> Seq(IntervalSet)]
      /\ \A b \in Claims \ {c} : iv'[b] = iv[b]
      /\ Len(iv'[c]) = n /\ n \in Nat \ {0}
      /\ \A i \in 1..n - 1 : iv'[c][i] = iv[c][i]
      /\ iv'[c][n] = Shortened(iv[c][n], d)
  BY <1>1, <1>2, ClosedTypes
<1>5. /\ TypeInv' /\ iv[c] \in Seq(IntervalSet) /\ iv'[c] \in Seq(IntervalSet)
  BY <1>1, <1>2, <1>3, <1>4, ReadTypes DEF TypeInv
<1>6. DOMAIN iv[c] = 1..n /\ DOMAIN iv'[c] = 1..n /\ iv[c] \in [1..n -> IntervalSet]
  BY <1>4, <1>5, LenProperties
<1>7. Corrections' = Corrections /\ r \notin Corrections
  BY <1>1, Frame DEF Corrections, CloseActions
<1>8. Listed'
  BY <1>1, <1>2, <1>7 DEF Listed
<1>9. ASSUME Corrections = {}
      PROVE  Faithful(c)'
  <2>1. Faithful(c)
    BY <1>1, <1>3, <1>9 DEF RedInv
  <2>2. d \in Closers(D, c) /\ d \notin Openers(D, c)
    BY <1>1, <1>3 DEF Openers, Closers, OpeningActions, CloseActions
  <2>3. /\ \A o \in Openers(D, c) : <<o, c>> \notin rows' <=> <<o, c>> \notin rows
        /\ \A x \in Closers(D, c) : <<x, c>> \notin rows' <=> <<x, c>> \notin rows \/ x = d
    BY <1>1, <1>3, <2>2
  <2>4. ASSUME NEW i \in 1..n
        PROVE  /\ iv'[c][i].dec = iv[c][i].dec /\ iv'[c][i].from = iv[c][i].from
               /\ \A t \in Nat : Until(t, iv'[c][i].to) <=>
                    Until(t, iv[c][i].to) /\ (i = n => t < CloseAt(d))
    <3>1. CASE i = n
      BY <1>3, <1>4, <1>6, <3>1, ShortenedUntil
    <3>2. CASE i \in 1..n - 1
      <4>1. iv'[c][i] = iv[c][i] /\ i # n
        BY <1>4, <3>2
      <4> QED BY <4>1
    <3> QED BY <1>4, <3>1, <3>2
  <2>5. ASSUME NEW i \in DOMAIN iv'[c]
        PROVE  /\ iv'[c][i].dec \in Openers(D, c) /\ <<iv'[c][i].dec, c>> \notin rows'
               /\ iv'[c][i].from = iv'[c][i].dec.from
               /\ \A t \in Nat : Until(t, iv'[c][i].to) <=>
                    /\ Until(t, iv'[c][i].dec.to)
                    /\ \A x \in Closers(D, c) :
                         <<x, c>> \notin rows' /\ Closes(D, c, x, iv'[c][i].dec) => t < CloseAt(x)
    <3> DEFINE o == iv[c][i].dec
    <3>1. i \in 1..n /\ iv'[c][i].dec = o
      BY <1>6, <2>4
    <3>2. o \in Openers(D, c) /\ <<o, c>> \notin rows' /\ iv'[c][i].from = o.from
      BY <1>6, <2>1, <2>3, <2>4 DEF Faithful
    <3>3. Closes(D, c, d, o) <=> i = n
      BY <1>1, <1>6, <1>9, ClosesLast
    <3>4. \A t \in Nat : Until(t, iv[c][i].to) <=>
            /\ Until(t, o.to)
            /\ \A x \in Closers(D, c) : <<x, c>> \notin rows /\ Closes(D, c, x, o) => t < CloseAt(x)
      BY <1>6, <2>1 DEF Faithful
    <3>5. \A t \in Nat : Until(t, iv'[c][i].to) <=>
            /\ Until(t, o.to)
            /\ \A x \in Closers(D, c) : <<x, c>> \notin rows' /\ Closes(D, c, x, o) => t < CloseAt(x)
      BY <2>2, <2>3, <2>4, <3>1, <3>3, <3>4
    <3> QED BY <3>1, <3>2, <3>5
  <2>6. \A i, j \in DOMAIN iv'[c] : i < j => Before(iv'[c][i].dec, iv'[c][j].dec)
    BY <1>6, <2>1, <2>4 DEF Faithful
  <2>7. \A o \in Openers(D, c) : <<o, c>> \notin rows' => \E i \in DOMAIN iv'[c] : iv'[c][i].dec = o
    BY <1>6, <2>1, <2>3, <2>4 DEF Faithful
  <2>8. ASSUME NEW x \in Closers(D, c), <<x, c>> \notin rows'
        PROVE  \E o \in Openers(D, c) : Before(o, x)
    <3>1. CASE x = d
      <4>1. 1 \in DOMAIN iv[c]
        BY <1>4, <1>6
      <4>2. iv[c][1].dec \in Openers(D, c)
        BY <2>1, <4>1 DEF Faithful
      <4>3. Before(iv[c][1].dec, d)
        BY <1>1, <1>9, <4>1, ClosesLast
      <4> QED BY <3>1, <4>2, <4>3
    <3>2. CASE x # d
      BY <2>1, <2>3, <2>8, <3>2 DEF Faithful
    <3> QED BY <3>1, <3>2
  <2>9. /\ D' = D /\ Openers(D, c)' = Openers(D, c) /\ Closers(D, c)' = Closers(D, c)
         /\ \A x, o : Closes(D, c, x, o)' <=> Closes(D, c, x, o)
    BY <1>1, Frame
  <2> QED BY <2>5, <2>6, <2>7, <2>8, <2>9 DEF Faithful, Until
<1> QED
  BY <1>1, <1>4, <1>5, <1>8, <1>9, OneTurn

-----------------------------------------------------------------------------
(* The view, correction by correction. *)

LEMMA EndFoldStep ==
    ASSUME RedInv, NEW t \in DomainTimes, EndFold(t)
    PROVE  RedInv'
<1>1. /\ pc = "fold" /\ pc' = "correct" /\ dt' = t /\ t \in Nat /\ active' = ActiveIn(iv, t)
      /\ decisions' = decisions /\ kt' = kt /\ rows' = rows /\ rows = {} /\ iv' = iv /\ corr' = corr
  BY RowsOK DEF EndFold
<1>2. TypeInv /\ Listed
  BY <1>1 DEF RedInv
<1>3. Corrections' = Corrections /\ RowsAt(kt)' = RowsAt(kt)
  BY <1>1, Frame
<1>4. ActiveIn(iv, dt)' = active' /\ active' \subseteq Claims \X decisions
  BY <1>1 DEF ActiveIn, LastHolding, Holds
<1>5. TypeInv'
  BY <1>1, <1>2, <1>3, <1>4 DEF TypeInv
<1>6. Corrects'
  <2>1. \A r \in Corrections : Waiting(r)'
    BY <1>1, <1>2 DEF Listed, Waiting
  <2> QED BY <1>1, <1>3, <1>4, <2>1 DEF Corrects
<1>7. ASSUME Corrections' = {}, NEW c \in Claims
      PROVE  Faithful(c)'
  BY <1>1, <1>3, <1>7, SameFaithful DEF RedInv
<1> QED
  BY <1>1, <1>5, <1>6, <1>7 DEF RedInv

LEMMA NextCorrectionStep ==
    ASSUME RedInv, NextCorrection
    PROVE  RedInv'
<1>0. PICK h : h = Head(corr)
  OBVIOUS
<1>1. /\ pc = "correct" /\ corr # <<>> /\ corr' = Tail(corr) /\ Apply(h)
      /\ decisions' = decisions /\ kt' = kt /\ dt' = dt /\ rows' = rows /\ iv' = iv
  BY <1>0 DEF NextCorrection
<1>2. TypeInv /\ Corrects
  BY <1>1 DEF RedInv
<1>3. /\ Corrections' = Corrections /\ RowsAt(kt)' = RowsAt(kt)
      /\ ActiveIn(iv, dt)' = ActiveIn(iv, dt)
  BY <1>1, Frame DEF ActiveIn, LastHolding, Holds
<1>4. corr \in Seq(Corrections)
  BY <1>2 DEF TypeInv
<1>5. /\ h \in Corrections /\ corr' \in Seq(Corrections) /\ Len(corr') = Len(corr) - 1
      /\ \A i \in 1..Len(corr') : corr'[i] = corr[i + 1]
      /\ DOMAIN corr = 1..Len(corr) /\ DOMAIN corr' = 1..Len(corr') /\ Len(corr) \in Nat
      /\ h = corr[1]
  BY <1>0, <1>1, <1>4, HeadTailProperties, LenProperties
<1>6. active' \subseteq active /\ pc' \in {"correct", "raised"}
  BY <1>1 DEF Apply
<1>7. TypeInv'
  BY <1>1, <1>2, <1>3, <1>5, <1>6 DEF TypeInv
<1>8. ASSUME pc' = "correct"
      PROVE  Corrects'
  <2>1. \/ ~InTime(h) /\ active' = active
        \/ InTime(h) /\ active' = active \ Corrected(active, h)
    BY <1>1, <1>8 DEF Apply
  <2>2. \A r : InTime(r)' <=> InTime(r)
    BY <1>1 DEF InTime
  <2>3. Applied(h)'
    BY <2>1, <2>2 DEF Applied, Corrected
  <2>4. ASSUME NEW r \in Corrections
        PROVE  Waiting(r)' \/ Applied(r)'
    <3>1. CASE Applied(r)
      BY <1>6, <2>2, <3>1 DEF Applied
    <3>2. CASE Waiting(r)
      <4>1. PICK i \in DOMAIN corr : corr[i] = r
        BY <3>2 DEF Waiting
      <4>2. CASE i = 1
        BY <1>5, <2>3, <4>1, <4>2
      <4>3. CASE i # 1
        <5>1. i - 1 \in DOMAIN corr' /\ corr'[i - 1] = r
          BY <1>5, <4>1, <4>3
        <5> QED BY <5>1 DEF Waiting
      <4> QED BY <4>2, <4>3
    <3> QED BY <1>2, <3>1, <3>2 DEF Corrects
  <2>5. ASSUME NEW cd \in ActiveIn(iv, dt) \ active'
        PROVE  \E r \in Corrections : InTime(r) /\ Before(cd[2], r[1])
    <3>1. CASE cd \in active
      BY <1>5, <2>1, <3>1 DEF Corrected
    <3>2. CASE cd \notin active
      BY <1>2, <3>2 DEF Corrects
    <3> QED BY <3>1, <3>2
  <2>6. rows' = {} /\ Corrections # {}
    BY <1>1, <1>2, <1>5 DEF Corrects
  <2> QED BY <1>3, <2>2, <2>4, <2>5, <2>6 DEF Corrects
<1> QED
  BY <1>3, <1>5, <1>6, <1>7, <1>8 DEF RedInv

LEMMA EndCorrectionsStep ==
    ASSUME RedInv, EndCorrections
    PROVE  RedInv'
<1>1. /\ pc = "correct" /\ pc' = "done" /\ corr = <<>>
      /\ decisions' = decisions /\ kt' = kt /\ dt' = dt /\ rows' = rows /\ iv' = iv
      /\ corr' = corr /\ active' = active
  BY DEF EndCorrections
<1>2. /\ Corrections' = Corrections /\ RowsAt(kt)' = RowsAt(kt)
      /\ ActiveIn(iv, dt)' = ActiveIn(iv, dt)
  BY <1>1, Frame DEF ActiveIn, LastHolding, Holds
<1>3. TypeInv'
  BY <1>1, <1>2 DEF RedInv, TypeInv
<1>4. Corrects'
  BY <1>1, <1>2 DEF RedInv, Corrects, Waiting, Applied, InTime
<1>5. ASSUME Corrections' = {}, NEW c \in Claims
      PROVE  Faithful(c)'
  BY <1>1, <1>2, <1>5, SameFaithful DEF RedInv
<1> QED
  BY <1>1, <1>3, <1>4, <1>5 DEF RedInv

LEMMA ReturnStep ==
    ASSUME RedInv, Return
    PROVE  RedInv'
<1>1. /\ pc' = "idle" /\ kt' = 0 /\ dt' = 0 /\ rows' = {} /\ iv' = NoIntervals
      /\ corr' = <<>> /\ active' = {} /\ decisions' = decisions
  BY DEF Return
<1>2. corr' \in Seq(Corrections')
  BY <1>1, EmptySeq
<1>3. NoIntervals \in [Claims -> Seq(IntervalSet)]
  BY EmptySeq DEF NoIntervals
<1>4. TypeInv'
  BY <1>1, <1>2, <1>3 DEF RedInv, TypeInv
<1> QED
  BY <1>1, <1>4 DEF RedInv

LEMMA RedInit == Init => RedInv
<1> SUFFICES ASSUME Init PROVE RedInv
  OBVIOUS
<1>1. corr \in Seq(Corrections)
  BY EmptySeq DEF Init
<1>2. NoIntervals \in [Claims -> Seq(IntervalSet)]
  BY EmptySeq DEF NoIntervals
<1>3. TypeInv
  BY <1>1, <1>2 DEF Init, TypeInv
<1> QED
  BY <1>3 DEF Init, RedInv

LEMMA RedStutter ==
    ASSUME RedInv, UNCHANGED vars
    PROVE  RedInv'
<1>1. /\ decisions' = decisions /\ pc' = pc /\ kt' = kt /\ dt' = dt /\ rows' = rows /\ iv' = iv
      /\ corr' = corr /\ active' = active
  BY DEF vars
<1>2. /\ Corrections' = Corrections /\ RowsAt(kt)' = RowsAt(kt) /\ (Foldable(D)' <=> Foldable(D))
      /\ ActiveIn(iv, dt)' = ActiveIn(iv, dt)
  BY <1>1, Frame DEF ActiveIn, LastHolding, Holds
<1>3. TypeInv'
  BY <1>1, <1>2 DEF RedInv, TypeInv
<1>4. pc = "fold" => ReadInOrder' /\ Listed'
  BY <1>1, <1>2 DEF RedInv, ReadInOrder, Listed
<1>5. pc \in {"correct", "done"} => Corrects'
  BY <1>1, <1>2 DEF RedInv, Corrects, Waiting, Applied, InTime
<1>6. ASSUME pc \in {"fold", "correct", "done"}, Corrections = {}, NEW c \in Claims
      PROVE  Faithful(c)'
  BY <1>1, <1>6, SameFaithful DEF RedInv
<1> QED
  BY <1>1, <1>2, <1>3, <1>4, <1>5, <1>6 DEF RedInv

\* The invariant of the projection holds in every reachable state.
THEOREM RedInvariant == Spec => []RedInv
<1>1. RedInv /\ [Next]_vars => RedInv'
  <2> SUFFICES ASSUME RedInv, [Next]_vars PROVE RedInv'
    OBVIOUS
  <2>1. ASSUME NEW row \in Rows, NEW id \in Ids, Load(row, id) PROVE RedInv'
    BY <2>1, LoadStep
  <2>2. ASSUME NEW t \in KnowledgeTimes, Begin(t) PROVE RedInv'
    BY <2>2, BeginStep
  <2>3. ASSUME NEW r \in rows, Open(r) PROVE RedInv'
    BY <2>3, OpenStep
  <2>4. ASSUME NEW r \in rows, Close(r) PROVE RedInv'
    BY <2>4, CloseStep
  <2>5. ASSUME NEW r \in rows, CloseOfNothing(r) PROVE RedInv'
    BY <2>5, CloseOfNothingStep
  <2>6. ASSUME NEW r \in rows, Correct(r) PROVE RedInv'
    BY <2>6, CorrectStep
  <2>7. ASSUME NEW r \in rows, Skip(r) PROVE RedInv'
    BY <2>7, SkipStep
  <2>8. ASSUME NEW t \in DomainTimes, EndFold(t) PROVE RedInv'
    BY <2>8, EndFoldStep
  <2>9. CASE NextCorrection
    BY <2>9, NextCorrectionStep
  <2>10. CASE EndCorrections
    BY <2>10, EndCorrectionsStep
  <2>11. CASE Return
    BY <2>11, ReturnStep
  <2>12. CASE UNCHANGED vars
    BY <2>12, RedStutter
  <2> QED
    BY <2>1, <2>2, <2>3, <2>4, <2>5, <2>6, <2>7, <2>8, <2>9, <2>10, <2>11, <2>12 DEF Next
<1> QED
  BY <1>1, RedInit, PTL DEF Spec

-----------------------------------------------------------------------------
(* What the projection promises. *)

\* Where a correction holds and the view can be computed, nothing decided before
\* it is believed any more, except about the corrected Claim
\* (_legacy_correction_targets).
THEOREM CorrectionsWin == Spec => []CorrectionWins
<1>1. RedInv => CorrectionWins
  <2> SUFFICES ASSUME RedInv, pc = "done", NEW r \in Corrections
               PROVE  Applied(r)
    BY DEF CorrectionWins, Applied
  <2>1. ~Waiting(r)
    BY DEF RedInv, Waiting
  <2> QED BY <2>1 DEF RedInv, Corrects
<1> QED
  BY <1>1, RedInvariant, PTL

\* What a correction takes out of the view is older than a correction that holds
\* (_legacy_correction_targets).
THEOREM OlderDeleted == Spec => []OnlyOlderDeleted
<1>1. RedInv => OnlyOlderDeleted
  BY DEF RedInv, Corrects, OnlyOlderDeleted
<1> QED
  BY <1>1, RedInvariant, PTL

\* When all is read, an interval holds exactly when its opening is in force.
LEMMA HoldsInForce ==
    ASSUME TypeInv, rows = {}, NEW c \in Claims, Faithful(c), NEW i \in DOMAIN iv[c]
    PROVE  /\ Holds(iv, c, i, dt) <=> InForce(D, c, iv[c][i].dec, dt)
           /\ iv[c][i].dec \in Openers(D, c) /\ iv[c][i].dec \in DecSet
<1> DEFINE o == iv[c][i].dec
<1>1. /\ o \in Openers(D, c) /\ iv[c][i].from = o.from
      /\ \A t \in Nat : Until(t, iv[c][i].to) <=>
           /\ Until(t, o.to)
           /\ \A x \in Closers(D, c) : <<x, c>> \notin rows /\ Closes(D, c, x, o) => t < CloseAt(x)
  BY DEF Faithful
<1>2. dt \in Nat /\ decisions \subseteq DecSet
  BY DEF TypeInv
<1>3. o \in DecSet
  BY <1>1, <1>2 DEF Openers, D, Visible
<1>4. Until(dt, iv[c][i].to) <=>
           /\ Until(dt, o.to)
           /\ \A x \in Closers(D, c) : Closes(D, c, x, o) => dt < CloseAt(x)
  BY <1>1, <1>2
<1>5. /\ Holds(iv, c, i, dt) <=> (o.from = NoTime \/ o.from <= dt) /\ Until(dt, iv[c][i].to)
      /\ Within(dt, o.from, o.to) <=> (o.from = NoTime \/ o.from <= dt) /\ Until(dt, o.to)
  BY <1>1 DEF Holds, Within, Until
<1> QED
  BY <1>1, <1>3, <1>4, <1>5 DEF InForce

\* The last interval that holds is the opening the accepted Claim rests on.
LEMMA LastRests ==
    ASSUME TypeInv, rows = {}, NEW c \in Claims, Faithful(c), NEW o
    PROVE  (\E i \in LastHolding(iv, c, dt) : o = iv[c][i].dec) <=> Rests(D, c, o, dt)
<1>0. /\ iv[c] \in Seq(IntervalSet)
      /\ Len(iv[c]) \in Nat /\ DOMAIN iv[c] = 1..Len(iv[c])
  BY LenProperties DEF TypeInv
<1>1. \A i, j \in DOMAIN iv[c] : i < j => Before(iv[c][i].dec, iv[c][j].dec)
  BY DEF Faithful
<1>2. \A p \in Openers(D, c) : \E i \in DOMAIN iv[c] : iv[c][i].dec = p
  BY DEF Faithful
<1>3. \A i \in DOMAIN iv[c] :
        /\ Holds(iv, c, i, dt) <=> InForce(D, c, iv[c][i].dec, dt)
        /\ iv[c][i].dec \in Openers(D, c) /\ iv[c][i].dec \in DecSet
  BY HoldsInForce
<1>4. ASSUME NEW i \in LastHolding(iv, c, dt), o = iv[c][i].dec
      PROVE  Rests(D, c, o, dt)
  <2>1. i \in DOMAIN iv[c] /\ Holds(iv, c, i, dt)
    BY <1>4 DEF LastHolding
  <2>2. ASSUME NEW p \in Openers(D, c), Before(o, p)
        PROVE  ~InForce(D, c, p, dt)
    <3>1. PICK j \in DOMAIN iv[c] : iv[c][j].dec = p
      BY <1>2
    <3>2. ~Before(p, o) /\ p # o
      BY <1>3, <1>4, <2>1, <2>2, <3>1, LogicalOrder
    <3>3. j > i
      BY <1>0, <1>1, <1>4, <2>1, <3>1, <3>2
    <3> QED BY <1>3, <1>4, <3>1, <3>3 DEF LastHolding
  <2> QED BY <1>3, <1>4, <2>1, <2>2 DEF Rests
<1>5. ASSUME Rests(D, c, o, dt)
      PROVE  \E i \in LastHolding(iv, c, dt) : o = iv[c][i].dec
  <2>1. o \in Openers(D, c) /\ InForce(D, c, o, dt)
    BY <1>5 DEF Rests
  <2>2. PICK i \in DOMAIN iv[c] : iv[c][i].dec = o
    BY <1>2, <2>1
  <2>3. ASSUME NEW j \in DOMAIN iv[c], j > i
        PROVE  ~Holds(iv, c, j, dt)
    <3>1. Before(o, iv[c][j].dec)
      BY <1>0, <1>1, <2>2, <2>3
    <3> QED BY <1>3, <1>5, <3>1 DEF Rests
  <2> QED BY <1>3, <2>1, <2>2, <2>3 DEF LastHolding
<1> QED
  BY <1>4, <1>5

\* An accepted Claim rests on some opening.
LEMMA ActiveRests ==
    ASSUME TypeInv, rows = {}, NEW c \in Claims, Faithful(c),
           NEW o \in Openers(D, c), InForce(D, c, o, dt)
    PROVE  \E p \in D : Rests(D, c, p, dt)
<1> DEFINE S == {i \in DOMAIN iv[c] : Holds(iv, c, i, dt)}
<1>0. Len(iv[c]) \in Nat /\ DOMAIN iv[c] = 1..Len(iv[c])
  BY LenProperties DEF TypeInv
<1>1. PICK j \in DOMAIN iv[c] : iv[c][j].dec = o
  BY DEF Faithful
<1>2. j \in S
  BY <1>1, HoldsInForce
<1>3. PICK i \in S : \A k \in S : k <= i
  BY <1>0, <1>2, LastPlace
<1>4. i \in LastHolding(iv, c, dt)
  BY <1>0, <1>3 DEF LastHolding
<1>5. Rests(D, c, iv[c][i].dec, dt)
  BY <1>4, LastRests
<1> QED
  BY <1>5 DEF Rests, Openers

\* Without corrections the fold raises only where the Decisions cannot be folded,
\* and otherwise finds the accepted view of Ledger: the same Claims, resting on
\* the same Decisions (projection, _token_payload).
THEOREM ProjectionIsView == Spec => []FoldIsView
<1>1. RedInv => FoldIsView
  <2> SUFFICES ASSUME RedInv, Corrections = {}, pc = "done"
               PROVE  /\ Foldable(D)
                      /\ active = Basis(D, dt)
                      /\ {cd[1] : cd \in active} = Active(D, dt)
    BY DEF RedInv, FoldIsView
  <2>1. /\ TypeInv /\ rows = {} /\ active = ActiveIn(iv, dt)
        /\ \A c \in Claims : Faithful(c)
    BY DEF RedInv, Corrects
  <2>2. /\ D \subseteq decisions
        /\ \A d \in D : d.claims \subseteq Claims
    BY <2>1 DEF TypeInv, D, Visible, DecSet
  <2>3. Foldable(D)
    <3> SUFFICES ASSUME NEW x \in D, x.act \in CloseActions, NEW c \in x.claims
                 PROVE  \E o \in Openers(D, c) : Before(o, x)
      BY DEF Foldable
    <3>1. c \in Claims /\ x \in Closers(D, c)
      BY <2>2 DEF Closers
    <3> QED BY <2>1, <3>1 DEF Faithful
  <2>4. \A c \in Claims, o \in D : Rests(D, c, o, dt) => c \in Named(D)
    BY DEF Rests, Openers, Named
  <2>5. Named(D) \subseteq Claims
    BY <2>2 DEF Named
  <2>6. active = Basis(D, dt)
    <3>1. ASSUME NEW cd \in active
          PROVE  cd \in Basis(D, dt)
      <4>1. /\ cd \in Claims \X decisions
            /\ \E i \in LastHolding(iv, cd[1], dt) : cd[2] = iv[cd[1]][i].dec
        BY <2>1 DEF ActiveIn
      <4>2. Rests(D, cd[1], cd[2], dt)
        BY <2>1, <4>1, LastRests
      <4>3. cd[2] \in D /\ cd[1] \in Named(D)
        BY <2>4, <4>1, <4>2 DEF Rests, Openers
      <4> QED BY <4>1, <4>2, <4>3 DEF Basis
    <3>2. ASSUME NEW cd \in Basis(D, dt)
          PROVE  cd \in active
      <4>1. cd \in Claims \X decisions /\ Rests(D, cd[1], cd[2], dt)
        BY <2>2, <2>5 DEF Basis
      <4>2. \E i \in LastHolding(iv, cd[1], dt) : cd[2] = iv[cd[1]][i].dec
        BY <2>1, <4>1, LastRests
      <4> QED BY <2>1, <4>1, <4>2 DEF ActiveIn
    <3> QED BY <3>1, <3>2
  <2>7. {cd[1] : cd \in active} = Active(D, dt)
    <3>1. ASSUME NEW cd \in Basis(D, dt)
          PROVE  cd[1] \in Active(D, dt)
      BY DEF Basis, Rests, Active
    <3>2. ASSUME NEW c \in Active(D, dt)
          PROVE  \E cd \in Basis(D, dt) : c = cd[1]
      <4>1. c \in Claims /\ c \in Named(D) /\ \E o \in Openers(D, c) : InForce(D, c, o, dt)
        BY <2>5 DEF Active
      <4>2. PICK p \in D : Rests(D, c, p, dt)
        BY <2>1, <4>1, ActiveRests
      <4>3. <<c, p>> \in Basis(D, dt)
        BY <4>1, <4>2 DEF Basis
      <4> QED BY <4>3
    <3> QED BY <2>6, <3>1, <3>2
  <2> QED BY <2>3, <2>6, <2>7
<1> QED
  BY <1>1, RedInvariant, PTL
=============================================================================
