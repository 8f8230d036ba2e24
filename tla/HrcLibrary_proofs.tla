------------------------- MODULE HrcLibrary_proofs -------------------------
(***************************************************************************)
(* Proofs about loading: for every library of files, however they refer to *)
(* each other, and every use of it by sessions.                            *)
(***************************************************************************)
EXTENDS HrcLibrary, SequenceTheorems, WellFoundedInduction, TLAPS

-----------------------------------------------------------------------------
(* The stack holds frames of many kinds; all that is needed of it is that  *)
(* it is a sequence.                                                       *)
IsStack(s) == \E S : s \in Seq(S)

LEMMA PushedStack ==
  ASSUME NEW s, IsStack(s), NEW f
  PROVE  /\ IsStack(Append(s, f)) /\ Append(s, f) # <<>>
         /\ Len(s) \in Nat /\ Len(Append(s, f)) = Len(s) + 1
         /\ \A k \in 1..Len(s) : Append(s, f)[k] = s[k]
         /\ Append(s, f)[Len(s) + 1] = f
  <1>1. PICK S : s \in Seq(S)
    BY DEF IsStack
  <1>2. s \in Seq(S \cup {f}) /\ Append(s, f) \in Seq(S \cup {f})
    BY <1>1
  <1> QED
    BY <1>2 DEF IsStack

LEMMA PoppedStack ==
  ASSUME NEW s, IsStack(s), s # <<>>
  PROVE  /\ IsStack(Front(s)) /\ Len(s) \in Nat /\ Len(s) > 0
         /\ Len(Front(s)) = Len(s) - 1
         /\ \A k \in 1..Len(s) - 1 : Front(s)[k] = s[k]
         /\ Last(s) = s[Len(s)]
         /\ Front(s) = <<>> => Len(s) = 1
  <1>1. PICK S : s \in Seq(S)
    BY DEF IsStack
  <1>2. Len(s) \in Nat /\ Len(s) > 0
    BY <1>1
  <1>3. Front(s) = SubSeq(s, 1, Len(s) - 1) /\ Last(s) = s[Len(s)]
    BY DEF Front, Last
  <1>4. /\ Front(s) \in Seq(S) /\ Len(Front(s)) = Len(s) - 1
        /\ \A k \in 1..Len(s) - 1 : Front(s)[k] = s[k]
    <2>1. \A k \in 1..Len(s) - 1 : s[k] \in S
      BY <1>1, <1>2, ElementOfSeq
    <2>2. PICK n : n = Len(s) - 1
      OBVIOUS
    <2>3. n \in Nat /\ (n >= 1 \/ n = 0) /\ n - 1 + 1 = n /\ \A k \in 1..n : 1 + k - 1 = k
      BY <1>2, <2>2
    <2>4. /\ SubSeq(s, 1, n) \in Seq(S)
          /\ Len(SubSeq(s, 1, n)) = IF 1 <= n THEN n - 1 + 1 ELSE 0
          /\ \A k \in 1..n - 1 + 1 : SubSeq(s, 1, n)[k] = s[1 + k - 1]
      BY <2>1, <2>2, <2>3, SubSeqProperties
    <2>5. \A k \in 1..n : SubSeq(s, 1, n)[k] = s[k]
      BY <2>3, <2>4
    <2>6. Front(s) = SubSeq(s, 1, n)
      BY <1>3, <2>2
    <2> QED
      BY <2>2, <2>3, <2>4, <2>5, <2>6
  <1>5. Front(s) = <<>> => Len(s) = 1
    BY <1>2, <1>4
  <1> QED
    BY <1>2, <1>3, <1>4, <1>5 DEF IsStack

-----------------------------------------------------------------------------
(* What a frame, and what the library keeps of a type, have at least.      *)
FrameFields == {"do", "of", "rest", "saved", "outer", "asked", "want", "got"}
TypeFields == {"loading", "source", "broken", "done", "imports"}

(* A call of qualifyForeignName or updateLinks is made by another.         *)
Frames(s) ==
  /\ IsStack(s)
  /\ \A k \in 1..Len(s) :
       /\ FrameFields \subseteq DOMAIN s[k]
       /\ s[k].do \in {"qualify", "links"} => k > 1
       /\ s[k].do = "links" => s[k - 1].do = "hrc"

(* A value that the calls of the kinds do change while they run, and put   *)
(* back from what they saved: the first of them found v0.                  *)
Restores(s, do, v, v0) ==
  /\ (\A k \in 1..Len(s) : s[k].do \notin do) => v = v0
  /\ \A k \in 1..Len(s) :
       s[k].do \in do /\ (\A j \in 1..k - 1 : s[j].do \notin do) => s[k].saved = v0

OfType == {"type", "links"}  \* change parseType
OfMode == {"hrc"}            \* change the mode

(* Whatever is marked as being read has a call that reads it.              *)
HalfRead(ts, t) == ts[t].loading /\ ~ts[t].done

Marked(s, ts) ==
  \A t \in DOMAIN ts :
    /\ TypeFields \subseteq DOMAIN ts[t]
    /\ ts[t].source => \E k \in 1..Len(s) : s[k].do = "hrc" /\ s[k].of = t
    /\ HalfRead(ts, t) => \E k \in 1..Len(s) : s[k].do = "type" /\ s[k].of = t

Context(s, pt, m, ts) ==
  Frames(s) /\ Restores(s, OfType, pt, None) /\ Restores(s, OfMode, m, "FULL") /\ Marked(s, ts)

ContextInv == Context(stack, parseType, mode, types)

-----------------------------------------------------------------------------
(* The frames of n are those of s, from the first one on, up to what each  *)
(* call still has to do.                                                   *)
SameCalls(s, n) ==
  /\ IsStack(n) /\ Len(s) \in Nat /\ Len(n) \in Nat /\ Len(n) <= Len(s)
  /\ \A k \in 1..Len(n) :
       /\ FrameFields \subseteq DOMAIN n[k]
       /\ n[k].do = s[k].do /\ n[k].saved = s[k].saved
       /\ n[k].do # "links" => n[k].of = s[k].of

(* All but the innermost.                                                  *)
Returned(s, n) == SameCalls(s, n) /\ Len(s) > 0 /\ Len(n) = Len(s) - 1

(* One more.                                                               *)
Called(s, n, f) ==
  /\ IsStack(n) /\ Len(s) \in Nat /\ Len(n) = Len(s) + 1
  /\ n[Len(n)] = f /\ FrameFields \subseteq DOMAIN f
  /\ \A k \in 1..Len(s) :
       /\ FrameFields \subseteq DOMAIN n[k]
       /\ n[k].do = s[k].do /\ n[k].saved = s[k].saved
       /\ n[k].do # "links" => n[k].of = s[k].of

(* Nothing is marked that was not.                                         *)
NoMoreMarks(ts, us) ==
  \A t \in DOMAIN us :
    /\ TypeFields \subseteq DOMAIN us[t]
    /\ us[t].source => t \in DOMAIN ts /\ ts[t].source
    /\ HalfRead(us, t) => t \in DOMAIN ts /\ HalfRead(ts, t)

LEMMA SameRestores ==
  ASSUME NEW s, NEW n, NEW do, NEW v, NEW v0, Restores(s, do, v, v0), SameCalls(s, n),
         Len(n) = Len(s)
  PROVE  Restores(n, do, v, v0)
  <1>1. Len(n) \in Nat /\ \A k \in 1..Len(n) : n[k].do = s[k].do /\ n[k].saved = s[k].saved
    BY DEF SameCalls
  <1>2. \A k \in 1..Len(n) : \A j \in 1..k - 1 : j \in 1..Len(n)
    BY <1>1
  <1> QED
    BY <1>1, <1>2 DEF Restores

LEMMA ReturnRestores ==
  ASSUME NEW s, NEW n, NEW do, NEW v, NEW v0, Restores(s, do, v, v0), Returned(s, n)
  PROVE  Restores(n, do, IF s[Len(s)].do \in do THEN s[Len(s)].saved ELSE v, v0)
  <1>1. /\ Len(n) \in Nat /\ Len(s) \in Nat /\ Len(n) = Len(s) - 1 /\ Len(s) \in 1..Len(s)
        /\ \A k \in 1..Len(n) : n[k].do = s[k].do /\ n[k].saved = s[k].saved
    BY DEF SameCalls, Returned
  <1>2. \A k \in 1..Len(n) : k \in 1..Len(s) /\ \A j \in 1..k - 1 : j \in 1..Len(n)
    BY <1>1
  <1>3. \A k \in 1..Len(s) : k \in 1..Len(n) \/ k = Len(s)
    BY <1>1
  <1>4. \A k \in 1..Len(n) :
          n[k].do \in do /\ (\A j \in 1..k - 1 : n[j].do \notin do) => n[k].saved = v0
    BY <1>1, <1>2 DEF Restores
  <1>5. ASSUME \A k \in 1..Len(n) : n[k].do \notin do
        PROVE  (IF s[Len(s)].do \in do THEN s[Len(s)].saved ELSE v) = v0
    <2>1. CASE s[Len(s)].do \in do
      <3>1. \A j \in 1..Len(s) - 1 : s[j].do \notin do
        BY <1>1, <1>5
      <3> QED
        BY <1>1, <2>1, <3>1 DEF Restores
    <2>2. CASE s[Len(s)].do \notin do
      <3>1. \A k \in 1..Len(s) : s[k].do \notin do
        BY <1>1, <1>3, <1>5, <2>2
      <3> QED
        BY <2>2, <3>1 DEF Restores
    <2> QED
      BY <2>1, <2>2
  <1> QED
    BY <1>4, <1>5 DEF Restores

(* A call that is made saves what it finds, if it is one that changes it   *)
(* (updateLinks puts back v0, whatever it finds).                          *)
LEMMA CallRestores ==
  ASSUME NEW s, NEW n, NEW f, NEW do, NEW v, NEW w, NEW v0, Restores(s, do, v, v0),
         Called(s, n, f), f.do \in do => f.saved \in {v, v0}, f.do \notin do => w = v
  PROVE  Restores(n, do, w, v0)
  <1>1. /\ Len(n) \in Nat /\ Len(s) \in Nat /\ Len(n) = Len(s) + 1 /\ Len(n) \in 1..Len(n)
        /\ n[Len(n)] = f
        /\ \A k \in 1..Len(s) : n[k].do = s[k].do /\ n[k].saved = s[k].saved
    BY DEF Called
  <1>2. \A k \in 1..Len(s) : k \in 1..Len(n) /\ \A j \in 1..k - 1 : j \in 1..Len(s)
    BY <1>1
  <1>3. \A k \in 1..Len(n) : k \in 1..Len(s) \/ k = Len(n)
    BY <1>1
  <1>4. (\A k \in 1..Len(n) : n[k].do \notin do) => w = v0
    BY <1>1, <1>2 DEF Restores
  <1>5. ASSUME NEW k \in 1..Len(n), n[k].do \in do, \A j \in 1..k - 1 : n[j].do \notin do
        PROVE  n[k].saved = v0
    <2>1. CASE k \in 1..Len(s)
      BY <1>1, <1>2, <1>5, <2>1 DEF Restores
    <2>2. CASE k = Len(n)
      <3>1. \A j \in 1..Len(s) : s[j].do \notin do
        BY <1>1, <1>5, <2>2
      <3> QED
        BY <1>1, <1>5, <2>2, <3>1 DEF Restores
    <2> QED
      BY <1>3, <2>1, <2>2
  <1> QED
    BY <1>4, <1>5 DEF Restores

(* Where a call that changes it runs, it may be anything.                  *)
LEMMA RunningRestores ==
  ASSUME NEW s, NEW do, NEW v, NEW w, NEW v0, Restores(s, do, v, v0),
         \E k \in 1..Len(s) : s[k].do \in do
  PROVE  Restores(s, do, w, v0)
  BY DEF Restores

-----------------------------------------------------------------------------
(* The innermost call goes on.                                             *)
LEMMA GoesOn ==
  ASSUME NEW s, NEW n, NEW pt, NEW m, NEW ts, NEW us, Context(s, pt, m, ts), SameCalls(s, n),
         Len(n) = Len(s), NoMoreMarks(ts, us)
  PROVE  Context(n, pt, m, us)
  <1>1. Frames(n)
    BY DEF Context, Frames, SameCalls
  <1>2. Restores(n, OfType, pt, None) /\ Restores(n, OfMode, m, "FULL")
    BY SameRestores DEF Context
  <1>3. Marked(n, us)
    BY DEF Context, Marked, SameCalls, NoMoreMarks
  <1> QED
    BY <1>1, <1>2, <1>3 DEF Context

(* It returns: parseType and the mode are again what they were before it,  *)
(* and the type it read is marked no more.                                 *)
LEMMA Returns ==
  ASSUME NEW s, NEW n, NEW pt, NEW m, NEW ts, NEW us, Context(s, pt, m, ts), Returned(s, n),
         NoMoreMarks(ts, us),
         \A t \in DOMAIN us :
           /\ s[Len(s)].do = "type" /\ s[Len(s)].of = t => ~HalfRead(us, t)
           /\ s[Len(s)].do = "hrc" /\ s[Len(s)].of = t => ~us[t].source
  PROVE  Context(n, IF s[Len(s)].do \in OfType THEN s[Len(s)].saved ELSE pt,
                    IF s[Len(s)].do \in OfMode THEN s[Len(s)].saved ELSE m, us)
  <1>1. Frames(n)
    BY DEF Context, Frames, SameCalls, Returned
  <1>2. /\ Restores(n, OfType, IF s[Len(s)].do \in OfType THEN s[Len(s)].saved ELSE pt, None)
        /\ Restores(n, OfMode, IF s[Len(s)].do \in OfMode THEN s[Len(s)].saved ELSE m, "FULL")
    BY ReturnRestores DEF Context
  <1>3. \A k \in 1..Len(s) : k \in 1..Len(n) \/ k = Len(s)
    BY DEF Returned, SameCalls
  <1>4. Marked(n, us)
    BY <1>3 DEF Context, Marked, Returned, SameCalls, NoMoreMarks
  <1> QED
    BY <1>1, <1>2, <1>4 DEF Context

(* A call is made.                                                         *)
LEMMA Calls ==
  ASSUME NEW s, NEW n, NEW f, NEW pt, NEW m, NEW ts, NEW pu, NEW mu, NEW us,
         Context(s, pt, m, ts), Called(s, n, f),
         f.do \in {"qualify", "links"} => Len(s) > 0,
         f.do = "links" => s[Len(s)].do = "hrc",
         f.do \in OfType => f.saved \in {pt, None}, f.do \notin OfType => pu = pt,
         f.do \in OfMode => f.saved \in {m, "FULL"}, f.do \notin OfMode => mu = m,
         \A t \in DOMAIN us :
           /\ TypeFields \subseteq DOMAIN us[t]
           /\ us[t].source => (t \in DOMAIN ts /\ ts[t].source) \/ (f.do = "hrc" /\ f.of = t)
           /\ HalfRead(us, t) =>
                (t \in DOMAIN ts /\ HalfRead(ts, t)) \/ (f.do = "type" /\ f.of = t)
  PROVE  Context(n, pu, mu, us)
  <1>1. /\ IsStack(n) /\ Len(s) \in Nat /\ Len(n) = Len(s) + 1 /\ Len(n) \in 1..Len(n)
        /\ n[Len(n)] = f /\ FrameFields \subseteq DOMAIN f
        /\ \A k \in 1..Len(s) :
             /\ FrameFields \subseteq DOMAIN n[k]
             /\ n[k].do = s[k].do /\ n[k].saved = s[k].saved
             /\ n[k].do # "links" => n[k].of = s[k].of
    BY DEF Called
  <1>2. \A k \in 1..Len(n) : k \in 1..Len(s) \/ k = Len(n)
    BY <1>1
  <1>3. Frames(n)
    <2>1. ASSUME NEW k \in 1..Len(s)
          PROVE  /\ FrameFields \subseteq DOMAIN n[k]
                 /\ n[k].do \in {"qualify", "links"} => k > 1
                 /\ n[k].do = "links" => n[k - 1].do = "hrc"
      <3>1. n[k].do \in {"qualify", "links"} => k > 1
        BY <1>1 DEF Context, Frames
      <3>2. n[k].do = "links" => k - 1 \in 1..Len(s) /\ s[k - 1].do = "hrc"
        BY <1>1, <3>1 DEF Context, Frames
      <3> QED
        BY <1>1, <3>1, <3>2
    <2>2. /\ FrameFields \subseteq DOMAIN f
          /\ f.do \in {"qualify", "links"} => Len(n) > 1
          /\ f.do = "links" => n[Len(n) - 1].do = "hrc"
      <3>1. f.do = "links" => Len(s) \in 1..Len(s) /\ Len(n) - 1 = Len(s)
        BY <1>1
      <3> QED
        BY <1>1, <3>1
    <2> QED
      BY <1>1, <1>2, <2>1, <2>2 DEF Frames
  <1>4. Restores(n, OfType, pu, None) /\ Restores(n, OfMode, mu, "FULL")
    BY CallRestores DEF Context
  <1>5. Marked(n, us)
    <2>1. ASSUME NEW t \in DOMAIN us, us[t].source
          PROVE  \E k \in 1..Len(n) : n[k].do = "hrc" /\ n[k].of = t
      <3>1. CASE t \in DOMAIN ts /\ ts[t].source
        <4>1. PICK k \in 1..Len(s) : s[k].do = "hrc" /\ s[k].of = t
          BY <3>1 DEF Context, Marked
        <4>2. k \in 1..Len(n)
          BY <1>1
        <4> QED
          BY <1>1, <4>1, <4>2
      <3>2. CASE f.do = "hrc" /\ f.of = t
        BY <1>1, <3>2
      <3> QED
        BY <2>1, <3>1, <3>2
    <2>2. ASSUME NEW t \in DOMAIN us, HalfRead(us, t)
          PROVE  \E k \in 1..Len(n) : n[k].do = "type" /\ n[k].of = t
      <3>1. CASE t \in DOMAIN ts /\ HalfRead(ts, t)
        <4>1. PICK k \in 1..Len(s) : s[k].do = "type" /\ s[k].of = t
          BY <3>1 DEF Context, Marked
        <4>2. k \in 1..Len(n)
          BY <1>1
        <4> QED
          BY <1>1, <4>1, <4>2
      <3>2. CASE f.do = "type" /\ f.of = t
        BY <1>1, <3>2
      <3> QED
        BY <2>2, <3>1, <3>2
    <2> QED
      BY <2>1, <2>2 DEF Marked
  <1> QED
    BY <1>3, <1>4, <1>5 DEF Context

(* The types and packages of the library stay as they are.                 *)
LEMMA NoMarks ==
  ASSUME NEW s, NEW pt, NEW m, NEW ts, Context(s, pt, m, ts)
  PROVE  NoMoreMarks(ts, ts)
  BY DEF Context, Marked, NoMoreMarks

-----------------------------------------------------------------------------
(* What the steps of the loader do to the stack: put the innermost frame   *)
(* back with what it still has to do, call, return.                        *)
LEMMA FrameHas ==
  ASSUME NEW do, NEW of, NEW rest, NEW saved
  PROVE  /\ FrameFields \subseteq DOMAIN Frame(do, of, rest, saved)
         /\ Frame(do, of, rest, saved).do = do /\ Frame(do, of, rest, saved).of = of
         /\ Frame(do, of, rest, saved).saved = saved
  BY DEF Frame, FrameFields

(* The innermost frame is replaced by one of the same call.                *)
LEMMA SameTop ==
  ASSUME NEW s, NEW pt, NEW m, NEW ts, Context(s, pt, m, ts), s # <<>>, NEW f,
         FrameFields \subseteq DOMAIN f, f.do = Last(s).do, f.saved = Last(s).saved,
         f.do # "links" => f.of = Last(s).of
  PROVE  SameCalls(s, Append(Front(s), f)) /\ Len(Append(Front(s), f)) = Len(s)
  <1>1. IsStack(s) /\ \A k \in 1..Len(s) : FrameFields \subseteq DOMAIN s[k]
    BY DEF Context, Frames
  <1>2. /\ IsStack(Front(s)) /\ Len(s) \in Nat /\ Len(s) > 0 /\ Len(Front(s)) = Len(s) - 1
        /\ \A k \in 1..Len(s) - 1 : Front(s)[k] = s[k]
        /\ Last(s) = s[Len(s)]
    BY <1>1, PoppedStack
  <1> DEFINE n == Append(Front(s), f)
  <1>3. /\ IsStack(n) /\ Len(n) = Len(s)
        /\ \A k \in 1..Len(Front(s)) : n[k] = Front(s)[k]
        /\ n[Len(s)] = f
    BY <1>2, PushedStack
  <1>4. \A k \in 1..Len(s) : k \in 1..Len(Front(s)) \/ k = Len(s)
    BY <1>2
  <1> HIDE DEF n
  <1>5. SameCalls(s, n) /\ Len(n) = Len(s)
    BY <1>1, <1>2, <1>3, <1>4 DEF SameCalls
  <1> QED
    BY <1>5 DEF n

(* It returns.                                                             *)
LEMMA TopReturns ==
  ASSUME NEW s, NEW pt, NEW m, NEW ts, Context(s, pt, m, ts), s # <<>>
  PROVE  Returned(s, Front(s)) /\ s[Len(s)] = Last(s) /\ FrameFields \subseteq DOMAIN Last(s)
  <1>1. IsStack(s) /\ \A k \in 1..Len(s) : FrameFields \subseteq DOMAIN s[k]
    BY DEF Context, Frames
  <1>2. /\ IsStack(Front(s)) /\ Len(s) \in Nat /\ Len(s) > 0 /\ Len(Front(s)) = Len(s) - 1
        /\ \A k \in 1..Len(s) - 1 : Front(s)[k] = s[k]
        /\ Last(s) = s[Len(s)]
    BY <1>1, PoppedStack
  <1> QED
    BY <1>1, <1>2 DEF SameCalls, Returned

(* A call is made from n.                                                  *)
LEMMA CallFrom ==
  ASSUME NEW n, NEW pt, NEW m, NEW ts, Context(n, pt, m, ts), NEW f, FrameFields \subseteq DOMAIN f
  PROVE  Called(n, Append(n, f), f)
  <1>1. IsStack(n) /\ \A k \in 1..Len(n) : FrameFields \subseteq DOMAIN n[k]
    BY DEF Context, Frames
  <1> QED
    BY <1>1, PushedStack DEF Called

(* A frame stays that of its call, whatever it still has to do.            *)
LEMMA SameFrame ==
  ASSUME NEW f, FrameFields \subseteq DOMAIN f
  PROVE  /\ FrameFields \subseteq DOMAIN Advance(f)
         /\ Advance(f).do = f.do /\ Advance(f).of = f.of /\ Advance(f).saved = f.saved
  BY DEF Advance, FrameFields

-----------------------------------------------------------------------------
(* The innermost call goes on, and reads nothing new.                      *)
LEMMA Continues ==
  ASSUME NEW pt, NEW m, NEW ts, NEW us, Context(stack, pt, m, ts), stack # <<>>, NEW f,
         FrameFields \subseteq DOMAIN f, f.do = top.do, f.saved = top.saved,
         f.do # "links" => f.of = top.of,
         NoMoreMarks(ts, us)
  PROVE  Context(Append(below, f), pt, m, us)
  <1>1. SameCalls(stack, Append(below, f)) /\ Len(Append(below, f)) = Len(stack)
    BY SameTop DEF top, below
  <1> QED
    BY <1>1, GoesOn

LEMMA Proceeds ==
  ASSUME NEW pt, NEW m, NEW ts, NEW us, Context(stack, pt, m, ts), stack # <<>>,
         NoMoreMarks(ts, us)
  PROVE  Context(Append(below, Advance(top)), pt, m, us)
  <1>1. FrameFields \subseteq DOMAIN top
    BY TopReturns DEF top
  <1> QED
    BY <1>1, SameFrame, Continues

(* It is left.                                                             *)
LEMMA Leaves ==
  ASSUME NEW pt, NEW m, NEW ts, NEW us, Context(stack, pt, m, ts), stack # <<>>,
         NoMoreMarks(ts, us),
         \A t \in DOMAIN us : /\ top.do = "type" /\ top.of = t => ~HalfRead(us, t)
                              /\ top.do = "hrc" /\ top.of = t => ~us[t].source
  PROVE  Context(below, IF top.do \in OfType THEN top.saved ELSE pt,
                        IF top.do \in OfMode THEN top.saved ELSE m, us)
  <1>1. Returned(stack, below) /\ stack[Len(stack)] = top
    BY TopReturns DEF top, below
  <1> QED
    BY <1>1, Returns

(* loadSource, called with n on the stack, reads a file.                   *)
LEMMA ReadsSource ==
  ASSUME NEW n, Context(n, parseType, mode, types), NEW owner, NEW file, NEW m,
         ParseHRC(owner, file, m, n), parseType' = parseType,
         \A t \in DOMAIN types' :
           /\ TypeFields \subseteq DOMAIN types'[t]
           /\ types'[t].source => (t \in DOMAIN types /\ types[t].source) \/ owner = t
           /\ HalfRead(types', t) => t \in DOMAIN types /\ HalfRead(types, t)
  PROVE  ContextInv'
  <1> DEFINE f == [Frame("hrc", owner, lib.files[file], mode) EXCEPT !.outer = ~updateStarted]
  <1>1. FrameFields \subseteq DOMAIN f /\ f.do = "hrc" /\ f.of = owner /\ f.saved = mode
    BY DEF Frame, FrameFields
  <1>2. stack' = Append(n, f)
    BY DEF ParseHRC
  <1> HIDE DEF f
  <1>3. Called(n, stack', f)
    BY <1>1, <1>2, CallFrom
  <1>4. "hrc" \notin OfType /\ "hrc" \in OfMode
    BY DEF OfType, OfMode
  <1> QED
    BY <1>1, <1>3, <1>4, Calls DEF ContextInv

(* loadFileType.                                                           *)
LEMMA LoadsType ==
  ASSUME NEW n, Context(n, parseType, mode, types), NEW t \in DOMAIN types, LoadFileType(t, n),
         parseType' = parseType
  PROVE  ContextInv'
  <1>1. \A u \in DOMAIN types : TypeFields \subseteq DOMAIN types[u]
    BY DEF Context, Marked
  <1>2. ASSUME NEW us, DOMAIN us = DOMAIN types,
               \A u \in DOMAIN types :
                 /\ TypeFields \subseteq DOMAIN us[u]
                 /\ us[u].loading = types[u].loading /\ us[u].done = types[u].done
                 /\ us[u].source => types[u].source
        PROVE  Context(n, parseType, mode, us)
    <2>1. NoMoreMarks(types, us)
      BY <1>2 DEF NoMoreMarks, HalfRead
    <2>2. SameCalls(n, n)
      <3>1. PICK S : n \in Seq(S)
        BY DEF Context, Frames, IsStack
      <3> QED
        BY <3>1 DEF Context, Frames, SameCalls
    <2> QED
      BY <2>1, <2>2, GoesOn
  <1>3. CASE stack' = n /\ UNCHANGED <<types, mode>>
    BY <1>3 DEF ContextInv
  <1>4. CASE types' = [types EXCEPT ![t].broken = TRUE] /\ stack' = n /\ mode' = mode
    <2>1. \A u \in DOMAIN types :
            /\ TypeFields \subseteq DOMAIN types'[u]
            /\ types'[u].loading = types[u].loading /\ types'[u].done = types[u].done
            /\ types'[u].source = types[u].source
      BY <1>1, <1>4 DEF TypeFields
    <2>2. DOMAIN types' = DOMAIN types
      BY <1>4
    <2> QED
      BY <1>2, <1>4, <2>1, <2>2 DEF ContextInv
  <1>5. CASE /\ types' = [types EXCEPT ![t].source = TRUE]
             /\ ParseHRC(t, types[t].file, "TYPE", n)
    <2>1. \A u \in DOMAIN types' :
            /\ u \in DOMAIN types /\ TypeFields \subseteq DOMAIN types'[u]
            /\ types'[u].loading = types[u].loading /\ types'[u].done = types[u].done
            /\ types'[u].source => types[u].source \/ t = u
      BY <1>1, <1>5 DEF TypeFields
    <2> QED
      BY <1>5, <2>1, ReadsSource DEF HalfRead
  <1> QED
    BY <1>3, <1>4, <1>5 DEF LoadFileType

-----------------------------------------------------------------------------
(* Each step of the loader keeps the context.                              *)
LEMMA AddPrototypeKeeps == ASSUME ContextInv, AddPrototype PROVE ContextInv'
  <1> DEFINE elem == Head(top.rest)
             kept == DOMAIN types \ {elem.type}
  <1>1. /\ stack # <<>> /\ top.do = "hrc" /\ Context(stack, parseType, mode, types)
        /\ parseType' = parseType /\ NoMoreMarks(types, types)
        /\ \A t \in DOMAIN types : TypeFields \subseteq DOMAIN types[t]
    BY NoMarks DEF AddPrototype, Running, ContextInv, Context, Marked
  <1>2. CASE stack' = Append(below, Advance(top)) /\ UNCHANGED <<types, mode>>
    BY <1>1, <1>2, Proceeds DEF ContextInv
  <1>3. CASE Throw([t \in kept |-> types[t]])
    <2>1. /\ DOMAIN types' = kept /\ kept \subseteq DOMAIN types
          /\ \A t \in kept : /\ TypeFields \subseteq DOMAIN types'[t]
                             /\ types'[t].loading = types[t].loading
                             /\ types'[t].done = types[t].done
                             /\ types'[t].source => types[t].source
                             /\ t = top.of => ~types'[t].source
      BY <1>1, <1>3 DEF Throw, Closed, TypeFields
    <2>2. NoMoreMarks(types, types')
      BY <2>1 DEF NoMoreMarks, HalfRead
    <2>3. stack' = below /\ mode' = top.saved /\ "hrc" \notin OfType /\ "hrc" \in OfMode
      BY <1>3 DEF Throw, OfType, OfMode
    <2> QED
      BY <1>1, <2>1, <2>2, <2>3, Leaves DEF ContextInv
  <1>4. CASE /\ types' = [t \in kept \cup {elem.type} |->
                            IF t = elem.type THEN NewType(elem.file) ELSE types[t]]
             /\ stack' = Append(below, Advance(top)) /\ UNCHANGED mode
    <2>1. NoMoreMarks(types, types')
      BY <1>1, <1>4 DEF NoMoreMarks, HalfRead, NewType, TypeFields
    <2> QED
      BY <1>1, <1>4, <2>1, Proceeds DEF ContextInv
  <1> QED
    BY <1>2, <1>3, <1>4 DEF AddPrototype

LEMMA AddTypeKeeps == ASSUME ContextInv, AddType PROVE ContextInv'
  <1> DEFINE t == Head(top.rest).type
             next == Append(below, Advance(top))
  <1>1. /\ stack # <<>> /\ Context(stack, parseType, mode, types) /\ mode' = mode
        /\ \A u \in DOMAIN types : TypeFields \subseteq DOMAIN types[u]
    BY DEF AddType, Running, ContextInv, Context, Marked
  <1>2. Context(next, parseType, mode, types)
    BY <1>1, NoMarks, Proceeds
  <1>3. CASE stack' = next /\ UNCHANGED <<types, parseType>>
    BY <1>1, <1>2, <1>3 DEF ContextInv
  <1>4. CASE /\ types' = [types EXCEPT ![t].loading = TRUE]
             /\ stack' = Append(next, Frame("type", t, Head(top.rest).items, parseType))
             /\ parseType' = t
    <2> DEFINE f == Frame("type", t, Head(top.rest).items, parseType)
    <2>1. /\ FrameFields \subseteq DOMAIN f /\ f.do = "type" /\ f.of = t /\ f.saved = parseType
          /\ "type" \notin OfMode /\ "type" \in OfType
      BY FrameHas DEF OfMode, OfType
    <2>2. \A u \in DOMAIN types' :
            /\ u \in DOMAIN types /\ TypeFields \subseteq DOMAIN types'[u]
            /\ types'[u].source = types[u].source
            /\ HalfRead(types', u) => HalfRead(types, u) \/ t = u
      BY <1>1, <1>4 DEF TypeFields, HalfRead
    <2>3. stack' = Append(next, f)
      BY <1>4
    <2> HIDE DEF f, t, next
    <2>4. Called(next, stack', f)
      BY <1>2, <2>1, <2>3, CallFrom
    <2> QED
      BY <1>1, <1>2, <2>1, <2>2, <2>4, Calls DEF ContextInv
  <1> QED
    BY <1>3, <1>4 DEF AddType

LEMMA EndTypeKeeps == ASSUME ContextInv, EndType PROVE ContextInv'
  <1>1. /\ stack # <<>> /\ top.do = "type" /\ Context(stack, parseType, mode, types)
        /\ mode' = mode /\ parseType' = top.saved /\ stack' = below
        /\ \A u \in DOMAIN types : TypeFields \subseteq DOMAIN types[u]
    BY DEF EndType, Running, ContextInv, Context, Marked
  <1>2. \A u \in DOMAIN types' :
          /\ u \in DOMAIN types /\ TypeFields \subseteq DOMAIN types'[u]
          /\ types'[u].source = types[u].source
          /\ HalfRead(types', u) => HalfRead(types, u) /\ u # top.of
    BY <1>1 DEF EndType, TypeFields, HalfRead
  <1>3. NoMoreMarks(types, types')
    BY <1>2 DEF NoMoreMarks
  <1>4. "type" \notin OfMode /\ "type" \in OfType
    BY DEF OfMode, OfType
  <1> QED
    BY <1>1, <1>2, <1>3, <1>4, Leaves DEF ContextInv

(* loadFileType takes its marks away.                                      *)
LEMMA ClosedMarks ==
  ASSUME NEW owner, NEW failed, NEW ts, \A u \in DOMAIN ts : TypeFields \subseteq DOMAIN ts[u]
  PROVE  /\ NoMoreMarks(ts, Closed(owner, failed, ts))
         /\ \A t \in DOMAIN Closed(owner, failed, ts) :
              owner = t => ~Closed(owner, failed, ts)[t].source
  <1>1. /\ DOMAIN Closed(owner, failed, ts) = DOMAIN ts
        /\ \A u \in DOMAIN ts :
             /\ TypeFields \subseteq DOMAIN Closed(owner, failed, ts)[u]
             /\ Closed(owner, failed, ts)[u].loading = ts[u].loading
             /\ Closed(owner, failed, ts)[u].done = ts[u].done
             /\ Closed(owner, failed, ts)[u].source => ts[u].source
             /\ owner = u => ~Closed(owner, failed, ts)[u].source
    BY DEF Closed, TypeFields
  <1> QED
    BY <1>1 DEF NoMoreMarks, HalfRead

LEMMA EndHRCKeeps == ASSUME ContextInv, EndHRC PROVE ContextInv'
  <1>1. /\ stack # <<>> /\ top.do = "hrc" /\ Context(stack, parseType, mode, types)
        /\ parseType' = parseType
        /\ \A u \in DOMAIN types : TypeFields \subseteq DOMAIN types[u]
    BY DEF EndHRC, Running, ContextInv, Context, Marked
  <1>2. CASE stack' = Append(stack, Frame("links", {}, <<>>, None)) /\ UNCHANGED <<types, mode>>
    <2> DEFINE f == Frame("links", {}, <<>>, None)
    <2>1. /\ FrameFields \subseteq DOMAIN f /\ f.do = "links" /\ f.saved = None
          /\ "links" \notin OfMode /\ "links" \in OfType
      BY FrameHas DEF OfMode, OfType
    <2>2. Called(stack, stack', f)
      BY <1>1, <1>2, <2>1, CallFrom
    <2>3. Len(stack) > 0 /\ stack[Len(stack)].do = "hrc"
      BY <1>1, TopReturns DEF top, Returned
    <2> HIDE DEF f
    <2> QED
      BY <1>1, <1>2, <2>1, <2>2, <2>3, Calls DEF ContextInv
  <1>3. CASE stack' = below /\ mode' = top.saved /\ types' = Closed(top.of, FALSE, types)
    <2>1. /\ NoMoreMarks(types, types')
          /\ \A t \in DOMAIN types' : top.of = t => ~types'[t].source
      BY <1>1, <1>3, ClosedMarks
    <2>2. "hrc" \notin OfType /\ "hrc" \in OfMode
      BY DEF OfType, OfMode
    <2> QED
      BY <1>1, <1>3, <2>1, <2>2, Leaves DEF ContextInv
  <1> QED
    BY <1>2, <1>3 DEF EndHRC

LEMMA QualifyKeeps == ASSUME ContextInv, Qualify PROVE ContextInv'
  <1> DEFINE f == Frame("qualify", Head(top.want), Candidates(parseType, Head(top.want)), None)
  <1>1. /\ stack # <<>> /\ Context(stack, parseType, mode, types) /\ stack' = Append(stack, f)
        /\ UNCHANGED <<types, parseType, mode>>
        /\ \A u \in DOMAIN types : TypeFields \subseteq DOMAIN types[u]
    BY DEF Qualify, ContextInv, library, Context, Marked
  <1>2. /\ FrameFields \subseteq DOMAIN f /\ f.do = "qualify"
        /\ "qualify" \notin OfMode /\ "qualify" \notin OfType
    BY FrameHas DEF OfMode, OfType
  <1> HIDE DEF f
  <1>3. Called(stack, stack', f)
    BY <1>1, <1>2, CallFrom
  <1>4. Len(stack) > 0
    BY <1>1, TopReturns DEF Returned
  <1> QED
    BY <1>1, <1>2, <1>3, <1>4, Calls DEF ContextInv

(* The answer of qualifyForeignName goes to the call that asked.           *)
LEMMA AnswerKeeps ==
  ASSUME ContextInv, Running("qualify"), NEW result, Answer(result),
         UNCHANGED <<types, parseType, mode>>
  PROVE  ContextInv'
  <1>1. /\ stack # <<>> /\ top.do = "qualify" /\ Context(stack, parseType, mode, types)
        /\ "qualify" \notin OfMode /\ "qualify" \notin OfType
    BY DEF Running, ContextInv, OfMode, OfType
  <1>2. Context(below, parseType, mode, types)
    BY <1>1, NoMarks, Leaves
  <1>3. below # <<>>
    <2>1. /\ IsStack(stack) /\ Len(stack) \in Nat /\ Len(stack) > 0
          /\ stack[Len(stack)].do = "qualify"
      BY <1>1, TopReturns DEF Context, Frames, Returned, SameCalls, top
    <2>2. Len(stack) > 1
      BY <1>1, <2>1 DEF Context, Frames
    <2> QED
      BY <1>1, <2>1, <2>2, PoppedStack DEF below
  <1> DEFINE f == [Last(below) EXCEPT !.want = Tail(@), !.got = Append(@, result)]
  <1>4. FrameFields \subseteq DOMAIN Last(below)
    BY <1>2, <1>3, TopReturns
  <1>5. /\ FrameFields \subseteq DOMAIN f /\ f.do = Last(below).do /\ f.of = Last(below).of
        /\ f.saved = Last(below).saved
    BY <1>4 DEF FrameFields
  <1>6. stack' = Append(Front(below), f)
    BY DEF Answer
  <1> HIDE DEF f
  <1>7. SameCalls(below, stack') /\ Len(stack') = Len(below)
    BY <1>2, <1>3, <1>5, <1>6, SameTop
  <1> QED
    BY <1>2, <1>7, NoMarks, GoesOn DEF ContextInv

LEMMA LookInKeeps == ASSUME ContextInv, LookIn PROVE ContextInv'
  <1> DEFINE t == Head(top.rest)
             f == [top EXCEPT !.asked = TRUE]
  <1>1. /\ stack # <<>> /\ Context(stack, parseType, mode, types) /\ parseType' = parseType
        /\ t \in DOMAIN types /\ Running("qualify")
    BY DEF LookIn, Running, ContextInv
  <1>2. FrameFields \subseteq DOMAIN top
    BY <1>1, TopReturns DEF top
  <1>3. CASE LoadFileType(t, Append(below, f))
    <2>1. /\ FrameFields \subseteq DOMAIN f /\ f.do = top.do /\ f.of = top.of
          /\ f.saved = top.saved
      BY <1>2 DEF FrameFields
    <2> HIDE DEF f
    <2>2. Context(Append(below, f), parseType, mode, types)
      BY <1>1, <2>1, NoMarks, Continues
    <2> HIDE DEF t
    <2> QED
      BY <1>1, <1>3, <2>2, LoadsType
  <1>4. ASSUME NEW result, Answer(result), UNCHANGED <<types, mode>> PROVE ContextInv'
    BY <1>1, <1>4, AnswerKeeps
  <1>5. CASE stack' = Append(below, Advance(top)) /\ UNCHANGED <<types, mode>>
    BY <1>1, <1>5, NoMarks, Proceeds DEF ContextInv
  <1> QED
    BY <1>3, <1>4, <1>5 DEF LookIn

LEMMA NotFoundKeeps == ASSUME ContextInv, NotFound PROVE ContextInv'
  <1>1. /\ stack # <<>> /\ Context(stack, parseType, mode, types) /\ Running("qualify")
        /\ UNCHANGED <<types, parseType, mode>>
    BY DEF NotFound, Running, ContextInv, library
  <1>2. CASE Answer(None)
    BY <1>1, <1>2, AnswerKeeps
  <1>3. CASE stack' = Append(below, Advance(top))
    BY <1>1, <1>3, NoMarks, Proceeds DEF ContextInv
  <1> QED
    BY <1>2, <1>3 DEF NotFound

LEMMA AsksKeeps == ASSUME ContextInv, Asks \/ AskLink \/ NextPass PROVE ContextInv'
  <1>1. /\ stack # <<>> /\ Context(stack, parseType, mode, types)
        /\ UNCHANGED <<types, parseType, mode>>
    BY DEF Asks, AskLink, NextPass, Running, ContextInv, library
  <1>2. FrameFields \subseteq DOMAIN top
    BY <1>1, TopReturns DEF top
  <1>3. \E f : /\ stack' = Append(below, f) /\ FrameFields \subseteq DOMAIN f
               /\ f.do = top.do /\ f.saved = top.saved
               /\ f.do # "links" => f.of = top.of
    <2>1. CASE Asks
      <3> DEFINE f == [top EXCEPT !.asked = TRUE, !.want = Early(Head(top.rest))]
      <3>1. /\ FrameFields \subseteq DOMAIN f /\ f.do = top.do /\ f.of = top.of
            /\ f.saved = top.saved
        BY <1>2 DEF FrameFields
      <3>2. stack' = Append(below, f)
        BY <2>1 DEF Asks
      <3> QED
        BY <3>1, <3>2
    <2>2. CASE AskLink
      <3> DEFINE f == [top EXCEPT !.asked = TRUE, !.want = <<LinkAt(Head(top.rest)).name>>]
      <3>1. /\ FrameFields \subseteq DOMAIN f /\ f.do = top.do /\ f.of = top.of
            /\ f.saved = top.saved
        BY <1>2 DEF FrameFields
      <3>2. stack' = Append(below, f)
        BY <2>2 DEF AskLink
      <3> QED
        BY <3>1, <3>2
    <2>3. CASE NextPass
      <3> DEFINE f == [top EXCEPT !.of = DOMAIN schemes]
      <3>1. FrameFields \subseteq DOMAIN f /\ f.do = top.do /\ f.saved = top.saved
        BY <1>2 DEF FrameFields
      <3>2. stack' = Append(below, f) /\ top.do = "links"
        BY <2>3 DEF NextPass, Running
      <3> QED
        BY <3>1, <3>2
    <2> QED
      BY <2>1, <2>2, <2>3
  <1>4. PICK f : /\ stack' = Append(below, f) /\ FrameFields \subseteq DOMAIN f
                 /\ f.do = top.do /\ f.saved = top.saved
                 /\ f.do # "links" => f.of = top.of
    BY <1>3
  <1>5. Context(Append(below, f), parseType, mode, types)
    <2>1. NoMoreMarks(types, types)
      BY <1>1, NoMarks
    <2> QED
      BY <1>1, <1>4, <2>1, Continues
  <1> QED
    BY <1>1, <1>4, <1>5 DEF ContextInv

LEMMA AddItemKeeps == ASSUME ContextInv, AddItem PROVE ContextInv'
  <1> DEFINE elem == Head(top.rest)
             key == QualifyOwnName(top.of, elem.name)
             next == Append(below, Advance(top))
             f == Frame("scheme", key, elem.nodes, None)
  <1>1. /\ stack # <<>> /\ Context(stack, parseType, mode, types)
        /\ UNCHANGED <<parseType, mode>>
        /\ \A u \in DOMAIN types : TypeFields \subseteq DOMAIN types[u]
    BY DEF AddItem, Running, ContextInv, Context, Marked
  <1>2. Context(next, parseType, mode, types)
    BY <1>1, NoMarks, Proceeds
  <1>3. CASE stack' = next /\ types' = types
    BY <1>1, <1>2, <1>3 DEF ContextInv
  <1>4. CASE stack' = next /\ types' = [types EXCEPT ![top.of].imports = Append(@, elem.name)]
    <2>1. NoMoreMarks(types, types')
      BY <1>1, <1>4 DEF NoMoreMarks, HalfRead, TypeFields
    <2> QED
      BY <1>1, <1>4, <2>1, Proceeds DEF ContextInv
  <1>5. CASE stack' = Append(next, f) /\ types' = types
    <2>1. /\ FrameFields \subseteq DOMAIN f /\ f.do = "scheme"
          /\ "scheme" \notin OfMode /\ "scheme" \notin OfType
      BY FrameHas DEF OfMode, OfType
    <2> HIDE DEF f, next
    <2>2. Called(next, stack', f)
      BY <1>2, <1>5, <2>1, CallFrom
    <2> QED
      BY <1>1, <1>2, <1>5, <2>1, <2>2, Calls DEF ContextInv
  <1> QED
    BY <1>3, <1>4, <1>5 DEF AddItem

LEMMA AddNodeKeeps ==
  ASSUME ContextInv, AddNode \/ PassLink \/ UpdateSchemeLink
  PROVE  ContextInv'
  <1>1. /\ stack # <<>> /\ Context(stack, parseType, mode, types)
        /\ UNCHANGED <<types, parseType, mode>> /\ stack' = Append(below, Advance(top))
    BY Zenon DEF AddNode, PassLink, UpdateSchemeLink, Running, ContextInv, library
  <1> QED
    BY <1>1, NoMarks, Proceeds DEF ContextInv

LEMMA EndSchemeKeeps == ASSUME ContextInv, EndScheme \/ EndLookup PROVE ContextInv'
  <1>1. /\ stack # <<>> /\ Context(stack, parseType, mode, types)
        /\ UNCHANGED <<types, parseType, mode>> /\ stack' = below
        /\ top.do \in {"scheme", "lookup"}
    BY DEF EndScheme, EndLookup, Running, ContextInv, library
  <1>2. top.do \notin OfMode /\ top.do \notin OfType /\ top.do # "type" /\ top.do # "hrc"
    BY <1>1 DEF OfMode, OfType
  <1>3. Context(below, parseType, mode, types)
    BY <1>1, <1>2, NoMarks, Leaves
  <1> QED
    BY <1>1, <1>3 DEF ContextInv

(* updateLinks may have parseType say what it likes until it returns.      *)
LEMMA LinksMayChange ==
  ASSUME NEW s, NEW pt, NEW pu, NEW m, NEW ts, Context(s, pt, m, ts), s # <<>>,
         Last(s).do = "links"
  PROVE  Context(s, pu, m, ts)
  <1>1. s[Len(s)].do = "links" /\ Len(s) \in 1..Len(s)
    BY TopReturns DEF Returned, SameCalls
  <1>2. \E k \in 1..Len(s) : s[k].do \in OfType
    BY <1>1 DEF OfType
  <1> QED
    BY <1>2, RunningRestores DEF Context

LEMMA VisitSchemeKeeps == ASSUME ContextInv, VisitScheme PROVE ContextInv'
  <1>1. /\ stack # <<>> /\ top.do = "links" /\ Context(stack, parseType, mode, types)
        /\ UNCHANGED <<types, mode>>
    BY DEF VisitScheme, Running, ContextInv, library
  <1>2. FrameFields \subseteq DOMAIN top
    BY <1>1, TopReturns DEF top
  <1>3. Context(stack, parseType', mode, types)
    BY <1>1, LinksMayChange DEF top
  <1>4. \E f : /\ stack' = Append(below, f) /\ FrameFields \subseteq DOMAIN f
               /\ f.do = top.do /\ f.saved = top.saved
    <2>1. PICK key \in top.of :
            \/ stack' = Append(below, [[top EXCEPT !.of = @ \ {key}] EXCEPT !.rest = Places(key)])
            \/ stack' = Append(below, [top EXCEPT !.of = @ \ {key}])
      BY Zenon DEF VisitScheme
    <2> DEFINE g == [top EXCEPT !.of = @ \ {key}]
               h == [g EXCEPT !.rest = Places(key)]
    <2>2. FrameFields \subseteq DOMAIN g /\ g.do = top.do /\ g.saved = top.saved
      BY <1>2 DEF FrameFields
    <2>3. FrameFields \subseteq DOMAIN h /\ h.do = top.do /\ h.saved = top.saved
      <3> HIDE DEF g
      <3> QED
        BY <2>2 DEF FrameFields
    <2> QED
      BY <2>1, <2>2, <2>3
  <1> QED
    BY <1>1, <1>3, <1>4, NoMarks, Continues DEF ContextInv

LEMMA EndVisitKeeps == ASSUME ContextInv, EndVisit PROVE ContextInv'
  <1>1. /\ stack # <<>> /\ top.do = "links" /\ Context(stack, parseType, mode, types)
        /\ UNCHANGED <<types, mode, stack>>
    BY DEF EndVisit, Running, ContextInv, library
  <1> QED
    BY <1>1, LinksMayChange DEF ContextInv, top

LEMMA EndLinksKeeps == ASSUME ContextInv, EndLinks PROVE ContextInv'
  <1> DEFINE hrc == Last(below)
  <1>1. /\ stack # <<>> /\ top.do = "links" /\ Context(stack, parseType, mode, types)
        /\ parseType' = parseType /\ parseType = top.saved
        /\ stack' = Front(below) /\ mode' = hrc.saved /\ types' = Closed(hrc.of, FALSE, types)
        /\ "links" \notin OfMode /\ "links" \in OfType /\ "hrc" \notin OfType /\ "hrc" \in OfMode
    BY DEF EndLinks, Running, ContextInv, OfMode, OfType
  <1>2. Context(below, parseType, mode, types)
    <2>1. NoMoreMarks(types, types)
      BY <1>1, NoMarks
    <2> QED
      BY <1>1, <2>1, Leaves
  <1>3. below # <<>> /\ hrc.do = "hrc"
    <2>1. /\ IsStack(stack) /\ Len(stack) \in Nat /\ Len(stack) > 0
          /\ stack[Len(stack)].do = "links"
      BY <1>1, TopReturns DEF Context, Frames, Returned, SameCalls, top
    <2>2. Len(stack) > 1 /\ stack[Len(stack) - 1].do = "hrc"
      BY <1>1, <2>1 DEF Context, Frames
    <2>3. /\ IsStack(below) /\ Len(below) = Len(stack) - 1 /\ below # <<>>
          /\ below[Len(stack) - 1] = stack[Len(stack) - 1]
      BY <2>1, <2>2, PoppedStack DEF below
    <2>4. hrc = below[Len(below)]
      BY <2>3, PoppedStack
    <2> QED
      BY <2>2, <2>3, <2>4
  <1>4. /\ Returned(below, Front(below)) /\ below[Len(below)] = hrc
    BY <1>2, <1>3, TopReturns
  <1>5. \A u \in DOMAIN types : TypeFields \subseteq DOMAIN types[u]
    BY <1>1 DEF Context, Marked
  <1>6. /\ NoMoreMarks(types, types')
        /\ \A t \in DOMAIN types' : hrc.of = t => ~types'[t].source
    BY <1>1, <1>5, ClosedMarks
  <1> HIDE DEF hrc
  <1>7. below[Len(below)].do \in OfMode /\ below[Len(below)].do \notin OfType
        /\ below[Len(below)].do # "type" /\ below[Len(below)].saved = hrc.saved
        /\ below[Len(below)].of = hrc.of
    BY <1>1, <1>3, <1>4
  <1>8. Context(Front(below), parseType, hrc.saved, types')
    BY <1>2, <1>4, <1>6, <1>7, Returns
  <1> QED
    BY <1>1, <1>8 DEF ContextInv

LEMMA StepKeeps == ASSUME ContextInv, Step PROVE ContextInv'
  BY AddPrototypeKeeps, AddTypeKeeps, EndTypeKeeps, EndHRCKeeps, QualifyKeeps, LookInKeeps,
     NotFoundKeeps, AsksKeeps, AddItemKeeps, AddNodeKeeps, EndSchemeKeeps, VisitSchemeKeeps,
     EndVisitKeeps, EndLinksKeeps DEF Step

-----------------------------------------------------------------------------
(* A call of the host or of a session begins with an empty stack.          *)
LEMMA FreshCalls ==
  ASSUME ContextInv, stack = <<>>
  PROVE  Context(<<>>, parseType, mode, types)
  BY DEF ContextInv

(* Who has the lock loads alone.                                           *)
LockInv == stack # <<>> => writer # None /\ readers = {}

LEMMA InitContext == Init => ContextInv /\ LockInv
  <1> SUFFICES ASSUME Init PROVE ContextInv /\ LockInv
    OBVIOUS
  <1>1. stack = <<>> /\ parseType = None /\ mode = "FULL" /\ DOMAIN types = {}
    BY DEF Init
  <1>2. IsStack(<<>>) /\ Len(<<>>) = 0
    BY DEF IsStack
  <1> QED
    BY <1>1, <1>2 DEF ContextInv, LockInv, Context, Frames, Restores, Marked

LEMMA NextContext ==
  ASSUME ContextInv, LockInv, [Next]_vars
  PROVE  ContextInv'
  <1>1. CASE LoadProtoTypes
    <2>1. stack = <<>>
      BY <1>1 DEF LoadProtoTypes, Exclusive, LockInv
    <2>2. Context(<<>>, parseType, mode, types) /\ UNCHANGED <<parseType, types>>
      BY <1>1, <2>1, FreshCalls DEF LoadProtoTypes, library
    <2>3. CASE UNCHANGED <<stack, mode>>
      BY <2>2, <2>3 DEF ContextInv
    <2>4. CASE ParseHRC(None, Head(catalog), "PROTOTYPE", <<>>)
      BY <2>2, <2>4, ReadsSource DEF Context, Marked
    <2> QED
      BY <1>1, <2>3, <2>4 DEF LoadProtoTypes
  <1>2. CASE Load
    BY <1>2, StepKeeps DEF Load
  <1>3. ASSUME NEW t \in Types, OpenFile(t) PROVE ContextInv'
    <2>1. stack = <<>>
      BY <1>3 DEF OpenFile, Exclusive, LockInv
    <2>2. Context(<<>>, parseType, mode, types) /\ parseType' = parseType
      BY <1>3, <2>1, FreshCalls DEF OpenFile
    <2> QED
      BY <1>3, <2>2, LoadsType DEF OpenFile
  <1>4. ASSUME NEW s \in Sessions, ResolveRegions(s) PROVE ContextInv'
    <2> DEFINE f == [Frame("lookup", s, <<>>, None) EXCEPT !.want = <<Wanted>>]
    <2>1. stack = <<>>
      BY <1>4 DEF ResolveRegions, Exclusive, LockInv
    <2>2. /\ Context(<<>>, parseType, mode, types) /\ UNCHANGED <<types, parseType, mode>>
          /\ stack' = <<f>> /\ \A u \in DOMAIN types : TypeFields \subseteq DOMAIN types[u]
      BY <1>4, <2>1, FreshCalls DEF ResolveRegions, library, Context, Marked
    <2>3. /\ FrameFields \subseteq DOMAIN f /\ f.do = "lookup"
          /\ "lookup" \notin OfMode /\ "lookup" \notin OfType
      BY DEF Frame, FrameFields, OfMode, OfType
    <2> HIDE DEF f
    <2>4. Called(<<>>, Append(<<>>, f), f)
      BY <2>2, <2>3, CallFrom
    <2>5. Append(<<>>, f) = <<f>>
      OBVIOUS
    <2>6. NoMoreMarks(types, types)
      BY <2>2, NoMarks
    <2> QED
      BY <2>2, <2>3, <2>4, <2>5, <2>6, Calls DEF ContextInv, NoMoreMarks
  <1>5. CASE UNCHANGED <<stack, parseType, mode, types>>
    BY <1>5 DEF ContextInv
  <1>6. ASSUME \/ Return \/ UNCHANGED vars
               \/ \E s \in Sessions : ParseLine(s) \/ BeginParse(s) \/ EndParse(s)
        PROVE  UNCHANGED <<stack, parseType, mode, types>>
    BY <1>6 DEF Return, ParseLine, BeginParse, EndParse, vars, library, loader
  <1> QED
    BY <1>1, <1>2, <1>3, <1>4, <1>5, <1>6 DEF Next

LEMMA NextLock ==
  ASSUME LockInv, [Next]_vars
  PROVE  LockInv'
  <1>1. CASE Load
    BY <1>1 DEF Load, LockInv, sessions
  <1>2. CASE LoadProtoTypes
    BY <1>2, HrcAssumption DEF LoadProtoTypes, Exclusive, LockInv, sessions
  <1>3. ASSUME NEW t \in Types, OpenFile(t) PROVE LockInv'
    BY <1>3, HrcAssumption DEF OpenFile, Exclusive, LockInv, sessions
  <1>4. ASSUME NEW s \in Sessions, ResolveRegions(s) PROVE LockInv'
    BY <1>4, HrcAssumption DEF ResolveRegions, Exclusive, LockInv, sessions
  <1>5. CASE Return
    BY <1>5 DEF Return, LockInv, loader
  <1>6. ASSUME NEW s \in Sessions, ParseLine(s) \/ BeginParse(s) \/ EndParse(s) PROVE LockInv'
    BY <1>6 DEF ParseLine, BeginParse, EndParse, LockInv, loader
  <1>7. CASE UNCHANGED vars
    BY <1>7 DEF vars, LockInv, loader, sessions
  <1> QED
    BY <1>1, <1>2, <1>3, <1>4, <1>5, <1>6, <1>7 DEF Next

-----------------------------------------------------------------------------
(* Between two calls nothing is half loaded: parseType and the mode are    *)
(* what they were at first, no type is marked as being read, whatever      *)
(* loads were nested in each other and whichever of them were left by an   *)
(* exception.                                                              *)
THEOREM ContextIsRestored == Spec => []ContextRestored
  <1>1. ContextInv => ContextRestored
    <2> SUFFICES ASSUME ContextInv, stack = <<>>
        PROVE  /\ parseType = None /\ mode = "FULL"
               /\ \A t \in DOMAIN types : ~types[t].source /\ (types[t].loading => types[t].done)
      BY DEF ContextRestored
    <2>1. Len(stack) = 0
      OBVIOUS
    <2> QED
      BY <2>1 DEF ContextInv, Context, Restores, Marked, HalfRead
  <1>2. ContextInv /\ LockInv /\ [Next]_vars => (ContextInv /\ LockInv)'
    BY NextContext, NextLock
  <1> QED
    BY <1>1, <1>2, InitContext, PTL DEF Spec

-----------------------------------------------------------------------------
(* The shape of the stack while types are loaded: who may call whom.       *)
CallKinds == {"lookup", "hrc", "type", "scheme", "qualify", "links"}

(* Only a call that has asked for a name still wants one.                  *)
FrameShape(f) ==
  /\ FrameFields \subseteq DOMAIN f /\ f.do \in CallKinds
  /\ f.do = "links" => f.saved = None
  /\ f.want # <<>> => \/ f.do = "lookup"
                      \/ f.do \in {"type", "scheme", "links"} /\ f.asked /\ f.rest # <<>>

(* f was called by g.                                                      *)
PairShape(g, f) ==
  /\ f.do # "lookup"
  /\ f.do = "hrc" => g.do = "qualify" /\ g.asked /\ g.rest # <<>> /\ Head(g.rest) = f.of
  /\ f.do = "type" => g.do = "hrc"
  /\ f.do = "scheme" => g.do = "type" /\ f.of[1] = g.of
  /\ f.do = "links" => g.do = "hrc" /\ g.outer /\ g.rest = <<>>
  /\ f.do = "qualify" => g.do \in {"lookup", "type", "scheme", "links"}
                         /\ g.want # <<>> /\ f.of = Head(g.want)

(* A type is read once at a time, and only the outermost load links.       *)
StackShape(s) ==
  /\ IsStack(s)
  /\ \A k \in 1..Len(s) : FrameShape(s[k]) /\ (k = 1 => s[k].do \in {"lookup", "hrc"})
  /\ \A j, k \in 1..Len(s) : k = j + 1 => PairShape(s[j], s[k])
  /\ \A j, k \in 1..Len(s) : s[j].do = "type" /\ s[k].do = "type" /\ s[j].of = s[k].of => j = k
  /\ \A j, k \in 1..Len(s) : j < k /\ s[k].do = "hrc" /\ s[k].outer => s[j].do # "hrc"

(* parseType is the type the innermost call that sets it is about, and     *)
(* every such call saved what it found.                                    *)
Sets(f) == f.do = "type" \/ (f.do = "links" /\ f.rest # <<>>)
TypeOf(f) == IF f.do = "type" THEN f.of ELSE Head(f.rest)[1][1]

(* j is the innermost of them that runs when k begins.                     *)
Innermost(s, j, k) == Sets(s[j]) /\ j < k /\ \A i \in 1..Len(s) : j < i /\ i < k => ~Sets(s[i])

ParseTypes(s, pt) ==
  /\ \A j, k \in 1..Len(s) :
       s[k].do = "type" /\ Innermost(s, j, k) => s[k].saved = TypeOf(s[j])
  /\ \A j \in 1..Len(s) : Innermost(s, j, Len(s) + 1) => pt = TypeOf(s[j])

(* While a file is read the mode is that of a type's file.                 *)
Modes(s, m) ==
  /\ \A k \in 1..Len(s) : s[k].do = "hrc" => m = "TYPE"
  /\ \A j, k \in 1..Len(s) : j < k /\ s[j].do = "hrc" /\ s[k].do = "hrc" => s[k].saved = "TYPE"

Shape(s, pt, m) == StackShape(s) /\ ParseTypes(s, pt) /\ Modes(s, m)

-----------------------------------------------------------------------------
(* Calls, returns and the innermost call's going on keep the shape.        *)
LEMMA PoppedIs ==
  ASSUME NEW s, IsStack(s), s # <<>>
  PROVE  /\ IsStack(Front(s)) /\ Len(s) \in Nat /\ Len(s) > 0 /\ Len(s) \in 1..Len(s)
         /\ Len(Front(s)) = Len(s) - 1 /\ Last(s) = s[Len(s)]
         /\ \A k \in 1..Len(Front(s)) : k \in 1..Len(s) /\ k < Len(s) /\ Front(s)[k] = s[k]
         /\ \A k \in 1..Len(s) : k < Len(s) => k \in 1..Len(Front(s))
  BY PoppedStack

LEMMA ReplacedIs ==
  ASSUME NEW s, IsStack(s), s # <<>>, NEW f
  PROVE  /\ IsStack(Append(Front(s), f)) /\ Len(Append(Front(s), f)) = Len(s)
         /\ Append(Front(s), f) # <<>> /\ Append(Front(s), f)[Len(s)] = f
         /\ \A k \in 1..Len(s) : k # Len(s) => k < Len(s) /\ Append(Front(s), f)[k] = s[k]
         /\ Front(Append(Front(s), f)) = Front(s) /\ Last(Append(Front(s), f)) = f
  <1>1. /\ IsStack(Front(s)) /\ Len(s) \in Nat /\ Len(s) > 0 /\ Len(Front(s)) = Len(s) - 1
        /\ \A k \in 1..Len(s) - 1 : Front(s)[k] = s[k]
    BY PoppedStack
  <1> DEFINE b == Front(s)
             n == Append(b, f)
  <1> HIDE DEF b
  <1>2. /\ IsStack(n) /\ n # <<>> /\ Len(n) = Len(b) + 1 /\ n[Len(b) + 1] = f
        /\ \A k \in 1..Len(b) : n[k] = b[k]
    BY <1>1, PushedStack DEF b
  <1> HIDE DEF n
  <1>3. /\ IsStack(Front(n)) /\ Len(Front(n)) = Len(n) - 1
        /\ \A k \in 1..Len(n) - 1 : Front(n)[k] = n[k]
        /\ Last(n) = n[Len(n)]
    BY <1>2, PoppedStack
  <1>4. Len(n) = Len(s) /\ Len(b) = Len(s) - 1 /\ n[Len(s)] = f
    BY <1>1, <1>2 DEF b
  <1>5. Front(n) = b
    <2>1. PICK S : b \in Seq(S)
      BY <1>1 DEF IsStack, b
    <2>2. PICK T : Front(n) \in Seq(T)
      BY <1>3 DEF IsStack
    <2>3. Len(Front(n)) = Len(b) /\ \A k \in 1..Len(b) : Front(n)[k] = b[k]
      BY <1>2, <1>3, <1>4, <1>1
    <2> QED
      BY <2>1, <2>2, <2>3
  <1>6. \A k \in 1..Len(s) : k # Len(s) => k < Len(s) /\ n[k] = s[k]
    <2>1. \A k \in 1..Len(s) : k # Len(s) => k < Len(s) /\ k \in 1..Len(b) /\ k \in 1..Len(s) - 1
      BY <1>1, <1>4
    <2> QED
      BY <1>1, <1>2, <2>1 DEF b
  <1> QED
    BY <1>2, <1>3, <1>4, <1>5, <1>6 DEF n, b

LEMMA PushedIs ==
  ASSUME NEW s, IsStack(s), NEW f
  PROVE  /\ IsStack(Append(s, f)) /\ Append(s, f) # <<>> /\ Len(s) \in Nat
         /\ Len(Append(s, f)) = Len(s) + 1 /\ Append(s, f)[Len(s) + 1] = f
         /\ \A k \in 1..Len(s) : k \in 1..Len(s) + 1 /\ k < Len(s) + 1 /\ Append(s, f)[k] = s[k]
         /\ \A k \in 1..Len(s) + 1 : k # Len(s) + 1 => k \in 1..Len(s)
         /\ Front(Append(s, f)) = s /\ Last(Append(s, f)) = f
  <1>1. PICK S : s \in Seq(S)
    BY DEF IsStack
  <1> DEFINE n == Append(s, f)
  <1>2. /\ IsStack(n) /\ n # <<>> /\ Len(s) \in Nat /\ Len(n) = Len(s) + 1 /\ n[Len(s) + 1] = f
        /\ \A k \in 1..Len(s) : n[k] = s[k]
    BY PushedStack
  <1> HIDE DEF n
  <1>3. /\ IsStack(Front(n)) /\ Len(Front(n)) = Len(n) - 1
        /\ \A k \in 1..Len(n) - 1 : Front(n)[k] = n[k]
        /\ Last(n) = n[Len(n)]
    BY <1>2, PoppedStack
  <1>4. Front(n) = s
    <2>1. PICK T : Front(n) \in Seq(T)
      BY <1>3 DEF IsStack
    <2>2. Len(Front(n)) = Len(s) /\ \A k \in 1..Len(s) : Front(n)[k] = s[k]
      BY <1>2, <1>3
    <2> QED
      BY <1>1, <2>1, <2>2
  <1>5. /\ \A k \in 1..Len(s) : k \in 1..Len(s) + 1 /\ k < Len(s) + 1
        /\ \A k \in 1..Len(s) + 1 : k # Len(s) + 1 => k \in 1..Len(s)
    BY <1>2
  <1> QED
    BY <1>2, <1>3, <1>4, <1>5 DEF n

LEMMA PopShape ==
  ASSUME NEW s, NEW pt, NEW m, Shape(s, pt, m), s # <<>>, ~Sets(Last(s)) \/ Last(s).do = "type"
  PROVE  Shape(Front(s), IF Last(s).do = "type" THEN Last(s).saved ELSE pt,
                         IF Last(s).do = "hrc" THEN Last(s).saved ELSE m)
  <1> DEFINE n == Front(s)
             N == Len(s)
             M == Len(n)
             pu == IF Last(s).do = "type" THEN Last(s).saved ELSE pt
             mu == IF Last(s).do = "hrc" THEN Last(s).saved ELSE m
  <1>1. /\ IsStack(n) /\ N \in Nat /\ N > 0 /\ N \in 1..N /\ M = N - 1 /\ Last(s) = s[N]
        /\ \A k \in 1..M : k \in 1..N /\ k < N /\ n[k] = s[k]
        /\ \A k \in 1..N : k < N => k \in 1..M
    BY PoppedIs DEF Shape, StackShape
  <1> HIDE DEF n, N, M
  <1>2. StackShape(n)
    BY <1>1 DEF Shape, StackShape, N, M
  <1>3. ParseTypes(n, pu)
    <2>1. ASSUME NEW j \in 1..M, NEW k \in 1..N, k <= N, Innermost(n, j, k)
          PROVE  Innermost(s, j, k)
      <3>1. \A i \in 1..N : i < k => i \in 1..M
        BY <1>1
      <3>2. n[j] = s[j] /\ \A i \in 1..M : n[i] = s[i]
        BY <1>1
      <3> QED
        BY <2>1, <3>1, <3>2 DEF Innermost, N, M
    <2>2. ASSUME NEW j \in 1..M, NEW k \in 1..M, n[k].do = "type", Innermost(n, j, k)
          PROVE  n[k].saved = TypeOf(n[j])
      <3>1. k <= N
        BY <1>1
      <3>2. Innermost(s, j, k)
        BY <1>1, <2>1, <2>2, <3>1
      <3> QED
        BY <1>1, <2>2, <3>2 DEF Shape, ParseTypes, N
    <2>3. ASSUME NEW j \in 1..M, Innermost(n, j, M + 1)
          PROVE  pu = TypeOf(n[j])
      <3>1. M + 1 = N
        BY <1>1
      <3>2. Innermost(s, j, N)
        BY <1>1, <2>1, <2>3, <3>1
      <3>3. CASE s[N].do = "type"
        BY <1>1, <3>2, <3>3 DEF Shape, ParseTypes, N
      <3>4. CASE s[N].do # "type"
        <4>1. ~Sets(s[N])
          BY <1>1, <3>4
        <4>2. Innermost(s, j, N + 1)
          <5>1. \A i \in 1..N : i < N + 1 => i < N \/ i = N
            BY <1>1
          <5>2. j < N + 1
            BY <1>1
          <5> QED
            BY <3>2, <4>1, <5>1, <5>2 DEF Innermost, N
        <4> QED
          BY <1>1, <3>4, <4>2 DEF Shape, ParseTypes, N
      <3> QED
        BY <3>3, <3>4
    <2> QED
      BY <2>2, <2>3 DEF ParseTypes, M
  <1>4. Modes(n, mu)
    BY <1>1 DEF Shape, Modes, N, M
  <1> QED
    BY <1>2, <1>3, <1>4 DEF Shape, n

LEMMA ReplaceShape ==
  ASSUME NEW s, NEW pt, NEW pu, NEW m, Shape(s, pt, m), s # <<>>, NEW f, FrameShape(f),
         f.do = Last(s).do, f.saved = Last(s).saved, f.outer = Last(s).outer,
         f.do # "links" => f.of = Last(s).of /\ pu = pt,
         f.do = "links" /\ f.rest # <<>> => pu = Head(f.rest)[1][1]
  PROVE  Shape(Append(Front(s), f), pu, m)
  <1> DEFINE n == Append(Front(s), f)
             N == Len(s)
  <1>1. /\ IsStack(n) /\ N \in Nat /\ N > 0 /\ N \in 1..N /\ Len(n) = N /\ Last(s) = s[N]
        /\ n[N] = f /\ \A k \in 1..N : k # N => k < N /\ n[k] = s[k]
    BY PoppedIs, ReplacedIs DEF Shape, StackShape
  <1> HIDE DEF n, N
  <1>2. StackShape(n)
    <2>1. \A k \in 1..N : n[k].do = s[k].do /\ n[k].outer = s[k].outer
                          /\ (s[k].do # "links" => n[k].of = s[k].of)
      BY <1>1
    <2>2. \A k \in 1..N : FrameShape(n[k]) /\ (k = 1 => n[k].do \in {"lookup", "hrc"})
      BY <1>1, <2>1 DEF Shape, StackShape, N
    <2>3. ASSUME NEW j \in 1..N, NEW k \in 1..N, k = j + 1
          PROVE  PairShape(n[j], n[k])
      <3>1. j # N /\ n[j] = s[j] /\ PairShape(s[j], s[k])
        BY <1>1, <2>3 DEF Shape, StackShape, N
      <3> QED
        BY <2>1, <3>1 DEF PairShape
    <2> QED
      BY <1>1, <2>1, <2>2, <2>3 DEF Shape, StackShape, N
  <1>3. ParseTypes(n, pu)
    <2>1. ASSUME NEW j \in 1..N, NEW k \in 1..N, Innermost(n, j, k)
          PROVE  j # N /\ Innermost(s, j, k)
      BY <1>1, <2>1 DEF Innermost, N
    <2>2. ASSUME NEW j \in 1..N, NEW k \in 1..N, n[k].do = "type", Innermost(n, j, k)
          PROVE  n[k].saved = TypeOf(n[j])
      BY <1>1, <2>1, <2>2 DEF Shape, ParseTypes, N
    <2>3. ASSUME NEW j \in 1..N, Innermost(n, j, N + 1)
          PROVE  pu = TypeOf(n[j])
      <3>1. CASE j = N
        <4>1. CASE f.do = "links"
          <5>1. f.rest # <<>>
            BY <1>1, <2>3, <3>1, <4>1 DEF Innermost, Sets
          <5> QED
            BY <1>1, <3>1, <4>1, <5>1 DEF TypeOf
        <4>2. CASE f.do # "links"
          <5>1. Sets(s[N]) /\ TypeOf(n[N]) = TypeOf(s[N]) /\ N < N + 1
            BY <1>1, <2>3, <3>1, <4>2 DEF Innermost, Sets, TypeOf
          <5>2. \A i \in 1..N : ~(N < i)
            BY <1>1
          <5>3. Innermost(s, N, N + 1)
            BY <5>1, <5>2 DEF Innermost, N
          <5> QED
            BY <1>1, <3>1, <4>2, <5>1, <5>3 DEF Shape, ParseTypes, N
        <4> QED
          BY <4>1, <4>2
      <3>2. CASE j # N
        <4>1. ~Sets(f)
          BY <1>1, <2>3, <3>2 DEF Innermost
        <4>2. CASE f.do = "links"
          \* nothing below sets it
          <5>1. FALSE
            <6>1. N > 1 /\ N - 1 \in 1..N /\ N = (N - 1) + 1 /\ j < N
              BY <1>1, <3>2
            <6>2. s[N - 1].do = "hrc" /\ s[N - 1].outer /\ s[j].do \in {"type", "links"}
              <7>1. PairShape(s[N - 1], s[N]) /\ s[N].do = "links"
                BY <1>1, <4>2, <6>1 DEF Shape, StackShape, N
              <7>2. Sets(s[j])
                BY <1>1, <2>3, <3>2 DEF Innermost
              <7> QED
                BY <7>1, <7>2 DEF PairShape, Sets
            <6>3. j < N - 1
              BY <1>1, <6>1, <6>2
            <6>4. j > 1 /\ j - 1 \in 1..N /\ j = (j - 1) + 1
              BY <1>1, <6>2 DEF Shape, StackShape, N
            <6>5. s[j - 1].do = "hrc"
              BY <6>2, <6>4 DEF Shape, StackShape, PairShape, N
            <6>6. j - 1 < N - 1
              BY <1>1, <6>3
            <6> QED
              BY <6>1, <6>2, <6>4, <6>5, <6>6 DEF Shape, StackShape, N
          <5> QED
            BY <5>1
        <4>3. CASE f.do # "links"
          <5>1. ~Sets(s[N])
            BY <1>1, <4>1, <4>3 DEF Sets
          <5>2. Innermost(s, j, N + 1)
            BY <1>1, <2>3, <3>2, <5>1 DEF Innermost, N
          <5> QED
            BY <1>1, <3>2, <4>3, <5>2 DEF Shape, ParseTypes, N
        <4> QED
          BY <4>2, <4>3
      <3> QED
        BY <3>1, <3>2
    <2> QED
      BY <1>1, <2>2, <2>3 DEF ParseTypes, N
  <1>4. Modes(n, m)
    BY <1>1 DEF Shape, Modes, N
  <1> QED
    BY <1>2, <1>3, <1>4 DEF Shape, n

LEMMA PushShape ==
  ASSUME NEW s, NEW pt, NEW pu, NEW m, NEW mu, Shape(s, pt, m), NEW f, FrameShape(f),
         IF s = <<>> THEN f.do \in {"lookup", "hrc"} ELSE PairShape(Last(s), f),
         f.do = "links" => f.rest = <<>>,
         IF f.do = "type"
         THEN /\ \A k \in 1..Len(s) : s[k].do = "type" => s[k].of # f.of
              /\ f.saved = pt /\ pu = f.of
         ELSE pu = pt,
         IF f.do = "hrc"
         THEN /\ f.outer => \A k \in 1..Len(s) : s[k].do # "hrc"
              /\ f.saved = m /\ mu = "TYPE"
         ELSE mu = m
  PROVE  Shape(Append(s, f), pu, mu)
  <1> DEFINE n == Append(s, f)
             N == Len(s)
             M == Len(s) + 1
  <1>1. /\ IsStack(n) /\ N \in Nat /\ M = N + 1 /\ Len(n) = M /\ n[M] = f /\ M \in 1..M
        /\ \A k \in 1..N : k \in 1..M /\ k < M /\ k # M /\ n[k] = s[k]
        /\ \A k \in 1..M : k # M => k \in 1..N
    BY PushedIs DEF Shape, StackShape
  <1>2. IF N = 0 THEN f.do \in {"lookup", "hrc"} ELSE N \in 1..N /\ PairShape(s[N], f)
    <2>1. CASE s = <<>>
      BY <2>1
    <2>2. CASE s # <<>>
      BY <2>2, PoppedIs DEF Shape, StackShape
    <2> QED
      BY <2>1, <2>2
  <1> HIDE DEF n, N, M
  <1>3. StackShape(n)
    <2>1. ASSUME NEW k \in 1..M
          PROVE  FrameShape(n[k]) /\ (k = 1 => n[k].do \in {"lookup", "hrc"})
      <3>1. CASE k \in 1..N
        BY <1>1, <3>1 DEF Shape, StackShape, N
      <3>2. CASE k = M
        <4>1. k = 1 => N = 0
          BY <1>1, <3>2
        <4> QED
          BY <1>1, <1>2, <3>2, <4>1
      <3> QED
        BY <1>1, <3>1, <3>2
    <2>2. ASSUME NEW j \in 1..M, NEW k \in 1..M, k = j + 1
          PROVE  PairShape(n[j], n[k])
      <3>1. CASE k \in 1..N
        <4>1. j \in 1..N
          BY <1>1, <2>2, <3>1
        <4> QED
          BY <1>1, <2>2, <3>1, <4>1 DEF Shape, StackShape, N
      <3>2. CASE k = M
        <4>1. j = N /\ N # 0 /\ j \in 1..N
          BY <1>1, <2>2, <3>2
        <4> QED
          BY <1>1, <1>2, <3>2, <4>1
      <3> QED
        BY <1>1, <3>1, <3>2
    <2>3. ASSUME NEW j \in 1..M, NEW k \in 1..M, n[j].do = "type", n[k].do = "type",
                 n[j].of = n[k].of
          PROVE  j = k
      BY <1>1, <2>3 DEF Shape, StackShape, N
    <2>4. ASSUME NEW j \in 1..M, NEW k \in 1..M, j < k, n[k].do = "hrc", n[k].outer
          PROVE  n[j].do # "hrc"
      <3>1. j \in 1..N
        BY <1>1, <2>4
      <3> QED
        BY <1>1, <2>4, <3>1 DEF Shape, StackShape, N
    <2> QED
      BY <1>1, <2>1, <2>2, <2>3, <2>4 DEF StackShape
  <1>4. ParseTypes(n, pu)
    <2>1. ASSUME NEW j \in 1..N, NEW k \in 1..M, Innermost(n, j, k)
          PROVE  Innermost(s, j, k)
      BY <1>1, <2>1 DEF Innermost, N, M
    <2>2. ASSUME NEW j \in 1..M, NEW k \in 1..M, n[k].do = "type", Innermost(n, j, k)
          PROVE  n[k].saved = TypeOf(n[j])
      <3>1. j \in 1..N
        BY <1>1, <2>2 DEF Innermost
      <3>2. Innermost(s, j, k)
        BY <2>1, <2>2, <3>1
      <3>3. CASE k \in 1..N
        BY <1>1, <2>2, <3>1, <3>2, <3>3 DEF Shape, ParseTypes, N
      <3>4. CASE k = M
        <4>1. pt = TypeOf(s[j])
          BY <1>1, <3>1, <3>2, <3>4 DEF Shape, ParseTypes, N
        <4> QED
          BY <1>1, <2>2, <3>1, <3>4, <4>1
      <3> QED
        BY <1>1, <3>3, <3>4
    <2>3. ASSUME NEW j \in 1..M, Innermost(n, j, M + 1)
          PROVE  pu = TypeOf(n[j])
      <3>1. CASE j = M
        BY <1>1, <2>3, <3>1 DEF Innermost, Sets, TypeOf
      <3>2. CASE j \in 1..N
        <4>1. ~Sets(f)
          <5>1. M < M + 1 /\ j < M
            BY <1>1, <3>2
          <5> QED
            BY <1>1, <2>3, <5>1 DEF Innermost
        <4>2. Innermost(n, j, M)
          <5>1. \A i \in 1..M : i < M => i < M + 1
            BY <1>1
          <5> QED
            BY <1>1, <2>3, <3>2, <5>1 DEF Innermost
        <4>3. Innermost(s, j, N + 1)
          BY <1>1, <2>1, <3>2, <4>2
        <4>4. pt = TypeOf(s[j])
          BY <3>2, <4>3 DEF Shape, ParseTypes, N
        <4> QED
          BY <1>1, <3>2, <4>1, <4>4 DEF Sets
      <3> QED
        BY <1>1, <3>1, <3>2
    <2> QED
      BY <1>1, <2>2, <2>3 DEF ParseTypes
  <1>5. Modes(n, mu)
    <2>1. \A k \in 1..N : s[k].do = "hrc" => m = "TYPE"
      BY DEF Shape, Modes, N
    <2>2. \A k \in 1..M : n[k].do = "hrc" => mu = "TYPE"
      BY <1>1, <2>1
    <2>3. ASSUME NEW j \in 1..M, NEW k \in 1..M, j < k, n[j].do = "hrc", n[k].do = "hrc"
          PROVE  n[k].saved = "TYPE"
      <3>1. j \in 1..N
        BY <1>1, <2>3
      <3> QED
        BY <1>1, <2>1, <2>3, <3>1 DEF Shape, Modes, N
    <2> QED
      BY <1>1, <2>2, <2>3 DEF Modes
  <1> QED
    BY <1>3, <1>4, <1>5 DEF Shape, n

-----------------------------------------------------------------------------
(* The library, of which more is known with every step.                    *)
World == [lib |-> lib, types |-> types, schemes |-> schemes]

File(t, w) == w.lib.files[w.types[t].file]

(* There is something to be read of the type; nothing more will be.        *)
Has(t, w) == t \in DOMAIN w.types /\ File(t, w) # Bad /\ TypesAt(File(t, w), t) # {}
Done(t, w) == t \in DOMAIN w.types /\ w.types[t].done
Final(t, w) == Done(t, w) \/ ~Has(t, w)

(* What was written of a type and a scheme.                                *)
ItemsOf(t, w) == File(t, w)[Min(TypesAt(File(t, w), t))].items
NodesOf(key, w) ==
  ItemsOf(key[1], w)[Min(SchemesAt(ItemsOf(key[1], w), key[2]))].nodes

CandidatesIn(t, n, w) ==
  IF n.type # None THEN <<n.type>> ELSE IF t = None THEN <<>> ELSE <<t>> \o w.types[t].imports

(* The candidates before p do not know the name, and never will.           *)
Unknown(c, n, w) == Final(c, w) /\ <<c, n.name>> \notin DOMAIN w.schemes
NoneOf(from, n, p, w) == \A q \in 1 .. p - 1 : Unknown(from[q], n, w)

(* r is what the name stands for in t, and will be.                        *)
Settled(t, n, r, w) ==
  LET from == CandidatesIn(t, n, w)
  IN  \/ r = None /\ NoneOf(from, n, Len(from) + 1, w)
      \/ \E p \in 1 .. Len(from) :
           r = <<from[p], n.name>> /\ r \in DOMAIN w.schemes /\ NoneOf(from, n, p, w)

(* r is a scheme the name may stand for in t.                              *)
Among(t, n, c, w) ==
  IF n.type # None THEN c = n.type
  ELSE c = t \/ \E i \in DOMAIN w.types[t].imports : w.types[t].imports[i] = c
Glimpsed(t, n, r, w) ==
  r # None => r \in DOMAIN w.schemes /\ r = <<r[1], n.name>> /\ Among(t, n, r[1], w)

(* A link written as n, the first of an inherit or not, is as it was       *)
(* written, or was found while the type was read, or was resolved after it.*)
LinkOK(t, early, n, link, w) ==
  \/ link = [name |-> n, to |-> None]
  \/ early /\ link.to # None /\ Glimpsed(t, n, link.to, w)
  \/ link.name = None /\ w.types[t].done /\ Settled(t, n, link.to, w)

(* The nodes of a scheme, of which those before p have been read; node i   *)
(* is the one at[i].                                                       *)
ReadAt(nodes, all, p, at) ==
  /\ \A i, j \in 1 .. Len(nodes) : i < j => at[i] < at[j]
  /\ \A k \in 1 .. p - 1 : all[k].tag # "keywords" => \E i \in 1 .. Len(nodes) : at[i] = k
  /\ \A i \in 1 .. Len(nodes) :
       /\ at[i] \in 1 .. p - 1 /\ nodes[i].tag = all[at[i]].tag
       /\ Len(nodes[i].links) = Len(all[at[i]].links)

LinksOK(t, nodes, all, at, w) ==
  \A i \in 1 .. Len(nodes) : \A j \in 1 .. Len(nodes[i].links) :
    LinkOK(t, nodes[i].tag = "inherit" /\ j = 1, all[at[i]].links[j], nodes[i].links[j], w)

NodesRead(key, p, w) ==
  LET nodes == w.schemes[key].nodes
      all == NodesOf(key, w)
  IN  \E at \in [1 .. Len(nodes) -> 1 .. p - 1] :
        ReadAt(nodes, all, p, at) /\ LinksOK(key[1], nodes, all, at, w)

-----------------------------------------------------------------------------
(* What a call knows of what it reads: rest is all from its place p on.    *)
From(all, rest, p) ==
  /\ IsStack(rest) /\ p \in 1 .. Len(all) + 1 /\ Len(rest) = Len(all) + 1 - p
  /\ \A i \in 1 .. Len(rest) : rest[i] = all[p + i - 1]

(* The types of a file before its place are being read, or have been.      *)
HrcFrame(f, w) ==
  /\ f.of \in DOMAIN w.types /\ File(f.of, w) # Bad
  /\ \E p \in 1 .. Len(File(f.of, w)) + 1 :
       /\ From(File(f.of, w), f.rest, p)
       /\ \A q \in 1 .. p - 1 :
            LET e == File(f.of, w)[q]
            IN  e.tag = "type" /\ e.type \in DOMAIN w.types => w.types[e.type].loading

(* The schemes of a type before its place are known.                       *)
TypeFrame(f, w) ==
  /\ f.of \in DOMAIN w.types /\ w.types[f.of].loading /\ ~w.types[f.of].done
  /\ \E p \in 1 .. Len(ItemsOf(f.of, w)) + 1 :
       /\ From(ItemsOf(f.of, w), f.rest, p)
       /\ \A q \in 1 .. p - 1 :
            LET e == ItemsOf(f.of, w)[q]
            IN  e.tag = "scheme" => <<f.of, e.name>> \in DOMAIN w.schemes

(* An inherit asks for the first scheme it names.                          *)
Asked(f, n, t, w) ==
  IF f.asked THEN \/ f.want = <<n>> /\ f.got = <<>>
                  \/ f.want = <<>> /\ Len(f.got) = 1 /\ Glimpsed(t, n, f.got[1], w)
  ELSE f.want = <<>> /\ f.got = <<>>

SchemeFrame(f, w) ==
  /\ f.of \in DOMAIN w.schemes /\ f.of[1] \in DOMAIN w.types
  /\ \E p \in 1 .. Len(NodesOf(f.of, w)) + 1 :
       From(NodesOf(f.of, w), f.rest, p) /\ NodesRead(f.of, p, w)
  /\ f.rest # <<>> /\ Head(f.rest).tag = "inherit" =>
       Asked(f, Head(f.rest).links[1], f.of[1], w)

(* A place of a link.                                                      *)
LinkIn(p, w) == w.schemes[p[1]].nodes[p[2]].links[p[3]]
Place(p, w) ==
  /\ p = <<p[1], p[2], p[3]>> /\ p[1] \in DOMAIN w.schemes
  /\ p[2] \in 1 .. Len(w.schemes[p[1]].nodes)
  /\ p[3] \in 1 .. Len(w.schemes[p[1]].nodes[p[2]].links)

(* The link that is asked for is not linked yet; what is found is what it  *)
(* stands for.                                                             *)
Resolved(f, p, w) ==
  IF f.asked
  THEN /\ f.rest # <<>> /\ Unlinked(LinkIn(p, w)) /\ LinkIn(p, w).name.kind = "scheme"
       /\ \/ f.want = <<LinkIn(p, w).name>> /\ f.got = <<>>
          \/ /\ f.want = <<>> /\ Len(f.got) = 1
             /\ Settled(p[1][1], LinkIn(p, w).name, f.got[1], w)
  ELSE f.want = <<>> /\ f.got = <<>>

LinksFrame(f, w) ==
  /\ f.of \subseteq DOMAIN w.schemes /\ IsStack(f.rest)
  /\ \A i \in 1 .. Len(f.rest) : /\ Place(f.rest[i], w) /\ f.rest[i][1] = f.rest[1][1]
                                 /\ Done(f.rest[i][1][1], w)
  /\ Resolved(f, Head(f.rest), w)

FrameData(f, w) ==
  /\ f.do = "hrc" => HrcFrame(f, w)
  /\ f.do = "type" => TypeFrame(f, w)
  /\ f.do = "scheme" => SchemeFrame(f, w)
  /\ f.do = "links" => LinksFrame(f, w)
  /\ f.do = "qualify" => IsStack(f.rest)

(* f looks for a name of g's.                                              *)
PairData(g, f, w) ==
  f.do = "qualify" =>
    /\ g.do = "scheme" => \A i \in 1 .. Len(f.rest) : Among(g.of[1], f.of, f.rest[i], w)
    /\ g.do = "links" =>
         LET from == CandidatesIn(Head(g.rest)[1][1], f.of, w)
         IN  \E p \in 1 .. Len(from) + 1 : From(from, f.rest, p) /\ NoneOf(from, f.of, p, w)

(* A candidate of a link that was asked for has been loaded.               *)
TopData(s, w) ==
  \A j, k \in 1 .. Len(s) :
    k = j + 1 /\ k = Len(s) /\ s[j].do = "links" /\ s[k].do = "qualify" /\ s[k].asked =>
      s[k].rest # <<>> /\ Final(Head(s[k].rest), w)

StackData(s, w) ==
  /\ \A k \in 1 .. Len(s) : FrameData(s[k], w)
  /\ \A j, k \in 1 .. Len(s) : k = j + 1 => PairData(s[j], s[k], w)

-----------------------------------------------------------------------------
(* The types and the schemes.                                              *)
LibraryOK(w) == IsLibrary(w.lib) /\ Tidy(w.lib)

TypesOK(w) ==
  \A t \in DOMAIN w.types :
    /\ t \in Types /\ "file" \in DOMAIN w.types[t] /\ TypeFields \subseteq DOMAIN w.types[t]
    /\ w.types[t].file \in DOMAIN w.lib.files
    /\ IsStack(w.types[t].imports)
    /\ \A f \in Contents(w.lib) : \A i \in DOMAIN w.lib.files[f] :
         w.lib.files[f][i].tag = "type" /\ w.lib.files[f][i].type = t => f = w.types[t].file
    /\ w.types[t].broken => File(t, w) = Bad
    /\ w.types[t].done => w.types[t].loading
    /\ w.types[t].loading => /\ File(t, w) # Bad
                             /\ Min(TypesAt(File(t, w), t)) \in TypesAt(File(t, w), t)

SchemeOK(key, w) ==
  LET scheme == w.schemes[key]
  IN  /\ key = <<key[1], key[2]>> /\ key[1] \in DOMAIN w.types /\ w.types[key[1]].loading
      /\ Min(SchemesAt(ItemsOf(key[1], w), key[2])) \in SchemesAt(ItemsOf(key[1], w), key[2])
      /\ scheme = [owner |-> key[1], nodes |-> scheme.nodes] /\ IsStack(scheme.nodes)
      /\ \A i \in 1 .. Len(scheme.nodes) :
           LET node == scheme.nodes[i]
           IN  /\ node = [tag |-> node.tag, links |-> node.links] /\ IsStack(node.links)
               /\ \A j \in 1 .. Len(node.links) :
                    node.links[j] = [name |-> node.links[j].name, to |-> node.links[j].to]

(* A scheme has been read to its end, or is being read.                    *)
SchemesOK(s, w) ==
  \A key \in DOMAIN w.schemes :
    /\ SchemeOK(key, w)
    /\ \/ NodesRead(key, Len(NodesOf(key, w)) + 1, w)
       \/ \E k \in 1 .. Len(s) : s[k].do = "scheme" /\ s[k].of = key

(* A link of a type that has been read, still to be linked.                *)
Open(p, w) == Place(p, w) /\ Done(p[1][1], w) /\ Unlinked(LinkIn(p, w))

(* As long as nothing is loaded, the pass that links has it before it.     *)
Linking(s, changed, w) ==
  \A k \in 1 .. Len(s) :
    s[k].do = "links" /\ ~changed /\ (\A j \in 1 .. Len(s) : k < j => s[j].do # "hrc") =>
      \A p : Open(p, w) => p[1] \in s[k].of \/ \E i \in 1 .. Len(s[k].rest) : s[k].rest[i] = p

Reads(s) == \E k \in 1 .. Len(s) : s[k].do = "hrc"
Idle(s, started, w) == started \/ (~Reads(s) /\ \A p : ~Open(p, w))
-----------------------------------------------------------------------------
(* As types are read, more schemes and imports are known, and types that   *)
(* were not read are; what has been read stays.                            *)
Later(w, v) ==
  /\ v.lib = w.lib /\ DOMAIN v.types = DOMAIN w.types
  /\ \A t \in DOMAIN w.types :
       /\ v.types[t].file = w.types[t].file
       /\ w.types[t].loading => v.types[t].loading
       /\ w.types[t].done => v.types[t].done /\ v.types[t].imports = w.types[t].imports
       /\ \A i \in DOMAIN w.types[t].imports :
            i \in DOMAIN v.types[t].imports /\ v.types[t].imports[i] = w.types[t].imports[i]
  /\ DOMAIN w.schemes \subseteq DOMAIN v.schemes
  /\ \A key \in DOMAIN v.schemes : key \in DOMAIN w.schemes \/ ~Final(key[1], w)

LEMMA FilesLater ==
  ASSUME NEW w, NEW v, Later(w, v)
  PROVE  /\ \A t \in DOMAIN w.types : File(t, v) = File(t, w) /\ ItemsOf(t, v) = ItemsOf(t, w)
         /\ \A key : key[1] \in DOMAIN w.types => NodesOf(key, v) = NodesOf(key, w)
         /\ \A t : Has(t, v) <=> Has(t, w)
         /\ \A t : Done(t, w) => Done(t, v)
         /\ \A t : Final(t, w) => Final(t, v)
  <1>1. \A t \in DOMAIN w.types : File(t, v) = File(t, w)
    BY DEF Later, File
  <1>2. \A t \in DOMAIN w.types : ItemsOf(t, v) = ItemsOf(t, w)
    BY <1>1 DEF ItemsOf
  <1>3. \A key : key[1] \in DOMAIN w.types => NodesOf(key, v) = NodesOf(key, w)
    BY <1>2 DEF NodesOf
  <1>4. \A t : Has(t, v) <=> Has(t, w)
    BY <1>1 DEF Has, Later
  <1>5. \A t : Done(t, w) => Done(t, v)
    BY DEF Done, Later
  <1> QED
    BY <1>1, <1>2, <1>3, <1>4, <1>5 DEF Final

LEMMA NoneLater ==
  ASSUME NEW w, NEW v, Later(w, v), NEW from, NEW n, NEW p, NoneOf(from, n, p, w)
  PROVE  NoneOf(from, n, p, v)
  <1>1. ASSUME NEW c, Unknown(c, n, w) PROVE Unknown(c, n, v)
    <2>1. Final(c, v) /\ Final(c, w)
      BY <1>1, FilesLater DEF Unknown
    <2>2. <<c, n.name>>[1] = c
      OBVIOUS
    <2>3. <<c, n.name>> \notin DOMAIN v.schemes
      BY <1>1, <2>1, <2>2 DEF Unknown, Later
    <2> QED
      BY <2>1, <2>3 DEF Unknown
  <1> QED
    BY <1>1 DEF NoneOf

LEMMA SettledLater ==
  ASSUME NEW w, NEW v, Later(w, v), NEW t, Done(t, w), NEW n, NEW r
  PROVE  /\ CandidatesIn(t, n, v) = CandidatesIn(t, n, w)
         /\ Settled(t, n, r, w) => Settled(t, n, r, v)
  <1>1. CandidatesIn(t, n, v) = CandidatesIn(t, n, w)
    BY DEF CandidatesIn, Later, Done
  <1>2. ASSUME Settled(t, n, r, w) PROVE Settled(t, n, r, v)
    <2> DEFINE from == CandidatesIn(t, n, w)
    <2>1. CASE r = None /\ NoneOf(from, n, Len(from) + 1, w)
      BY <1>1, <2>1, NoneLater DEF Settled
    <2>2. ASSUME NEW p \in 1 .. Len(from), r = <<from[p], n.name>>, r \in DOMAIN w.schemes,
                 NoneOf(from, n, p, w)
          PROVE  Settled(t, n, r, v)
      <3>1. r \in DOMAIN v.schemes /\ NoneOf(from, n, p, v)
        BY <2>2, NoneLater DEF Later
      <3> QED
        BY <1>1, <2>2, <3>1 DEF Settled
    <2> QED
      BY <1>2, <2>1, <2>2 DEF Settled
  <1> QED
    BY <1>1, <1>2

LEMMA GlimpsedLater ==
  ASSUME NEW w, NEW v, Later(w, v), NEW t \in DOMAIN w.types, NEW n, NEW r
  PROVE  /\ Among(t, n, r, w) => Among(t, n, r, v)
         /\ Glimpsed(t, n, r, w) => Glimpsed(t, n, r, v)
  <1>1. \A c : Among(t, n, c, w) => Among(t, n, c, v)
    BY DEF Among, Later
  <1> QED
    BY <1>1 DEF Glimpsed, Later

LEMMA LinkLater ==
  ASSUME NEW w, NEW v, Later(w, v), NEW t \in DOMAIN w.types, NEW early, NEW n, NEW link,
         LinkOK(t, early, n, link, w)
  PROVE  LinkOK(t, early, n, link, v)
  <1>1. CASE link = [name |-> n, to |-> None]
    BY <1>1 DEF LinkOK
  <1>2. CASE early /\ link.to # None /\ Glimpsed(t, n, link.to, w)
    BY <1>2, GlimpsedLater DEF LinkOK
  <1>3. CASE link.name = None /\ w.types[t].done /\ Settled(t, n, link.to, w)
    <2>1. Done(t, w)
      BY <1>3 DEF Done
    <2>2. v.types[t].done /\ Settled(t, n, link.to, v)
      BY <1>3, <2>1, SettledLater DEF Later
    <2> QED
      BY <1>3, <2>2 DEF LinkOK
  <1> QED
    BY <1>1, <1>2, <1>3 DEF LinkOK

LEMMA NodesLater ==
  ASSUME NEW w, NEW v, Later(w, v), NEW key, key[1] \in DOMAIN w.types,
         v.schemes[key].nodes = w.schemes[key].nodes, NEW p, NodesRead(key, p, w)
  PROVE  NodesRead(key, p, v)
  <1> DEFINE nodes == w.schemes[key].nodes
             all == NodesOf(key, w)
  <1>1. PICK at \in [1 .. Len(nodes) -> 1 .. p - 1] :
          ReadAt(nodes, all, p, at) /\ LinksOK(key[1], nodes, all, at, w)
    BY DEF NodesRead
  <1>2. LinksOK(key[1], nodes, all, at, v)
    <2> HIDE DEF nodes, all
    <2> QED
      BY <1>1, LinkLater DEF LinksOK
  <1>3. NodesOf(key, v) = all
    BY FilesLater
  <1> HIDE DEF all
  <1> QED
    BY <1>1, <1>2, <1>3 DEF NodesRead

(* The frames of calls that wait say what they said, unless it is about    *)
(* what is done just now.                                                  *)
Undisturbed(f, w, v) ==
  /\ f.do = "type" => ~v.types[f.of].done
  /\ f.do = "scheme" => v.schemes[f.of] = w.schemes[f.of]
  /\ f.do = "links" => \A key \in DOMAIN w.schemes :
                          Done(key[1], w) => v.schemes[key] = w.schemes[key]

LEMMA FrameLater ==
  ASSUME NEW w, NEW v, Later(w, v), NEW f, FrameData(f, w), Undisturbed(f, w, v)
  PROVE  FrameData(f, v)
  <1>1. CASE f.do = "hrc"
    <2>1. HrcFrame(f, v)
      <3>1. f.of \in DOMAIN w.types /\ File(f.of, v) = File(f.of, w)
        BY <1>1, FilesLater DEF FrameData, HrcFrame
      <3> QED
        BY <1>1, <3>1 DEF FrameData, HrcFrame, Later
    <2> QED
      BY <1>1, <2>1 DEF FrameData
  <1>2. CASE f.do = "type"
    <2>1. TypeFrame(f, v)
      <3>1. f.of \in DOMAIN w.types /\ ItemsOf(f.of, v) = ItemsOf(f.of, w)
        BY <1>2, FilesLater DEF FrameData, TypeFrame
      <3> QED
        BY <1>2, <3>1 DEF FrameData, TypeFrame, Later, Undisturbed
    <2> QED
      BY <1>2, <2>1 DEF FrameData
  <1>3. CASE f.do = "scheme"
    <2>1. SchemeFrame(f, v)
      <3>1. /\ f.of \in DOMAIN w.schemes /\ f.of[1] \in DOMAIN w.types
            /\ NodesOf(f.of, v) = NodesOf(f.of, w)
        BY <1>3, FilesLater DEF FrameData, SchemeFrame
      <3>2. \A p : NodesRead(f.of, p, w) => NodesRead(f.of, p, v)
        BY <1>3, <3>1, NodesLater DEF Undisturbed
      <3>3. f.of \in DOMAIN v.schemes /\ f.of[1] \in DOMAIN v.types
        BY <3>1 DEF Later
      <3>4. \A n, r : Glimpsed(f.of[1], n, r, w) => Glimpsed(f.of[1], n, r, v)
        BY <3>1, GlimpsedLater
      <3>5. \A n : Asked(f, n, f.of[1], w) => Asked(f, n, f.of[1], v)
        BY <3>4 DEF Asked
      <3>6. \E p \in 1 .. Len(NodesOf(f.of, v)) + 1 :
              From(NodesOf(f.of, v), f.rest, p) /\ NodesRead(f.of, p, v)
        BY <1>3, <3>1, <3>2 DEF FrameData, SchemeFrame
      <3> QED
        BY <1>3, <3>3, <3>5, <3>6 DEF FrameData, SchemeFrame
    <2> QED
      BY <1>3, <2>1 DEF FrameData
  <1>4. CASE f.do = "links"
    <2>1. LinksFrame(f, w)
      BY <1>4 DEF FrameData
    <2>2. \A i \in 1 .. Len(f.rest) :
            /\ Place(f.rest[i], v) /\ Done(f.rest[i][1][1], v)
            /\ LinkIn(f.rest[i], v) = LinkIn(f.rest[i], w)
      <3>1. ASSUME NEW p, Place(p, w), Done(p[1][1], w)
            PROVE  Place(p, v) /\ Done(p[1][1], v) /\ LinkIn(p, v) = LinkIn(p, w)
        <4>1. p[1] \in DOMAIN w.schemes /\ p[1] \in DOMAIN v.schemes
          BY <3>1 DEF Place, Later
        <4>2. v.schemes[p[1]] = w.schemes[p[1]]
          BY <1>4, <3>1, <4>1 DEF Undisturbed
        <4>3. Place(p, v) /\ LinkIn(p, v) = LinkIn(p, w)
          BY <3>1, <4>1, <4>2 DEF Place, LinkIn
        <4>4. Done(p[1][1], v)
          BY <3>1, FilesLater
        <4> QED
          BY <4>3, <4>4
      <3> QED
        BY <2>1, <3>1 DEF LinksFrame
    <2>3. Resolved(f, Head(f.rest), v)
      <3>1. CASE f.asked
        <4> DEFINE p == Head(f.rest)
        <4>1. f.rest # <<>> /\ 1 \in 1 .. Len(f.rest) /\ p = f.rest[1]
          BY <2>1, <3>1 DEF LinksFrame, Resolved, IsStack
        <4>2. LinkIn(p, v) = LinkIn(p, w) /\ Done(p[1][1], w)
          BY <2>1, <2>2, <4>1 DEF LinksFrame
        <4>3. \A n, r : Settled(p[1][1], n, r, w) => Settled(p[1][1], n, r, v)
          BY <4>2, SettledLater
        <4> HIDE DEF p
        <4>4. Resolved(f, p, w)
          BY <2>1 DEF LinksFrame, p
        <4>5. Resolved(f, p, v)
          BY <3>1, <4>2, <4>3, <4>4 DEF Resolved
        <4> QED
          BY <4>5 DEF p
      <3>2. CASE ~f.asked
        BY <2>1, <3>2 DEF LinksFrame, Resolved
      <3> QED
        BY <3>1, <3>2
    <2>4. LinksFrame(f, v)
      BY <2>1, <2>2, <2>3 DEF LinksFrame, Later
    <2> QED
      BY <1>4, <2>4 DEF FrameData
  <1> QED
    BY <1>1, <1>2, <1>3, <1>4 DEF FrameData

LEMMA PairLater ==
  ASSUME NEW w, NEW v, Later(w, v), NEW g, NEW f, FrameShape(g), FrameData(g, w), PairShape(g, f),
         PairData(g, f, w)
  PROVE  PairData(g, f, v)
  <1> SUFFICES ASSUME f.do = "qualify" PROVE PairData(g, f, v)
    BY DEF PairData
  <1>1. ASSUME g.do = "scheme"
        PROVE  \A i \in 1 .. Len(f.rest) : Among(g.of[1], f.of, f.rest[i], v)
    BY <1>1, GlimpsedLater DEF PairData, FrameData, SchemeFrame
  <1>2. ASSUME g.do = "links"
        PROVE  LET from == CandidatesIn(Head(g.rest)[1][1], f.of, v)
               IN  \E p \in 1 .. Len(from) + 1 : From(from, f.rest, p) /\ NoneOf(from, f.of, p, v)
    <2>1. g.rest # <<>> /\ LinksFrame(g, w)
      BY <1>2 DEF FrameShape, PairShape, FrameData
    <2>2. 1 \in 1 .. Len(g.rest) /\ Head(g.rest) = g.rest[1]
      BY <2>1 DEF LinksFrame, IsStack
    <2>3. Done(Head(g.rest)[1][1], w)
      BY <2>1, <2>2 DEF LinksFrame
    <2>4. CandidatesIn(Head(g.rest)[1][1], f.of, v) = CandidatesIn(Head(g.rest)[1][1], f.of, w)
      BY <2>3, SettledLater
    <2>5. \A from, n, p : NoneOf(from, n, p, w) => NoneOf(from, n, p, v)
      BY NoneLater
    <2> QED
      BY <1>2, <2>4, <2>5 DEF PairData
  <1> QED
    BY <1>1, <1>2 DEF PairData

LEMMA StackLater ==
  ASSUME NEW w, NEW v, Later(w, v), NEW s, StackShape(s), StackData(s, w),
         \A k \in 1 .. Len(s) : Undisturbed(s[k], w, v)
  PROVE  StackData(s, v)
  <1>1. \A k \in 1 .. Len(s) : FrameData(s[k], v)
    BY FrameLater DEF StackData
  <1>2. \A j, k \in 1 .. Len(s) : k = j + 1 => PairData(s[j], s[k], v)
    BY PairLater DEF StackData, StackShape
  <1> QED
    BY <1>1, <1>2 DEF StackData

-----------------------------------------------------------------------------
(* What the frames say, as the stack changes.                              *)
LEMMA PopStack ==
  ASSUME NEW s, StackShape(s), s # <<>>
  PROVE  StackShape(Front(s))
  <1> DEFINE n == Front(s)
  <1>1. /\ IsStack(n) /\ Len(s) \in Nat /\ Len(n) = Len(s) - 1
        /\ \A k \in 1..Len(n) : k \in 1..Len(s) /\ n[k] = s[k]
    BY PoppedIs DEF StackShape
  <1> HIDE DEF n
  <1>2. StackShape(n)
    BY <1>1 DEF StackShape
  <1> QED
    BY <1>2 DEF n

LEMMA PopData ==
  ASSUME NEW s, IsStack(s), s # <<>>, NEW w, StackData(s, w)
  PROVE  StackData(Front(s), w)
  BY PoppedIs DEF StackData

LEMMA PushData ==
  ASSUME NEW s, IsStack(s), NEW w, StackData(s, w), NEW f, FrameData(f, w),
         s # <<>> => PairData(Last(s), f, w)
  PROVE  StackData(Append(s, f), w)
  <1> DEFINE n == Append(s, f)
             N == Len(s)
             M == Len(s) + 1
  <1>1. /\ N \in Nat /\ M = N + 1 /\ Len(n) = M /\ n[M] = f
        /\ \A k \in 1..N : n[k] = s[k]
        /\ \A k \in 1..M : k # M => k \in 1..N
    BY PushedIs
  <1>2. N # 0 => N \in 1..N /\ PairData(s[N], f, w)
    <2>1. CASE s = <<>>
      BY <2>1
    <2>2. CASE s # <<>>
      BY <2>2, PoppedIs
    <2> QED
      BY <2>1, <2>2
  <1> HIDE DEF n, N, M
  <1>3. ASSUME NEW j \in 1..M, NEW k \in 1..M, k = j + 1
        PROVE  PairData(n[j], n[k], w)
    <2>1. CASE k \in 1..N
      <3>1. j \in 1..N
        BY <1>1, <1>3, <2>1
      <3> QED
        BY <1>1, <1>3, <2>1, <3>1 DEF StackData, N
    <2>2. CASE k = M
      <3>1. j = N /\ N # 0
        BY <1>1, <1>3, <2>2
      <3> QED
        BY <1>1, <1>2, <2>2, <3>1
    <2> QED
      BY <1>1, <2>1, <2>2
  <1>4. \A k \in 1..M : FrameData(n[k], w)
    BY <1>1 DEF StackData, N
  <1>5. StackData(n, w)
    BY <1>1, <1>3, <1>4 DEF StackData
  <1> QED
    BY <1>5 DEF n

(* The innermost frame goes on.                                            *)
LEMMA ReplaceData ==
  ASSUME NEW s, IsStack(s), s # <<>>, NEW w, StackData(s, w), NEW f, FrameData(f, w),
         Front(s) # <<>> => PairData(Last(Front(s)), f, w)
  PROVE  StackData(Append(Front(s), f), w)
  <1>1. IsStack(Front(s)) /\ StackData(Front(s), w)
    BY PoppedIs, PopData
  <1> QED
    BY <1>1, PushData

(* The frame below the innermost one.                                      *)
LEMMA BelowIs ==
  ASSUME NEW s, StackShape(s), s # <<>>
  PROVE  /\ FrameShape(Last(s))
         /\ Last(s).do \in {"type", "scheme", "qualify", "links"} => Front(s) # <<>>
         /\ Front(s) # <<>> =>
              /\ Len(s) > 1 /\ Len(s) - 1 \in 1..Len(s) /\ Last(Front(s)) = s[Len(s) - 1]
              /\ PairShape(Last(Front(s)), Last(s)) /\ FrameShape(Last(Front(s)))
  <1>1. /\ Len(s) \in Nat /\ Len(s) > 0 /\ Len(s) \in 1..Len(s) /\ Last(s) = s[Len(s)]
        /\ Len(Front(s)) = Len(s) - 1 /\ IsStack(Front(s))
        /\ \A k \in 1..Len(Front(s)) : Front(s)[k] = s[k]
    BY PoppedIs DEF StackShape
  <1>2. FrameShape(s[Len(s)]) /\ (Len(s) = 1 => s[Len(s)].do \in {"lookup", "hrc"})
    BY <1>1 DEF StackShape
  <1>3. Front(s) = <<>> => Len(s) = 1
    BY <1>1
  <1>4. ASSUME Front(s) # <<>>
        PROVE  /\ Len(s) > 1 /\ Len(s) - 1 \in 1..Len(s) /\ Last(Front(s)) = s[Len(s) - 1]
               /\ PairShape(s[Len(s) - 1], s[Len(s)]) /\ FrameShape(s[Len(s) - 1])
    <2>1. /\ Len(Front(s)) \in Nat /\ Len(Front(s)) > 0 /\ Last(Front(s)) = Front(s)[Len(Front(s))]
          /\ Len(Front(s)) \in 1..Len(Front(s))
      BY <1>1, <1>4, PoppedIs
    <2>2. Len(s) > 1 /\ Len(s) - 1 \in 1..Len(s) /\ Len(s) = (Len(s) - 1) + 1
      BY <1>1, <2>1
    <2>3. Last(Front(s)) = s[Len(s) - 1]
      BY <1>1, <2>1
    <2> QED
      BY <1>1, <2>2, <2>3 DEF StackShape
  <1> QED
    BY <1>1, <1>2, <1>3, <1>4

LEMMA TopFrame ==
  ASSUME NEW s, StackShape(s), s # <<>>, NEW w, StackData(s, w)
  PROVE  /\ FrameData(Last(s), w)
         /\ Front(s) # <<>> => /\ FrameData(Last(Front(s)), w)
                               /\ PairData(Last(Front(s)), Last(s), w)
  <1>1. Len(s) \in Nat /\ Len(s) \in 1..Len(s) /\ Last(s) = s[Len(s)]
    BY PoppedIs DEF StackShape
  <1>2. Front(s) # <<>> => /\ Len(s) - 1 \in 1..Len(s) /\ Last(Front(s)) = s[Len(s) - 1]
                           /\ Len(s) = (Len(s) - 1) + 1
    BY <1>1, BelowIs
  <1> QED
    BY <1>1, <1>2 DEF StackData

(* Below a call that links, nothing is read but the file that began it.    *)
LEMMA LinksAlone ==
  ASSUME NEW s, StackShape(s), NEW k \in 1..Len(s), s[k].do = "links"
  PROVE  /\ k > 1 /\ k - 1 \in 1..Len(s) /\ s[k - 1].do = "hrc" /\ s[k - 1].outer
         /\ s[k - 1].rest = <<>>
         /\ \A j \in 1..Len(s) : j < k /\ j # k - 1 => s[j].do \in {"lookup", "qualify"}
  <1>1. Len(s) \in Nat
    BY DEF StackShape, IsStack
  <1>2. k > 1
    BY <1>1 DEF StackShape
  <1>3. k - 1 \in 1..Len(s) /\ k = (k - 1) + 1
    BY <1>1, <1>2
  <1>4. s[k - 1].do = "hrc" /\ s[k - 1].outer /\ s[k - 1].rest = <<>>
    BY <1>3 DEF StackShape, PairShape
  <1>5. \A j \in 1..Len(s) : j < k - 1 => s[j].do # "hrc"
    BY <1>3, <1>4 DEF StackShape
  <1>6. ASSUME NEW j \in 1..Len(s), j < k - 1, s[j].do \in {"type", "links"}
        PROVE  FALSE
    <2>1. j > 1
      BY <1>1, <1>6 DEF StackShape
    <2>2. j - 1 \in 1..Len(s) /\ j = (j - 1) + 1 /\ j - 1 < k - 1
      BY <1>1, <1>6, <2>1
    <2> QED
      BY <1>5, <1>6, <2>2 DEF StackShape, PairShape
  <1>7. ASSUME NEW j \in 1..Len(s), j < k - 1, s[j].do = "scheme"
        PROVE  FALSE
    <2>1. j > 1
      BY <1>1, <1>7 DEF StackShape
    <2>2. j - 1 \in 1..Len(s) /\ j = (j - 1) + 1 /\ j - 1 < k - 1
      BY <1>1, <1>7, <2>1
    <2>3. s[j - 1].do = "type"
      BY <1>7, <2>2 DEF StackShape, PairShape
    <2> QED
      BY <1>6, <2>2, <2>3
  <1>8. ASSUME NEW j \in 1..Len(s), j < k, j # k - 1
        PROVE  s[j].do \in {"lookup", "qualify"}
    <2>1. j < k - 1 /\ s[j].do \in CallKinds
      BY <1>1, <1>8 DEF StackShape, FrameShape
    <2> QED
      BY <1>5, <1>6, <1>7, <1>8, <2>1 DEF CallKinds
  <1> QED
    BY <1>2, <1>3, <1>4, <1>8

(* A name is looked up for a scheme with nothing linked in between.        *)
LEMMA OneLinks ==
  ASSUME NEW s, StackShape(s), NEW j \in 1..Len(s), NEW k \in 1..Len(s), s[j].do = "links",
         s[k].do = "links"
  PROVE  j = k
  <1>1. Len(s) \in Nat
    BY DEF StackShape, IsStack
  <1>2. ASSUME NEW i \in 1..Len(s), NEW l \in 1..Len(s), s[i].do = "links", s[l].do = "links", i < l
        PROVE  FALSE
    <2>1. s[l - 1].do = "hrc" /\ s[i].do # "hrc"
      BY <1>2, LinksAlone
    <2>2. i # l - 1
      BY <2>1
    <2>3. s[i].do \in {"lookup", "qualify"}
      BY <1>2, <2>2, LinksAlone
    <2> QED
      BY <1>2, <2>3
  <1>3. j < k \/ k < j \/ j = k
    BY <1>1
  <1> QED
    BY <1>2, <1>3

-----------------------------------------------------------------------------
(* What is still to be linked, as the stack and the library change.        *)

(* Where a type is read, the pass that links will be made again.           *)
LEMMA BusyLinking ==
  ASSUME NEW s, StackShape(s), s # <<>>, Last(s).do \in {"hrc", "type", "scheme"}, NEW ch, NEW w
  PROVE  Linking(s, ch, w) /\ Reads(s)
  <1>1. Len(s) \in Nat /\ Len(s) \in 1..Len(s) /\ Last(s) = s[Len(s)]
    BY PoppedIs DEF StackShape
  <1>2. PICK h \in 1..Len(s) : s[h].do = "hrc" /\ \A j \in 1..Len(s) : h < j => s[j].do \in {"type", "scheme"}
    <2>1. CASE s[Len(s)].do = "hrc"
      <3>1. \A j \in 1..Len(s) : ~(Len(s) < j)
        BY <1>1
      <3> QED
        BY <1>1, <2>1, <3>1
    <2>2. ASSUME NEW k \in 1..Len(s), s[k].do = "type"
          PROVE  k > 1 /\ k - 1 \in 1..Len(s) /\ s[k - 1].do = "hrc"
      <3>1. k > 1
        BY <1>1, <2>2 DEF StackShape
      <3>2. k - 1 \in 1..Len(s) /\ k = (k - 1) + 1
        BY <1>1, <3>1
      <3> QED
        BY <2>2, <3>1, <3>2 DEF StackShape, PairShape
    <2>3. CASE s[Len(s)].do = "type"
      <3>1. Len(s) - 1 \in 1..Len(s) /\ s[Len(s) - 1].do = "hrc"
        BY <1>1, <2>2, <2>3
      <3>2. \A j \in 1..Len(s) : Len(s) - 1 < j => j = Len(s)
        BY <1>1
      <3> QED
        BY <2>3, <3>1, <3>2
    <2>4. CASE s[Len(s)].do = "scheme"
      <3>1. Len(s) > 1
        BY <1>1, <2>4 DEF StackShape
      <3>2. Len(s) - 1 \in 1..Len(s) /\ Len(s) = (Len(s) - 1) + 1
        BY <1>1, <3>1
      <3>3. s[Len(s) - 1].do = "type"
        BY <1>1, <2>4, <3>2 DEF StackShape, PairShape
      <3>4. Len(s) - 2 \in 1..Len(s) /\ s[Len(s) - 2].do = "hrc"
        <4>1. Len(s) - 1 > 1 /\ (Len(s) - 1) - 1 \in 1..Len(s) /\ s[(Len(s) - 1) - 1].do = "hrc"
          BY <2>2, <3>2, <3>3
        <4>2. (Len(s) - 1) - 1 = Len(s) - 2
          BY <1>1
        <4> QED
          BY <4>1, <4>2
      <3>5. \A j \in 1..Len(s) : Len(s) - 2 < j => j = Len(s) \/ j = Len(s) - 1
        BY <1>1
      <3> QED
        BY <2>4, <3>3, <3>4, <3>5
    <2> QED
      BY <1>1, <2>1, <2>3, <2>4
  <1>3. \A k \in 1..Len(s) : k < h \/ h < k \/ k = h
    BY <1>1
  <1>4. \A k \in 1..Len(s) : s[k].do = "links" => k < h
    BY <1>2, <1>3
  <1> QED
    BY <1>2, <1>4 DEF Linking, Reads

(* Calls that wait link what they had to link.                             *)
LEMMA CarriedLinking ==
  ASSUME NEW s, NEW n, NEW ch, NEW w, NEW v, Linking(s, ch, w), Len(s) \in Nat, Len(n) \in Nat,
         \A p : Open(p, v) => Open(p, w),
         \A k \in 1..Len(n) : n[k].do = "links" =>
           /\ k \in 1..Len(s) /\ s[k].do = "links" /\ s[k].of = n[k].of /\ s[k].rest = n[k].rest
           /\ \A j \in 1..Len(s) : k < j /\ s[j].do = "hrc" => j \in 1..Len(n) /\ n[j].do = "hrc"
  PROVE  Linking(n, ch, v)
  BY DEF Linking

(* The call that links is the only one.                                    *)
LEMMA TopLinking ==
  ASSUME NEW s, StackShape(s), s # <<>>, Last(s).do = "links", NEW ch, NEW w,
         ~ch => \A p : Open(p, w) => \/ p[1] \in Last(s).of
                                     \/ \E i \in 1..Len(Last(s).rest) : Last(s).rest[i] = p
  PROVE  Linking(s, ch, w)
  <1>1. Len(s) \in 1..Len(s) /\ Last(s) = s[Len(s)]
    BY PoppedIs DEF StackShape
  <1>2. \A k \in 1..Len(s) : s[k].do = "links" => k = Len(s)
    BY <1>1, OneLinks
  <1> QED
    BY <1>1, <1>2 DEF Linking

-----------------------------------------------------------------------------
(* The state of loading, as the calls that run and the library make it.    *)
Loading(s, pt, m, ch, us, w) ==
  /\ Shape(s, pt, m) /\ StackData(s, w) /\ TopData(s, w) /\ SchemesOK(s, w)
  /\ Linking(s, ch, w) /\ Idle(s, us, w)

LEMMA SchemesCarried ==
  ASSUME NEW s, NEW n, NEW w, SchemesOK(s, w), Len(s) \in Nat, Len(n) \in Nat,
         \A k \in 1..Len(s) : s[k].do = "scheme" =>
           \/ \E j \in 1..Len(n) : n[j].do = "scheme" /\ n[j].of = s[k].of
           \/ NodesRead(s[k].of, Len(NodesOf(s[k].of, w)) + 1, w)
  PROVE  SchemesOK(n, w)
  BY DEF SchemesOK

(* A candidate that has been loaded.                                       *)
LoadedTop(f, w) == f.asked => f.rest # <<>> /\ Final(Head(f.rest), w)

LEMMA TopCarried ==
  ASSUME NEW s, StackShape(s), NEW w,
         s # <<>> /\ Last(s).do = "qualify" /\ Last(Front(s)).do = "links" => LoadedTop(Last(s), w)
  PROVE  TopData(s, w)
  <1> SUFFICES ASSUME NEW j \in 1..Len(s), NEW k \in 1..Len(s), k = j + 1, k = Len(s),
                      s[j].do = "links", s[k].do = "qualify", s[k].asked
               PROVE  s[k].rest # <<>> /\ Final(Head(s[k].rest), w)
    BY DEF TopData
  <1>1. Len(s) \in Nat
    BY DEF StackShape, IsStack
  <1>2. s # <<>>
    BY <1>1
  <1>3. Last(s) = s[k] /\ Front(s) # <<>>
    BY <1>2, PoppedIs, BelowIs DEF StackShape
  <1>4. Last(Front(s)) = s[Len(s) - 1] /\ j = Len(s) - 1
    BY <1>1, <1>2, <1>3, BelowIs
  <1> QED
    BY <1>2, <1>3, <1>4 DEF LoadedTop

(* What it was of the top, seen from there.                                *)
LEMMA TopSeen ==
  ASSUME NEW s, StackShape(s), NEW w, TopData(s, w), s # <<>>, Last(s).do = "qualify",
         Last(Front(s)).do = "links"
  PROVE  LoadedTop(Last(s), w)
  <1>1. Len(s) \in Nat /\ Len(s) \in 1..Len(s) /\ Last(s) = s[Len(s)]
    BY PoppedIs DEF StackShape
  <1>2. Len(s) - 1 \in 1..Len(s) /\ Last(Front(s)) = s[Len(s) - 1] /\ Len(s) = (Len(s) - 1) + 1
    BY <1>1, BelowIs
  <1> QED
    BY <1>1, <1>2, Zenon DEF TopData, LoadedTop

(* The innermost call goes on.                                             *)
LEMMA LoadingGoesOn ==
  ASSUME NEW s, NEW pt, NEW m, NEW ch, NEW us, NEW w, Loading(s, pt, m, ch, us, w), s # <<>>,
         NEW f, FrameShape(f), f.do = Last(s).do, f.do # "links", f.saved = Last(s).saved,
         f.outer = Last(s).outer, f.of = Last(s).of,
         FrameData(f, w), Front(s) # <<>> => PairData(Last(Front(s)), f, w),
         f.do = "qualify" /\ Last(Front(s)).do = "links" => LoadedTop(f, w)
  PROVE  Loading(Append(Front(s), f), pt, m, ch, us, w)
  <1> DEFINE n == Append(Front(s), f)
  <1>0. /\ IsStack(n) /\ Len(s) \in Nat /\ Len(s) \in 1..Len(s) /\ Len(n) = Len(s)
        /\ n # <<>> /\ Last(n) = f /\ Front(n) = Front(s)
        /\ n[Len(s)] = f /\ Last(s) = s[Len(s)]
        /\ \A k \in 1..Len(s) : k # Len(s) => n[k] = s[k]
    BY PoppedIs, ReplacedIs DEF Loading, Shape, StackShape
  <1>1. Shape(n, pt, m)
    BY ReplaceShape DEF Loading
  <1>2. StackData(n, w)
    BY ReplaceData DEF Loading, Shape, StackShape
  <1> HIDE DEF n
  <1>3. TopData(n, w)
    BY <1>0, <1>1, TopCarried DEF Shape
  <1>4. \A k \in 1..Len(s) : n[k].do = s[k].do /\ n[k].of = s[k].of
    BY <1>0
  <1>5. SchemesOK(n, w)
    BY <1>0, <1>4, SchemesCarried DEF Loading
  <1>6. \A k \in 1..Len(s) : s[k].do = "links" => n[k] = s[k]
    BY <1>0
  <1>7. Linking(n, ch, w)
    BY <1>0, <1>4, <1>6, CarriedLinking DEF Loading
  <1>8. Idle(n, us, w)
    BY <1>0, <1>4 DEF Loading, Idle, Reads
  <1> QED
    BY <1>1, <1>2, <1>3, <1>5, <1>7, <1>8 DEF Loading, n

(* It calls another, that reads no file and links nothing.                 *)
LEMMA LoadingCalls ==
  ASSUME NEW s, NEW pt, NEW pu, NEW m, NEW ch, NEW us, NEW w, Loading(s, pt, m, ch, us, w),
         NEW f, FrameShape(f), f.do \in {"type", "scheme", "qualify"},
         s # <<>>, PairShape(Last(s), f),
         IF f.do = "type"
         THEN /\ \A k \in 1..Len(s) : s[k].do = "type" => s[k].of # f.of
              /\ f.saved = pt /\ pu = f.of
         ELSE pu = pt,
         FrameData(f, w), PairData(Last(s), f, w), ~f.asked
  PROVE  Loading(Append(s, f), pu, m, ch, us, w)
  <1> DEFINE n == Append(s, f)
  <1>0. /\ IsStack(n) /\ n # <<>> /\ Len(s) \in Nat /\ Len(n) = Len(s) + 1 /\ n[Len(s) + 1] = f
        /\ \A k \in 1..Len(s) : k \in 1..Len(n) /\ n[k] = s[k]
        /\ \A k \in 1..Len(n) : k # Len(s) + 1 => k \in 1..Len(s)
        /\ Front(n) = s /\ Last(n) = f
    BY PushedIs DEF Loading, Shape, StackShape
  <1>1. Shape(n, pu, m)
    BY PushShape DEF Loading
  <1>2. StackData(n, w)
    BY PushData DEF Loading, Shape, StackShape
  <1> HIDE DEF n
  <1>3. TopData(n, w)
    BY <1>0, <1>1, TopCarried DEF Shape, LoadedTop
  <1>5. SchemesOK(n, w)
    BY <1>0, SchemesCarried DEF Loading
  <1>6. \A k \in 1..Len(n) : n[k].do = "links" => k \in 1..Len(s)
    BY <1>0
  <1>7. Linking(n, ch, w)
    BY <1>0, <1>6, CarriedLinking DEF Loading
  <1>8. Idle(n, us, w)
    <2>1. Reads(n) => Reads(s)
      BY <1>0 DEF Reads
    <2> QED
      BY <2>1 DEF Loading, Idle
  <1> QED
    BY <1>1, <1>2, <1>3, <1>5, <1>7, <1>8 DEF Loading, n

(* It returns; what it read is complete.                                   *)
LEMMA LoadingReturns ==
  ASSUME NEW s, NEW pt, NEW m, NEW ch, NEW us, NEW w, Loading(s, pt, m, ch, us, w), s # <<>>,
         Last(s).do \in {"lookup", "type", "scheme", "qualify"},
         Last(s).do = "scheme" => NodesRead(Last(s).of, Len(NodesOf(Last(s).of, w)) + 1, w)
  PROVE  Loading(Front(s), IF Last(s).do = "type" THEN Last(s).saved ELSE pt, m, ch, us, w)
  <1> DEFINE n == Front(s)
             pu == IF Last(s).do = "type" THEN Last(s).saved ELSE pt
  <1>0. /\ IsStack(n) /\ Len(s) \in Nat /\ Len(s) \in 1..Len(s) /\ Len(n) = Len(s) - 1
        /\ Len(n) \in Nat
        /\ Last(s) = s[Len(s)]
        /\ \A k \in 1..Len(n) : k \in 1..Len(s) /\ n[k] = s[k]
        /\ \A k \in 1..Len(s) : k # Len(s) => k \in 1..Len(n)
    BY PoppedIs DEF Loading, Shape, StackShape
  <1>1. Shape(n, pu, m)
    BY PopShape DEF Loading, Sets
  <1>2. StackData(n, w)
    BY PopData DEF Loading, Shape, StackShape
  <1>3. TopData(n, w)
    <2>1. n # <<>> => PairShape(Last(n), Last(s))
      BY BelowIs DEF Loading, Shape
    <2>2. n # <<>> /\ Last(n).do = "qualify" => FALSE
      BY <2>1 DEF PairShape
    <2> HIDE DEF n
    <2> QED
      BY <1>1, <2>2, TopCarried DEF Shape
  <1> HIDE DEF n
  <1>5. SchemesOK(n, w)
    BY <1>0, SchemesCarried DEF Loading
  <1>7. Linking(n, ch, w)
    <2>1. \A j \in 1..Len(s) : s[j].do = "hrc" => j \in 1..Len(n) /\ n[j].do = "hrc"
      BY <1>0
    <2> QED
      BY <1>0, <2>1, CarriedLinking DEF Loading
  <1>8. Idle(n, us, w)
    BY <1>0 DEF Loading, Idle, Reads
  <1> QED
    BY <1>1, <1>2, <1>3, <1>5, <1>7, <1>8 DEF Loading, n

(* More is known of the library.                                           *)
LEMMA LoadingLater ==
  ASSUME NEW s, NEW pt, NEW m, NEW ch, NEW us, NEW w, NEW v, Loading(s, pt, m, ch, us, w),
         Later(w, v), \A k \in 1..Len(s) : Undisturbed(s[k], w, v),
         SchemesOK(s, v),
         \/ \A p : Open(p, v) => Open(p, w)
         \/ s # <<>> /\ Last(s).do \in {"hrc", "type", "scheme"}
  PROVE  Loading(s, pt, m, ch, us, v)
  <1>1. StackData(s, v)
    BY StackLater DEF Loading, Shape
  <1>2. TopData(s, v)
    BY FilesLater DEF Loading, TopData
  <1>3. Linking(s, ch, v) /\ Idle(s, us, v)
    <2>1. CASE \A p : Open(p, v) => Open(p, w)
      <3>1. Len(s) \in Nat
        BY DEF Loading, Shape, StackShape, IsStack
      <3>2. Linking(s, ch, v)
        BY <2>1, <3>1, CarriedLinking DEF Loading
      <3>3. Idle(s, us, v)
        BY <2>1 DEF Loading, Idle
      <3> QED
        BY <3>2, <3>3
    <2>2. CASE s # <<>> /\ Last(s).do \in {"hrc", "type", "scheme"}
      <3>1. Linking(s, ch, v) /\ Reads(s)
        BY <2>2, BusyLinking DEF Loading, Shape
      <3> QED
        BY <3>1 DEF Loading, Idle
    <2> QED
      BY <2>1, <2>2
  <1> QED
    BY <1>1, <1>2, <1>3 DEF Loading

-----------------------------------------------------------------------------
(* Numbers and lists.                                                      *)
LEMMA LeastIs ==
  ASSUME NEW S, S \subseteq Nat, NEW p \in S, \A q \in S : p <= q
  PROVE  Min(S) = p
  <1>1. \A x, y \in S : (\A q \in S : x <= q) /\ (\A q \in S : y <= q) => x = y
    OBVIOUS
  <1> QED
    BY <1>1 DEF Min

LEMMA ListIsStack == ASSUME NEW s, IsList(s) PROVE IsStack(s)
  BY DEF IsList, IsStack

LEMMA StackLen == ASSUME NEW s, IsStack(s) PROVE Len(s) \in Nat /\ DOMAIN s = 1..Len(s) /\ (s # <<>> => Len(s) > 0)
  BY DEF IsStack

LEMMA FromStart == ASSUME NEW all, IsStack(all) PROVE From(all, all, 1)
  <1>1. Len(all) \in Nat
    BY StackLen
  <1> QED
    BY <1>1 DEF From

LEMMA FromNext ==
  ASSUME NEW all, NEW rest, NEW p, Len(all) \in Nat, From(all, rest, p), rest # <<>>
  PROVE  /\ p \in 1 .. Len(all) /\ p \in Nat /\ Head(rest) = all[p]
         /\ p + 1 \in 1 .. Len(all) + 1 /\ From(all, Tail(rest), p + 1)
         /\ \A q \in 1 .. (p + 1) - 1 : q \in 1 .. p - 1 \/ q = p
  <1>1. PICK S : rest \in Seq(S)
    BY DEF From, IsStack
  <1>2. /\ Len(rest) \in Nat /\ Len(rest) > 0 /\ Head(rest) = rest[1]
        /\ Tail(rest) \in Seq(S) /\ Len(Tail(rest)) = Len(rest) - 1
        /\ \A i \in 1 .. Len(Tail(rest)) : Tail(rest)[i] = rest[i + 1]
    BY <1>1, HeadTailProperties
  <1>3. p \in Nat /\ p \in 1 .. Len(all) + 1 /\ Len(rest) = Len(all) + 1 - p
        /\ \A i \in 1 .. Len(rest) : rest[i] = all[p + i - 1]
    BY DEF From
  <1>4. p \in 1 .. Len(all) /\ p + 1 \in 1 .. Len(all) + 1
        /\ Len(Tail(rest)) = Len(all) + 1 - (p + 1)
    BY <1>2, <1>3
  <1>5. ASSUME NEW i \in 1 .. Len(Tail(rest))
        PROVE  Tail(rest)[i] = all[(p + 1) + i - 1]
    <2>1. i + 1 \in 1 .. Len(rest) /\ p + (i + 1) - 1 = (p + 1) + i - 1
      BY <1>2, <1>3
    <2> QED
      BY <1>2, <1>3, <2>1
  <1>6. Head(rest) = all[p]
    <2>1. 1 \in 1 .. Len(rest) /\ p + 1 - 1 = p
      BY <1>2, <1>3
    <2>2. rest[1] = all[p + 1 - 1]
      BY <1>3, <2>1
    <2> QED
      BY <1>2, <2>1, <2>2
  <1>7. IsStack(Tail(rest))
    BY <1>2 DEF IsStack
  <1>8. \A q \in 1 .. (p + 1) - 1 : q \in 1 .. p - 1 \/ q = p
    BY <1>3
  <1> QED
    BY <1>3, <1>4, <1>5, <1>6, <1>7, <1>8 DEF From

LEMMA FromEnd ==
  ASSUME NEW all, NEW p, Len(all) \in Nat, From(all, <<>>, p)
  PROVE  p = Len(all) + 1
  BY DEF From

LEMMA TailIs ==
  ASSUME NEW s, IsStack(s), s # <<>>
  PROVE  /\ IsStack(Tail(s)) /\ Len(s) \in Nat /\ Len(s) > 0 /\ 1 \in 1..Len(s)
         /\ Len(Tail(s)) = Len(s) - 1 /\ Head(s) = s[1]
         /\ \A i \in 1..Len(Tail(s)) : i + 1 \in 1..Len(s) /\ Tail(s)[i] = s[i + 1]
  <1>1. PICK S : s \in Seq(S)
    BY DEF IsStack
  <1>2. /\ Len(s) \in Nat /\ Len(s) > 0 /\ Head(s) = s[1]
        /\ Tail(s) \in Seq(S) /\ Len(Tail(s)) = Len(s) - 1
        /\ \A i \in 1 .. Len(Tail(s)) : Tail(s)[i] = s[i + 1]
    BY <1>1, HeadTailProperties
  <1> QED
    BY <1>2 DEF IsStack

(* A frame with its next element; a new frame.                             *)
LEMMA AdvanceIs ==
  ASSUME NEW f, FrameFields \subseteq DOMAIN f
  PROVE  /\ FrameFields \subseteq DOMAIN Advance(f)
         /\ Advance(f).do = f.do /\ Advance(f).of = f.of /\ Advance(f).saved = f.saved
         /\ Advance(f).outer = f.outer /\ Advance(f).want = f.want
         /\ Advance(f).rest = Tail(f.rest) /\ ~Advance(f).asked /\ Advance(f).got = <<>>
  BY DEF Advance, FrameFields

LEMMA FrameIs ==
  ASSUME NEW do, NEW of, NEW rest, NEW saved
  PROVE  LET f == Frame(do, of, rest, saved)
         IN  /\ FrameFields \subseteq DOMAIN f
             /\ f.do = do /\ f.of = of /\ f.rest = rest /\ f.saved = saved
             /\ ~f.outer /\ ~f.asked /\ f.want = <<>> /\ f.got = <<>>
  BY DEF Frame, FrameFields

-----------------------------------------------------------------------------
(* What has been written.                                                  *)
LEMMA FileIs ==
  ASSUME NEW w, LibraryOK(w), TypesOK(w), NEW t \in DOMAIN w.types, File(t, w) # Bad
  PROVE  /\ IsStack(File(t, w)) /\ w.types[t].file \in Contents(w.lib)
         /\ DOMAIN File(t, w) = 1 .. Len(File(t, w)) /\ Len(File(t, w)) \in Nat
         /\ \A i \in 1 .. Len(File(t, w)) : IsElement(w.lib, File(t, w)[i])
  <1>1. w.types[t].file \in Contents(w.lib)
    BY DEF TypesOK, File, Contents
  <1>2. IsStack(File(t, w))
    BY <1>1, ListIsStack DEF LibraryOK, IsLibrary, File
  <1>3. DOMAIN File(t, w) = 1 .. Len(File(t, w)) /\ Len(File(t, w)) \in Nat
    BY <1>2, StackLen
  <1>4. \A i \in DOMAIN File(t, w) : IsElement(w.lib, File(t, w)[i])
    BY <1>1 DEF LibraryOK, IsLibrary, File
  <1> QED
    BY <1>1, <1>2, <1>3, <1>4

LEMMA ItemsAre ==
  ASSUME NEW w, LibraryOK(w), TypesOK(w), NEW t \in DOMAIN w.types, w.types[t].loading
  PROVE  /\ Has(t, w) /\ IsStack(ItemsOf(t, w)) /\ Len(ItemsOf(t, w)) \in Nat
         /\ DOMAIN ItemsOf(t, w) = 1 .. Len(ItemsOf(t, w))
         /\ \A i \in 1 .. Len(ItemsOf(t, w)) : IsItem(ItemsOf(t, w)[i])
  <1> DEFINE m == Min(TypesAt(File(t, w), t))
  <1>1. File(t, w) # Bad /\ m \in TypesAt(File(t, w), t)
    BY DEF TypesOK
  <1> HIDE DEF m
  <1>2. /\ m \in DOMAIN File(t, w) /\ File(t, w)[m].tag = "type" /\ File(t, w)[m].type = t
    BY <1>1 DEF TypesAt
  <1>3. IsElement(w.lib, File(t, w)[m])
    BY <1>1, <1>2, FileIs
  <1>4. IsList(File(t, w)[m].items) /\ \A i \in DOMAIN File(t, w)[m].items : IsItem(File(t, w)[m].items[i])
    BY <1>2, <1>3 DEF IsElement
  <1>5. ItemsOf(t, w) = File(t, w)[m].items
    BY DEF ItemsOf, m
  <1>6. IsStack(ItemsOf(t, w)) /\ Len(ItemsOf(t, w)) \in Nat /\ DOMAIN ItemsOf(t, w) = 1 .. Len(ItemsOf(t, w))
    BY <1>4, <1>5, ListIsStack, StackLen
  <1>7. Has(t, w)
    BY <1>1 DEF Has
  <1> QED
    BY <1>4, <1>5, <1>6, <1>7

LEMMA NodesAre ==
  ASSUME NEW w, LibraryOK(w), TypesOK(w), NEW key, SchemeOK(key, w)
  PROVE  /\ IsStack(NodesOf(key, w)) /\ Len(NodesOf(key, w)) \in Nat
         /\ DOMAIN NodesOf(key, w) = 1 .. Len(NodesOf(key, w))
         /\ \A i \in 1 .. Len(NodesOf(key, w)) : IsNode(NodesOf(key, w)[i])
  <1> DEFINE items == ItemsOf(key[1], w)
             m == Min(SchemesAt(items, key[2]))
  <1>1. key[1] \in DOMAIN w.types /\ w.types[key[1]].loading /\ m \in SchemesAt(items, key[2])
    BY DEF SchemeOK
  <1>2. DOMAIN items = 1 .. Len(items) /\ \A i \in 1 .. Len(items) : IsItem(items[i])
    BY <1>1, ItemsAre
  <1>3. NodesOf(key, w) = items[m].nodes
    BY DEF NodesOf
  <1> HIDE DEF m, items
  <1>4. m \in DOMAIN items /\ items[m].tag = "scheme"
    BY <1>1 DEF SchemesAt
  <1>5. IsList(items[m].nodes) /\ \A i \in DOMAIN items[m].nodes : IsNode(items[m].nodes[i])
    BY <1>2, <1>4 DEF IsItem
  <1>6. IsStack(NodesOf(key, w)) /\ Len(NodesOf(key, w)) \in Nat /\ DOMAIN NodesOf(key, w) = 1 .. Len(NodesOf(key, w))
    BY <1>3, <1>5, ListIsStack, StackLen
  <1> QED
    BY <1>3, <1>5, <1>6

-----------------------------------------------------------------------------
(* Schemes that stay as they are stay right.                               *)
LEMMA SchemeLater ==
  ASSUME NEW w, NEW v, Later(w, v), NEW key, SchemeOK(key, w), v.schemes[key] = w.schemes[key]
  PROVE  /\ SchemeOK(key, v) /\ NodesOf(key, v) = NodesOf(key, w)
         /\ \A p : NodesRead(key, p, w) => NodesRead(key, p, v)
  <1>1. key[1] \in DOMAIN w.types /\ w.types[key[1]].loading
    BY DEF SchemeOK
  <1>2. ItemsOf(key[1], v) = ItemsOf(key[1], w) /\ NodesOf(key, v) = NodesOf(key, w)
    BY <1>1, FilesLater
  <1>3. key[1] \in DOMAIN v.types /\ v.types[key[1]].loading
    BY <1>1 DEF Later
  <1>4. SchemeOK(key, v)
    BY <1>2, <1>3 DEF SchemeOK
  <1>5. \A p : NodesRead(key, p, w) => NodesRead(key, p, v)
    BY <1>1, NodesLater
  <1> QED
    BY <1>2, <1>4, <1>5

LEMMA SchemesLater ==
  ASSUME NEW w, NEW v, Later(w, v), NEW s, SchemesOK(s, w),
         \A key \in DOMAIN w.schemes : v.schemes[key] = w.schemes[key],
         \A key \in DOMAIN v.schemes : key \notin DOMAIN w.schemes =>
           SchemeOK(key, v) /\ \E k \in 1 .. Len(s) : s[k].do = "scheme" /\ s[k].of = key
  PROVE  SchemesOK(s, v)
  <1> SUFFICES ASSUME NEW key \in DOMAIN v.schemes
               PROVE  /\ SchemeOK(key, v)
                      /\ \/ NodesRead(key, Len(NodesOf(key, v)) + 1, v)
                         \/ \E k \in 1 .. Len(s) : s[k].do = "scheme" /\ s[k].of = key
    BY DEF SchemesOK
  <1>1. CASE key \in DOMAIN w.schemes
    <2>1. SchemeOK(key, w)
      BY <1>1 DEF SchemesOK
    <2>2. v.schemes[key] = w.schemes[key]
      BY <1>1
    <2>3. /\ SchemeOK(key, v) /\ NodesOf(key, v) = NodesOf(key, w)
          /\ \A p : NodesRead(key, p, w) => NodesRead(key, p, v)
      BY <2>1, <2>2, SchemeLater
    <2> QED
      BY <1>1, <2>3 DEF SchemesOK
  <1>2. CASE key \notin DOMAIN w.schemes
    BY <1>2
  <1> QED
    BY <1>1, <1>2

(* A scheme that was not there is one that is open only when it has links. *)
LEMMA OpenLater ==
  ASSUME NEW w, NEW v, Later(w, v),
         \A key \in DOMAIN v.schemes : Done(key[1], v) =>
           key \in DOMAIN w.schemes /\ v.schemes[key] = w.schemes[key] /\ Done(key[1], w)
  PROVE  \A p : Open(p, v) => Open(p, w)
  BY Zenon DEF Open, Place, LinkIn

-----------------------------------------------------------------------------
(* Only the marks of loadFileType change.                                  *)
SameReading(w, v) ==
  /\ v.lib = w.lib /\ v.schemes = w.schemes /\ DOMAIN v.types = DOMAIN w.types
  /\ \A t \in DOMAIN w.types :
       /\ "file" \in DOMAIN v.types[t] /\ TypeFields \subseteq DOMAIN v.types[t]
       /\ v.types[t].file = w.types[t].file /\ v.types[t].imports = w.types[t].imports
       /\ v.types[t].loading = w.types[t].loading /\ v.types[t].done = w.types[t].done
       /\ v.types[t].broken => w.types[t].broken \/ File(t, w) = Bad

LEMMA SameLoading ==
  ASSUME NEW w, NEW v, SameReading(w, v), LibraryOK(w), TypesOK(w),
         NEW s, NEW pt, NEW m, NEW ch, NEW us, Loading(s, pt, m, ch, us, w)
  PROVE  LibraryOK(v) /\ TypesOK(v) /\ Later(w, v) /\ Loading(s, pt, m, ch, us, v)
  <1>1. Later(w, v)
    BY DEF SameReading, Later
  <1>2. \A t \in DOMAIN w.types : File(t, v) = File(t, w)
    BY <1>1, FilesLater
  <1>3. TypesOK(v)
    BY <1>2 DEF TypesOK, SameReading
  <1>4. \A k \in 1 .. Len(s) : Undisturbed(s[k], w, v)
    BY DEF SameReading, Loading, StackData, FrameData, TypeFrame, Undisturbed
  <1>5. SchemesOK(s, v)
    <2>1. v.schemes = w.schemes
      BY DEF SameReading
    <2> QED
      BY <1>1, <2>1, SchemesLater DEF Loading
  <1>6. \A p : Open(p, v) => Open(p, w)
    BY <1>1, OpenLater DEF SameReading, Done
  <1>7. Loading(s, pt, m, ch, us, v)
    BY <1>1, <1>4, <1>5, <1>6, LoadingLater
  <1> QED
    BY <1>1, <1>3, <1>7 DEF LibraryOK, SameReading

LEMMA WorldIs ==
  /\ World.lib = lib /\ World.types = types /\ World.schemes = schemes
  /\ World'.lib = lib' /\ World'.types = types' /\ World'.schemes = schemes'
  BY DEF World

(* What holds while types are loaded.                                      *)
LoadInv ==
  /\ LibraryOK(World) /\ TypesOK(World)
  /\ Loading(stack, parseType, mode, structureChanged, updateStarted, World)

-----------------------------------------------------------------------------
(* The state as an action finds it.                                        *)
LEMMA LoadHas ==
  ASSUME LoadInv, stack # <<>>
  PROVE  /\ StackShape(stack) /\ IsStack(stack) /\ StackData(stack, World)
         /\ FrameShape(top) /\ FrameFields \subseteq DOMAIN top /\ FrameData(top, World)
         /\ top.do \in {"type", "scheme", "qualify", "links"} => below # <<>>
         /\ below # <<>> => /\ FrameShape(Last(below)) /\ PairShape(Last(below), top)
                            /\ FrameData(Last(below), World) /\ PairData(Last(below), top, World)
  <1>1. StackShape(stack) /\ StackData(stack, World)
    BY DEF LoadInv, Loading, Shape
  <1>2. IsStack(stack)
    BY <1>1 DEF StackShape
  <1> QED
    BY <1>1, <1>2, BelowIs, TopFrame DEF top, below, FrameShape

LEMMA WorldStays ==
  ASSUME LoadInv, lib' = lib, UNCHANGED <<types, schemes>>,
         Loading(stack', parseType', mode', structureChanged', updateStarted', World)
  PROVE  LoadInv'
  <1>1. World' = World
    BY DEF World
  <1> QED
    BY <1>1 DEF LoadInv

(* The links of a scheme are looked up in its type.                        *)
LEMMA LinksParseType ==
  ASSUME NEW s, NEW pt, NEW m, Shape(s, pt, m), s # <<>>, Last(s).do = "links", Last(s).rest # <<>>
  PROVE  pt = Head(Last(s).rest)[1][1]
  <1>1. Len(s) \in Nat /\ Len(s) \in 1..Len(s) /\ Last(s) = s[Len(s)]
    BY PoppedIs DEF Shape, StackShape
  <1>2. Len(s) < Len(s) + 1 /\ \A i \in 1..Len(s) : ~(Len(s) < i)
    BY <1>1
  <1>3. Innermost(s, Len(s), Len(s) + 1)
    BY <1>1, <1>2 DEF Innermost, Sets
  <1>4. pt = TypeOf(s[Len(s)])
    BY <1>1, <1>3 DEF Shape, ParseTypes
  <1> QED
    BY <1>1, <1>4 DEF TypeOf

(* The call that links goes on at the same place.                          *)
LEMMA LinksGoOn ==
  ASSUME NEW s, NEW pt, NEW m, NEW ch, NEW us, NEW w, Loading(s, pt, m, ch, us, w), s # <<>>,
         NEW f, FrameShape(f), f.do = "links", Last(s).do = "links", f.saved = Last(s).saved,
         f.outer = Last(s).outer, f.of = Last(s).of, f.rest = Last(s).rest, LinksFrame(f, w)
  PROVE  Loading(Append(Front(s), f), pt, m, ch, us, w)
  <1> DEFINE n == Append(Front(s), f)
  <1>0. /\ IsStack(n) /\ Len(s) \in Nat /\ Len(s) \in 1..Len(s) /\ Len(n) = Len(s)
        /\ n # <<>> /\ Last(n) = f /\ Front(n) = Front(s)
        /\ n[Len(s)] = f /\ Last(s) = s[Len(s)]
        /\ \A k \in 1..Len(s) : k # Len(s) => n[k] = s[k]
    BY PoppedIs, ReplacedIs DEF Loading, Shape, StackShape
  <1>1. Shape(n, pt, m)
    <2>1. f.rest # <<>> => pt = Head(f.rest)[1][1]
      BY LinksParseType DEF Loading
    <2> QED
      BY <2>1, ReplaceShape DEF Loading
  <1>2. StackData(n, w)
    BY ReplaceData DEF Loading, Shape, StackShape, FrameData, PairData
  <1> HIDE DEF n
  <1>3. TopData(n, w)
    BY <1>0, <1>1, TopCarried DEF Shape
  <1>5. \A k \in 1..Len(s) : n[k].do = s[k].do /\ n[k].of = s[k].of /\ n[k].rest = s[k].rest
    BY <1>0
  <1>6. SchemesOK(n, w)
    BY <1>0, <1>5, SchemesCarried DEF Loading
  <1>7. Linking(n, ch, w)
    BY <1>0, <1>5, CarriedLinking DEF Loading
  <1>8. Idle(n, us, w)
    BY <1>0, <1>5 DEF Loading, Idle, Reads
  <1> QED
    BY <1>1, <1>2, <1>3, <1>6, <1>7, <1>8 DEF Loading, n

-----------------------------------------------------------------------------
(* A name has been looked up.                                              *)
LEMMA InheritAsks ==
  ASSUME NEW w, LibraryOK(w), TypesOK(w), NEW s, SchemesOK(s, w), NEW g, SchemeFrame(g, w),
         g.rest # <<>>
  PROVE  IsNode(Head(g.rest))
  <1>1. SchemeOK(g.of, w)
    BY DEF SchemeFrame, SchemesOK
  <1>2. Len(NodesOf(g.of, w)) \in Nat /\ \A i \in 1 .. Len(NodesOf(g.of, w)) : IsNode(NodesOf(g.of, w)[i])
    BY <1>1, NodesAre
  <1>3. PICK p \in 1 .. Len(NodesOf(g.of, w)) + 1 : From(NodesOf(g.of, w), g.rest, p)
    BY DEF SchemeFrame
  <1>4. p \in 1 .. Len(NodesOf(g.of, w)) /\ Head(g.rest) = NodesOf(g.of, w)[p]
    BY <1>2, <1>3, FromNext
  <1> QED
    BY <1>2, <1>4

Given(g, r) == [g EXCEPT !.want = Tail(@), !.got = Append(@, r)]

LEMMA AnswerData ==
  ASSUME NEW w, LibraryOK(w), TypesOK(w), NEW s, SchemesOK(s, w), NEW g, FrameShape(g),
         FrameData(g, w), NEW q, q.do = "qualify", PairShape(g, q), NEW r,
         g.do = "scheme" /\ q.of.kind = "scheme" => Glimpsed(g.of[1], q.of, r, w),
         g.do = "links" /\ q.of.kind = "scheme" => Settled(Head(g.rest)[1][1], q.of, r, w)
  PROVE  /\ FrameShape(Given(g, r)) /\ FrameData(Given(g, r), w)
         /\ Given(g, r).do = g.do /\ Given(g, r).of = g.of /\ Given(g, r).rest = g.rest
         /\ Given(g, r).saved = g.saved /\ Given(g, r).outer = g.outer
  <1> DEFINE f == Given(g, r)
  <1>1. /\ FrameFields \subseteq DOMAIN f /\ f.do = g.do /\ f.of = g.of /\ f.rest = g.rest
        /\ f.saved = g.saved /\ f.outer = g.outer /\ f.asked = g.asked
        /\ f.want = Tail(g.want) /\ f.got = Append(g.got, r)
    BY DEF FrameShape, FrameFields, Given
  <1>2. g.want # <<>> /\ q.of = Head(g.want) /\ g.do \in {"lookup", "type", "scheme", "links"}
    BY DEF PairShape
  <1> HIDE DEF f
  <1>3. FrameShape(f)
    BY <1>1, <1>2 DEF FrameShape
  <1>4. FrameData(f, w)
    <2>1. CASE g.do = "lookup"
      BY <1>1, <2>1 DEF FrameData
    <2>2. CASE g.do = "type"
      BY <1>1, <2>2 DEF FrameData, TypeFrame
    <2>3. CASE g.do = "scheme"
      <3>1. SchemeFrame(g, w) /\ g.asked /\ g.rest # <<>>
        BY <1>2, <2>3 DEF FrameData, FrameShape
      <3>2. ASSUME Head(g.rest).tag = "inherit"
            PROVE  Asked(f, Head(f.rest).links[1], f.of[1], w)
        <4> DEFINE n == Head(g.rest).links[1]
        <4>1. IsNode(Head(g.rest))
          BY <3>1, InheritAsks
        <4>2. n.kind = "scheme"
          <5>1. IsList(Head(g.rest).links) /\ Head(g.rest).links # <<>>
            BY <3>2, <4>1 DEF IsNode
          <5>2. 1 \in DOMAIN Head(g.rest).links
            BY <5>1, ListIsStack, StackLen, TailIs
          <5> QED
            BY <4>1, <5>2 DEF IsNode
        <4> HIDE DEF n
        <4>3. g.want = <<n>> /\ g.got = <<>>
          BY <1>2, <3>1, <3>2 DEF SchemeFrame, Asked, n
        <4>4. q.of = n
          BY <1>2, <4>3
        <4>5. Glimpsed(g.of[1], n, r, w)
          BY <2>3, <4>2, <4>4
        <4>6. f.want = <<>> /\ f.got = <<r>>
          BY <1>1, <4>3
        <4>7. Len(f.got) = 1 /\ f.got[1] = r
          BY <4>6
        <4>8. Asked(f, n, g.of[1], w)
          BY <1>1, <3>1, <4>5, <4>6, <4>7 DEF Asked
        <4> QED
          BY <1>1, <4>8 DEF n
      <3>3. SchemeFrame(f, w)
        BY <1>1, <3>1, <3>2 DEF SchemeFrame
      <3> QED
        BY <1>1, <2>3, <3>3 DEF FrameData
    <2>4. CASE g.do = "links"
      <3> DEFINE p == Head(g.rest)
                 n == LinkIn(p, w).name
      <3>1. LinksFrame(g, w) /\ g.asked /\ g.rest # <<>>
        BY <1>2, <2>4 DEF FrameData, FrameShape
      <3> HIDE DEF p
      <3>2. Resolved(g, p, w)
        BY <3>1 DEF LinksFrame, p
      <3>3. g.want = <<n>> /\ g.got = <<>> /\ n.kind = "scheme" /\ Unlinked(LinkIn(p, w))
        BY <1>2, <3>1, <3>2 DEF Resolved
      <3> HIDE DEF n
      <3>4. q.of = n
        BY <1>2, <3>3
      <3>5. Settled(p[1][1], n, r, w)
        BY <2>4, <3>3, <3>4 DEF p
      <3>6. f.want = <<>> /\ f.got = <<r>>
        BY <1>1, <3>3
      <3>7. Len(f.got) = 1 /\ f.got[1] = r
        BY <3>6
      <3>8. Resolved(f, p, w)
        BY <1>1, <3>1, <3>3, <3>5, <3>6, <3>7 DEF Resolved, n
      <3>9. LinksFrame(f, w)
        BY <1>1, <3>1, <3>8 DEF LinksFrame, p
      <3> QED
        BY <1>1, <2>4, <3>9 DEF FrameData
    <2> QED
      BY <1>2, <2>1, <2>2, <2>3, <2>4
  <1> QED
    BY <1>1, <1>3, <1>4 DEF f

LEMMA AnswerLoads ==
  ASSUME LoadInv, lib' = lib, Running("qualify"), NEW r, Answer(r),
         UNCHANGED <<types, schemes, parseType, mode, structureChanged, updateStarted>>,
         top.of.kind = "scheme" =>
           /\ Last(below).do = "scheme" => Glimpsed(Last(below).of[1], top.of, r, World)
           /\ Last(below).do = "links" => Settled(Head(Last(below).rest)[1][1], top.of, r, World)
  PROVE  LoadInv'
  <1> DEFINE g == Last(below)
             f == Given(g, r)
  <1>1. stack # <<>> /\ top.do = "qualify"
    BY DEF Running
  <1>2. /\ below # <<>> /\ FrameShape(g) /\ PairShape(g, top) /\ FrameData(g, World)
    BY <1>1, LoadHas
  <1>3. LibraryOK(World) /\ TypesOK(World) /\ SchemesOK(stack, World)
        /\ Loading(stack, parseType, mode, structureChanged, updateStarted, World)
    BY DEF LoadInv, Loading
  <1>4. Loading(below, parseType, mode, structureChanged, updateStarted, World)
    BY <1>1, <1>3, LoadingReturns DEF top, below
  <1>a. /\ g.do = "scheme" /\ top.of.kind = "scheme" => Glimpsed(g.of[1], top.of, r, World)
        /\ g.do = "links" /\ top.of.kind = "scheme" =>
             Settled(Head(g.rest)[1][1], top.of, r, World)
    OBVIOUS
  <1>5. /\ FrameShape(f) /\ FrameData(f, World)
        /\ f.do = g.do /\ f.of = g.of /\ f.rest = g.rest /\ f.saved = g.saved
        /\ f.outer = g.outer
    <2> HIDE DEF g
    <2> QED
      BY ONLY <1>1, <1>2, <1>3, <1>a, AnswerData
  <1>6. stack' = Append(Front(below), f)
    BY DEF Answer, Given
  <1>7. g.do \in {"lookup", "type", "scheme", "links"}
    BY <1>1, <1>2 DEF PairShape
  <1> HIDE DEF f
  <1>8. Loading(stack', parseType, mode, structureChanged, updateStarted, World)
    <2>1. CASE g.do = "links"
      BY <1>2, <1>4, <1>5, <1>6, <2>1, LinksGoOn DEF FrameData
    <2>2. CASE g.do # "links"
      <3>1. f.do # "qualify" /\ f.do # "links"
        BY <1>5, <1>7, <2>2
      <3>2. PairData(Last(Front(below)), f, World)
        BY <3>1 DEF PairData
      <3> QED
        BY <1>2, <1>4, <1>5, <1>6, <3>1, <3>2, LoadingGoesOn
    <2> QED
      BY <2>1, <2>2
  <1> QED
    BY <1>8, WorldStays

-----------------------------------------------------------------------------
(* The candidates of a name.                                               *)
LEMMA CandidatesAre ==
  ASSUME NEW w, TypesOK(w), NEW t, t = None \/ t \in DOMAIN w.types, NEW n
  PROVE  /\ IsStack(CandidatesIn(t, n, w)) /\ Len(CandidatesIn(t, n, w)) \in Nat
         /\ t # None => \A i \in 1 .. Len(CandidatesIn(t, n, w)) :
                          Among(t, n, CandidatesIn(t, n, w)[i], w)
  <1> DEFINE c == CandidatesIn(t, n, w)
  <1>1. CASE n.type # None
    <2>1. c = <<n.type>> /\ Len(c) = 1 /\ c[1] = n.type /\ c \in Seq({n.type})
      BY <1>1 DEF CandidatesIn
    <2>2. \A i \in 1 .. 1 : i = 1
      OBVIOUS
    <2> HIDE DEF c
    <2>3. IsStack(c) /\ \A i \in 1 .. Len(c) : Among(t, n, c[i], w)
      BY <1>1, <2>1, <2>2 DEF Among, IsStack
    <2> QED
      BY <2>1, <2>3 DEF c
  <1>2. CASE n.type = None /\ t = None
    BY <1>2 DEF CandidatesIn, IsStack
  <1>3. CASE n.type = None /\ t # None
    <2> DEFINE im == w.types[t].imports
    <2>0. None \notin DOMAIN w.types
      BY LibraryAssumption DEF TypesOK
    <2>1. c = <<t>> \o im /\ t \in DOMAIN w.types
      BY <1>3, <2>0 DEF CandidatesIn
    <2>2. PICK S : im \in Seq(S)
      BY <2>1 DEF TypesOK, IsStack
    <2> HIDE DEF im
    <2>3. <<t>> \in Seq(S \cup {t}) /\ im \in Seq(S \cup {t})
      BY <2>2
    <2>4. /\ <<t>> \o im \in Seq(S \cup {t}) /\ Len(<<t>> \o im) = 1 + Len(im)
          /\ \A i \in 1 .. 1 + Len(im) : (<<t>> \o im)[i] = IF i <= 1 THEN <<t>>[i] ELSE im[i - 1]
      BY <2>3, ConcatProperties
    <2>5. ASSUME NEW i \in 1 .. Len(c)
          PROVE  Among(t, n, c[i], w)
      <3>1. Len(im) \in Nat /\ i \in 1 .. 1 + Len(im)
        BY <2>1, <2>2, <2>4
      <3>2. CASE i = 1
        <4>1. c[i] = t
          BY <2>1, <2>4, <3>1, <3>2
        <4> QED
          BY <1>3, <4>1 DEF Among
      <3>3. CASE i # 1
        <4>1. i - 1 \in 1 .. Len(im) /\ c[i] = im[i - 1] /\ DOMAIN im = 1 .. Len(im)
          BY <2>1, <2>2, <2>4, <3>1, <3>3
        <4> QED
          BY <1>3, <4>1 DEF Among, im
      <3> QED
        BY <3>2, <3>3
    <2> QED
      BY <2>1, <2>2, <2>4, <2>5 DEF IsStack
  <1> QED
    BY <1>1, <1>2, <1>3

(* parseType is the type that the names asked for are used in.             *)
LEMMA ParseTypeIs ==
  ASSUME LoadInv, ContextInv, stack # <<>>, top.do \in {"lookup", "type", "scheme", "links"},
         top.do = "links" => top.rest # <<>>
  PROVE  /\ parseType = None \/ parseType \in DOMAIN types
         /\ top.do = "scheme" => parseType = top.of[1] /\ parseType # None
         /\ top.do = "links" => parseType = Head(top.rest)[1][1] /\ Done(parseType, World)
  <1> DEFINE N == Len(stack)
  <1>1. /\ StackShape(stack) /\ N \in Nat /\ N \in 1..N /\ top = stack[N] /\ FrameData(top, World)
        /\ IsStack(stack)
    <2>1. StackShape(stack) /\ IsStack(stack) /\ FrameData(top, World)
      BY LoadHas
    <2> QED
      BY <2>1, PoppedIs DEF top
  <1> HIDE DEF N
  <1>2. ParseTypes(stack, parseType) /\ Shape(stack, parseType, mode)
    BY DEF LoadInv, Loading, Shape
  <1>3. /\ N < N + 1 /\ \A i \in 1..N : ~(N < i)
    BY <1>1
  <1>4. CASE top.do = "lookup"
    <2>1. N = 1
      <3>1. ASSUME N > 1 PROVE FALSE
        <4>1. N - 1 \in 1..N /\ N = (N - 1) + 1
          BY <1>1, <3>1
        <4> QED
          BY <1>1, <1>4, <4>1 DEF StackShape, PairShape, N
      <3> QED
        BY <1>1, <3>1
    <2>2. \A k \in 1..N : stack[k].do \notin OfType
      BY <1>1, <1>4, <2>1 DEF OfType
    <2>3. parseType = None
      BY <2>2 DEF ContextInv, Context, Restores, N
    <2> QED
      BY <1>4, <2>3
  <1>5. CASE top.do = "type"
    <2>1. Innermost(stack, N, N + 1)
      BY <1>1, <1>3, <1>5 DEF Innermost, Sets, N
    <2>2. parseType = TypeOf(stack[N])
      BY <1>1, <1>2, <2>1 DEF ParseTypes, N
    <2>3. top.of \in DOMAIN types
      BY <1>1, <1>5, WorldIs DEF FrameData, TypeFrame
    <2> QED
      BY <1>1, <1>5, <2>2, <2>3 DEF TypeOf
  <1>6. CASE top.do = "scheme"
    <2>1. N > 1
      BY <1>1, <1>6 DEF StackShape, N
    <2>2. N - 1 \in 1..N /\ N = (N - 1) + 1 /\ N - 1 < N + 1
          /\ \A i \in 1..N : N - 1 < i => i = N
      BY <1>1, <2>1
    <2>3. stack[N - 1].do = "type" /\ top.of[1] = stack[N - 1].of
      BY <1>1, <1>6, <2>2, Zenon DEF StackShape, PairShape, N
    <2>4. Innermost(stack, N - 1, N + 1)
      BY <1>1, <1>6, <2>2, <2>3, Zenon DEF Innermost, Sets, N
    <2>5. parseType = TypeOf(stack[N - 1])
      BY <2>2, <2>4, <1>2, Zenon DEF ParseTypes, N
    <2>6. parseType = top.of[1]
      BY <2>3, <2>5 DEF TypeOf
    <2>7. top.of[1] \in DOMAIN types
      BY <1>1, <1>6, WorldIs DEF FrameData, SchemeFrame
    <2>8. None \notin DOMAIN types
      BY LibraryAssumption, WorldIs DEF LoadInv, TypesOK
    <2> QED
      BY <1>6, <2>6, <2>7, <2>8
  <1>7. CASE top.do = "links"
    <2>1. LinksFrame(top, World) /\ top.rest # <<>>
      BY <1>1, <1>7 DEF FrameData
    <2>2. 1 \in 1 .. Len(top.rest) /\ Head(top.rest) = top.rest[1]
      BY <2>1, TailIs DEF LinksFrame
    <2>3. Done(Head(top.rest)[1][1], World)
      BY <2>1, <2>2 DEF LinksFrame
    <2>4. parseType = Head(top.rest)[1][1]
      BY <1>2, <1>7, <2>1, LinksParseType DEF top
    <2> QED
      BY <1>7, <2>3, <2>4, WorldIs DEF Done
  <1> QED
    BY <1>4, <1>5, <1>6, <1>7

LEMMA QualifyLoads == ASSUME LoadInv, ContextInv, lib' = lib, Qualify PROVE LoadInv'
  <1> DEFINE n == Head(top.want)
             c == CandidatesIn(parseType, n, World)
             f == Frame("qualify", n, c, None)
  <1>1. /\ stack # <<>> /\ top.want # <<>> /\ stack' = Append(stack, f)
        /\ UNCHANGED <<types, schemes, parseType, mode, structureChanged, updateStarted>>
    <2>1. Candidates(parseType, n) = c
      BY WorldIs DEF Candidates, CandidatesIn
    <2> QED
      BY <2>1 DEF Qualify, library
  <1>2. FrameShape(top) /\ FrameData(top, World) /\ StackShape(stack)
    BY <1>1, LoadHas
  <1>3. /\ top.do \in {"lookup", "type", "scheme", "links"}
        /\ top.do \in {"scheme", "links"} => top.rest # <<>>
    BY <1>1, <1>2 DEF FrameShape
  <1>4. /\ parseType = None \/ parseType \in DOMAIN types
        /\ top.do = "scheme" => parseType = top.of[1] /\ parseType # None
        /\ top.do = "links" => parseType = Head(top.rest)[1][1] /\ Done(parseType, World)
    BY <1>1, <1>3, ParseTypeIs
  <1>5. TypesOK(World) /\ Loading(stack, parseType, mode, structureChanged, updateStarted, World)
    BY DEF LoadInv
  <1>6. /\ IsStack(c) /\ Len(c) \in Nat
        /\ parseType # None => \A i \in 1 .. Len(c) : Among(parseType, n, c[i], World)
    BY <1>4, <1>5, WorldIs, CandidatesAre
  <1>7. /\ FrameFields \subseteq DOMAIN f /\ f.do = "qualify" /\ f.of = n /\ f.rest = c
        /\ ~f.asked /\ f.want = <<>>
    BY FrameIs
  <1> HIDE DEF f
  <1>8. FrameShape(f) /\ FrameData(f, World)
    BY <1>6, <1>7 DEF FrameShape, FrameData, CallKinds
  <1>9. PairShape(top, f)
    BY <1>1, <1>3, <1>7 DEF PairShape
  <1>10. PairData(top, f, World)
    <2>1. ASSUME top.do = "scheme"
          PROVE  \A i \in 1 .. Len(f.rest) : Among(top.of[1], f.of, f.rest[i], World)
      BY <1>4, <1>6, <1>7, <2>1
    <2>2. ASSUME top.do = "links"
          PROVE  LET from == CandidatesIn(Head(top.rest)[1][1], f.of, World)
                 IN  \E p \in 1 .. Len(from) + 1 :
                       From(from, f.rest, p) /\ NoneOf(from, f.of, p, World)
      <3>1. CandidatesIn(Head(top.rest)[1][1], f.of, World) = c
        BY <1>4, <1>7, <2>2
      <3>2. From(c, c, 1) /\ NoneOf(c, n, 1, World) /\ 1 \in 1 .. Len(c) + 1
        BY <1>6, FromStart DEF NoneOf
      <3> QED
        BY <1>7, <3>1, <3>2
    <2> QED
      BY <2>1, <2>2 DEF PairData
  <1>11. Loading(stack', parseType, mode, structureChanged, updateStarted, World)
    BY <1>1, <1>5, <1>7, <1>8, <1>9, <1>10, LoadingCalls DEF top
  <1> QED
    BY <1>1, <1>11, WorldStays

-----------------------------------------------------------------------------
(* A candidate does not know the name.                                     *)
LEMMA TailAmong ==
  ASSUME NEW f, IsStack(f.rest), f.rest # <<>>, FrameFields \subseteq DOMAIN f
  PROVE  /\ IsStack(Advance(f).rest)
         /\ \A i \in 1 .. Len(Advance(f).rest) :
              \E j \in 1 .. Len(f.rest) : Advance(f).rest[i] = f.rest[j]
  <1>1. Advance(f).rest = Tail(f.rest)
    BY AdvanceIs
  <1>2. /\ IsStack(Tail(f.rest))
        /\ \A i \in 1..Len(Tail(f.rest)) : i + 1 \in 1..Len(f.rest) /\ Tail(f.rest)[i] = f.rest[i + 1]
    BY TailIs
  <1> QED
    BY <1>1, <1>2

LEMMA PassLoads ==
  ASSUME LoadInv, lib' = lib, Running("qualify"), top.rest # <<>>,
         stack' = Append(below, Advance(top)),
         UNCHANGED <<types, schemes, parseType, mode, structureChanged, updateStarted>>,
         Last(below).do = "links" => Unknown(Head(top.rest), top.of, World)
  PROVE  LoadInv'
  <1> DEFINE g == Last(below)
             f == Advance(top)
  <1>1. stack # <<>> /\ top.do = "qualify"
    BY DEF Running
  <1>2. /\ below # <<>> /\ FrameShape(g) /\ PairShape(g, top) /\ FrameData(g, World)
        /\ FrameShape(top) /\ FrameData(top, World) /\ PairData(g, top, World)
    BY <1>1, LoadHas
  <1>3. TypesOK(World) /\ Loading(stack, parseType, mode, structureChanged, updateStarted, World)
    BY DEF LoadInv
  <1>4. /\ FrameFields \subseteq DOMAIN f /\ f.do = top.do /\ f.of = top.of /\ f.saved = top.saved
        /\ f.outer = top.outer /\ f.want = top.want /\ f.rest = Tail(top.rest) /\ ~f.asked
    BY <1>2, AdvanceIs DEF FrameShape
  <1>5. top.want = <<>> /\ IsStack(top.rest)
    BY <1>1, <1>2 DEF FrameShape, FrameData
  <1>6. /\ IsStack(f.rest)
        /\ \A i \in 1 .. Len(f.rest) : \E j \in 1 .. Len(top.rest) : f.rest[i] = top.rest[j]
    BY <1>2, <1>5, TailAmong DEF FrameShape
  <1>a. stack' = Append(Front(stack), f)
    BY DEF below
  <1> HIDE DEF f
  <1>7. FrameShape(f) /\ FrameData(f, World)
    BY <1>1, <1>4, <1>5, <1>6 DEF FrameShape, FrameData, CallKinds
  <1>8. PairData(g, f, World)
    <2>1. ASSUME g.do = "scheme"
          PROVE  \A i \in 1 .. Len(f.rest) : Among(g.of[1], f.of, f.rest[i], World)
      BY <1>1, <1>2, <1>4, <1>6, <2>1 DEF PairData
    <2>2. ASSUME g.do = "links"
          PROVE  LET from == CandidatesIn(Head(g.rest)[1][1], f.of, World)
                 IN  \E p \in 1 .. Len(from) + 1 :
                       From(from, f.rest, p) /\ NoneOf(from, f.of, p, World)
      <3> DEFINE from == CandidatesIn(Head(g.rest)[1][1], f.of, World)
      <3>1. PICK p \in 1 .. Len(from) + 1 : From(from, top.rest, p) /\ NoneOf(from, f.of, p, World)
        BY <1>1, <1>2, <1>4, <2>2 DEF PairData
      <3>2. Done(Head(g.rest)[1][1], World)
        <4>1. g.rest # <<>> /\ LinksFrame(g, World)
          BY <1>1, <1>2, <2>2 DEF FrameShape, PairShape, FrameData
        <4>2. 1 \in 1 .. Len(g.rest) /\ Head(g.rest) = g.rest[1]
          BY <4>1, TailIs DEF LinksFrame
        <4> QED
          BY <4>1, <4>2 DEF LinksFrame
      <3>3. Len(from) \in Nat
        BY <1>3, <3>2, CandidatesAre DEF Done
      <3> HIDE DEF from
      <3>4. /\ p \in 1 .. Len(from) /\ p \in Nat /\ Head(top.rest) = from[p]
            /\ p + 1 \in 1 .. Len(from) + 1 /\ From(from, f.rest, p + 1)
            /\ \A q \in 1 .. (p + 1) - 1 : q \in 1 .. p - 1 \/ q = p
        BY <1>4, <3>1, <3>3, FromNext
      <3>5. Unknown(from[p], f.of, World)
        BY <1>4, <2>2, <3>4
      <3>6. NoneOf(from, f.of, p + 1, World)
        BY <3>1, <3>4, <3>5 DEF NoneOf
      <3> QED
        BY <3>4, <3>6 DEF from
    <2> QED
      BY <2>1, <2>2 DEF PairData
  <1>9. LoadedTop(f, World)
    BY <1>4 DEF LoadedTop
  <1>10. Loading(stack', parseType, mode, structureChanged, updateStarted, World)
    BY <1>1, <1>3, <1>4, <1>7, <1>8, <1>9, <1>a, LoadingGoesOn DEF top, below
  <1> QED
    BY <1>10, WorldStays

LEMMA NotFoundLoads == ASSUME LoadInv, lib' = lib, NotFound PROVE LoadInv'
  <1> DEFINE g == Last(below)
  <1>1. /\ Running("qualify") /\ stack # <<>> /\ top.do = "qualify"
        /\ UNCHANGED <<types, schemes, parseType, mode, structureChanged, updateStarted>>
    BY DEF NotFound, Running, library
  <1>2. /\ FrameShape(g) /\ PairShape(g, top) /\ FrameData(g, World) /\ PairData(g, top, World)
    BY <1>1, LoadHas
  <1>3. CASE top.rest = <<>> /\ Answer(None)
    <2>1. Glimpsed(Last(below).of[1], top.of, None, World)
      BY DEF Glimpsed
    <2>2. ASSUME g.do = "links"
          PROVE  Settled(Head(g.rest)[1][1], top.of, None, World)
      <3> DEFINE from == CandidatesIn(Head(g.rest)[1][1], top.of, World)
      <3>1. PICK p \in 1 .. Len(from) + 1 : From(from, top.rest, p) /\ NoneOf(from, top.of, p, World)
        BY <1>1, <1>2, <2>2 DEF PairData
      <3>2. Done(Head(g.rest)[1][1], World)
        <4>1. g.rest # <<>> /\ LinksFrame(g, World)
          BY <1>1, <1>2, <2>2 DEF FrameShape, PairShape, FrameData
        <4>2. 1 \in 1 .. Len(g.rest) /\ Head(g.rest) = g.rest[1]
          BY <4>1, TailIs DEF LinksFrame
        <4> QED
          BY <4>1, <4>2 DEF LinksFrame
      <3>3. Len(from) \in Nat
        BY <3>2, CandidatesAre DEF Done, LoadInv
      <3>4. p = Len(from) + 1
        BY <1>3, <3>1, <3>3, FromEnd
      <3> QED
        BY <3>1, <3>4 DEF Settled
    <2> QED
      BY <1>1, <1>3, <2>1, <2>2, AnswerLoads
  <1>4. CASE top.rest # <<>> /\ Head(top.rest) \notin DOMAIN types
             /\ stack' = Append(below, Advance(top))
    <2>1. Unknown(Head(top.rest), top.of, World)
      <3>1. \A key \in DOMAIN World.schemes : key[1] \in DOMAIN World.types
        BY DEF LoadInv, Loading, SchemesOK, SchemeOK
      <3>2. <<Head(top.rest), top.of.name>>[1] = Head(top.rest)
        OBVIOUS
      <3>3. <<Head(top.rest), top.of.name>> \notin DOMAIN World.schemes
        BY <1>4, <3>1, <3>2, WorldIs
      <3> QED
        BY <1>4, <3>3, WorldIs DEF Unknown, Final, Has
    <2> QED
      BY <1>1, <1>4, <2>1, PassLoads
  <1> QED
    BY <1>3, <1>4 DEF NotFound

-----------------------------------------------------------------------------
(* A call goes on with its next element, or returns.                       *)
LEMMA AdvanceShape ==
  ASSUME NEW f, FrameShape(f), f.want = <<>>
  PROVE  FrameShape(Advance(f))
  BY AdvanceIs DEF FrameShape

LEMMA GoesOnLoads ==
  ASSUME LoadInv, lib' = lib, stack # <<>>, top.do \in {"hrc", "type", "scheme"},
         NEW w, LibraryOK(w), TypesOK(w), World' = w,
         Loading(stack, parseType, mode, structureChanged, updateStarted, w),
         UNCHANGED <<parseType, mode, structureChanged, updateStarted>>,
         NEW f, stack' = Append(below, f), FrameShape(f), f.do = top.do, f.saved = top.saved,
         f.outer = top.outer, f.of = top.of, FrameData(f, w)
  PROVE  LoadInv'
  <1>1. f.do # "qualify" /\ f.do # "links"
    OBVIOUS
  <1>2. PairData(Last(Front(stack)), f, w)
    BY <1>1 DEF PairData
  <1>3. Loading(stack', parseType, mode, structureChanged, updateStarted, w)
    BY <1>1, <1>2, LoadingGoesOn DEF top, below
  <1>4. LibraryOK(World') /\ TypesOK(World') /\
        Loading(stack', parseType', mode', structureChanged', updateStarted', World')
    BY <1>3
  <1> QED
    BY <1>4 DEF LoadInv

LEMMA AsksLoads == ASSUME LoadInv, lib' = lib, Asks PROVE LoadInv'
  <1> DEFINE f == [top EXCEPT !.asked = TRUE, !.want = Early(Head(top.rest))]
  <1>1. /\ stack # <<>> /\ top.do \in {"type", "scheme"} /\ top.rest # <<>> /\ ~top.asked
        /\ stack' = Append(below, f)
        /\ UNCHANGED <<types, schemes, parseType, mode, structureChanged, updateStarted>>
    BY DEF Asks, Running, library
  <1>2. FrameShape(top) /\ FrameData(top, World)
    BY <1>1, LoadHas
  <1>3. /\ FrameFields \subseteq DOMAIN f /\ f.do = top.do /\ f.of = top.of /\ f.rest = top.rest
        /\ f.saved = top.saved /\ f.outer = top.outer /\ f.got = top.got
        /\ f.asked /\ f.want = Early(Head(top.rest))
    BY <1>2 DEF FrameShape, FrameFields
  <1>4. LibraryOK(World) /\ TypesOK(World) /\ SchemesOK(stack, World)
        /\ Loading(stack, parseType, mode, structureChanged, updateStarted, World)
    BY DEF LoadInv, Loading
  <1> HIDE DEF f
  <1>5. FrameShape(f)
    BY <1>1, <1>2, <1>3 DEF FrameShape
  <1>6. FrameData(f, World)
    <2>1. CASE top.do = "type"
      BY <1>2, <1>3, <2>1 DEF FrameData, TypeFrame
    <2>2. CASE top.do = "scheme"
      <3>1. SchemeFrame(top, World)
        BY <1>2, <2>2 DEF FrameData
      <3>2. ASSUME Head(top.rest).tag = "inherit"
            PROVE  Asked(f, Head(f.rest).links[1], f.of[1], World)
        <4>1. IsNode(Head(top.rest))
          BY <1>1, <1>4, <3>1, InheritAsks
        <4>2. f.want = <<Head(top.rest).links[1]>>
          BY <1>3, <3>2, <4>1 DEF Early, IsNode
        <4>3. f.got = <<>>
          BY <1>1, <1>3, <3>1, <3>2 DEF SchemeFrame, Asked
        <4> QED
          BY <1>3, <4>2, <4>3 DEF Asked
      <3>3. SchemeFrame(f, World)
        BY <1>3, <3>1, <3>2 DEF SchemeFrame
      <3> QED
        BY <1>3, <2>2, <3>3 DEF FrameData
    <2> QED
      BY <1>1, <2>1, <2>2
  <1>7. World' = World
    BY <1>1 DEF World
  <1> QED
    BY <1>1, <1>3, <1>4, <1>5, <1>6, <1>7, GoesOnLoads

LEMMA EndSchemeLoads == ASSUME LoadInv, lib' = lib, EndScheme \/ EndLookup PROVE LoadInv'
  <1>1. /\ stack # <<>> /\ stack' = Front(stack)
        /\ \/ Last(stack).do = "scheme" /\ Last(stack).rest = <<>>
           \/ Last(stack).do = "lookup"
        /\ UNCHANGED <<types, schemes, parseType, mode, structureChanged, updateStarted>>
    BY DEF EndScheme, EndLookup, Running, library, top, below
  <1>2. /\ Loading(stack, parseType, mode, structureChanged, updateStarted, World)
        /\ LibraryOK(World) /\ TypesOK(World) /\ SchemesOK(stack, World)
    BY DEF LoadInv, Loading
  <1>3. ASSUME Last(stack).do = "scheme"
        PROVE  NodesRead(Last(stack).of, Len(NodesOf(Last(stack).of, World)) + 1, World)
    <2> DEFINE key == Last(stack).of
               all == NodesOf(key, World)
    <2>1. SchemeFrame(Last(stack), World) /\ Last(stack).rest = <<>>
      BY <1>1, <1>3, LoadHas DEF top, FrameData
    <2>2. SchemeOK(key, World)
      BY <1>2, <2>1 DEF SchemeFrame, SchemesOK
    <2>3. Len(all) \in Nat
      BY <1>2, <2>2, NodesAre
    <2>4. PICK p \in 1 .. Len(all) + 1 : From(all, <<>>, p) /\ NodesRead(key, p, World)
      BY <2>1 DEF SchemeFrame
    <2>5. p = Len(all) + 1
      BY <2>3, <2>4, FromEnd
    <2> QED
      BY <2>4, <2>5
  <1>4. Loading(stack', parseType, mode, structureChanged, updateStarted, World)
    BY <1>1, <1>2, <1>3, LoadingReturns
  <1> QED
    BY <1>1, <1>4, WorldStays

-----------------------------------------------------------------------------
(* A type ends, or begins.                                                 *)
OnlyDone(ts, us, t) ==
  /\ DOMAIN us = DOMAIN ts /\ \A u \in DOMAIN ts : u # t => us[u] = ts[u]
  /\ us[t].file = ts[t].file /\ us[t].loading = ts[t].loading
  /\ us[t].imports = ts[t].imports /\ us[t].broken = ts[t].broken
  /\ us[t].done /\ DOMAIN us[t] = DOMAIN ts[t]

LEMMA DoneIs ==
  ASSUME NEW ts, NEW t \in DOMAIN ts, TypeFields \subseteq DOMAIN ts[t],
         "file" \in DOMAIN ts[t], NEW b
  PROVE  OnlyDone(ts, [ts EXCEPT ![t].done = TRUE, ![t].base = b], t)
  BY DEF TypeFields, OnlyDone

LEMMA EndTypeLoads == ASSUME LoadInv, lib' = lib, EndType PROVE LoadInv'
  <1> DEFINE t == top.of
             w == World
             v == World'
  <1>1. /\ stack # <<>> /\ top.do = "type" /\ stack' = below /\ parseType' = top.saved
        /\ UNCHANGED <<schemes, mode, structureChanged, updateStarted>>
        /\ \E b : types' = [types EXCEPT ![t].done = TRUE, ![t].base = b]
    BY DEF EndType, Running
  <1>2. /\ Loading(stack, parseType, mode, structureChanged, updateStarted, w)
        /\ LibraryOK(w) /\ TypesOK(w) /\ StackShape(stack) /\ IsStack(stack)
    BY <1>1, LoadHas DEF LoadInv
  <1>3. /\ FrameData(top, w) /\ below # <<>> /\ PairShape(Last(below), top)
    BY <1>1, LoadHas
  <1>4. t \in DOMAIN types /\ types[t].loading /\ ~types[t].done
    BY <1>1, <1>3, WorldIs DEF FrameData, TypeFrame
  <1>5. Loading(below, top.saved, mode, structureChanged, updateStarted, w)
    BY <1>1, <1>2, LoadingReturns DEF top, below
  <1>6. /\ DOMAIN types' = DOMAIN types
        /\ \A u \in DOMAIN types : u # t => types'[u] = types[u]
        /\ types'[t].file = types[t].file /\ types'[t].loading = types[t].loading
        /\ types'[t].imports = types[t].imports /\ types'[t].broken = types[t].broken
        /\ types'[t].done /\ DOMAIN types'[t] = DOMAIN types[t]
    <2>1. TypeFields \subseteq DOMAIN types[t] /\ "file" \in DOMAIN types[t]
      BY <1>2, <1>4, WorldIs DEF TypesOK
    <2>2. PICK b : types' = [types EXCEPT ![t].done = TRUE, ![t].base = b]
      BY <1>1
    <2>3. t \in DOMAIN types
      BY <1>4
    <2>4. OnlyDone(types, types', t)
      BY <2>1, <2>2, <2>3, DoneIs, Zenon
    <2> QED
      BY <2>4 DEF OnlyDone
  <1>7. Later(w, v)
    BY <1>1, <1>4, <1>6, WorldIs DEF Later
  <1>8. TypesOK(v)
    <2>1. \A u \in DOMAIN types : File(u, v) = File(u, w)
      BY <1>7, FilesLater, WorldIs
    <2>2. ASSUME NEW u \in DOMAIN types
          PROVE  /\ DOMAIN types'[u] = DOMAIN types[u] /\ types'[u].file = types[u].file
                 /\ types'[u].imports = types[u].imports /\ types'[u].broken = types[u].broken
                 /\ types'[u].loading = types[u].loading
                 /\ types'[u].done => types[u].loading
      BY <1>2, <1>4, <1>6, WorldIs DEF TypesOK
    <2> QED
      BY <1>1, <1>2, <1>6, <2>1, <2>2, WorldIs DEF TypesOK
  <1>9. \A k \in 1 .. Len(below) : Undisturbed(below[k], w, v)
    <2>1. /\ Len(stack) \in Nat /\ Len(stack) \in 1..Len(stack) /\ top = stack[Len(stack)]
          /\ \A k \in 1..Len(below) : k \in 1..Len(stack) /\ k < Len(stack) /\ below[k] = stack[k]
      BY <1>1, <1>2, PoppedIs DEF top, below
    <2>2. ASSUME NEW k \in 1..Len(below), below[k].do = "type"
          PROVE  ~v.types[below[k].of].done
      <3>1. FrameData(stack[k], w)
        BY <1>2, <2>1 DEF Loading, StackData
      <3>2. below[k].of # t
        BY <1>1, <1>2, <2>1, <2>2 DEF StackShape
      <3> QED
        BY <1>6, <2>1, <2>2, <3>1, <3>2, WorldIs DEF FrameData, TypeFrame
    <2> QED
      BY <1>1, <2>2, WorldIs DEF Undisturbed
  <1>10. SchemesOK(below, v)
    BY <1>1, <1>5, <1>7, SchemesLater, WorldIs DEF Loading
  <1>11. Last(below).do = "hrc"
    BY <1>1, <1>3 DEF PairShape
  <1> HIDE DEF v
  <1>12. Loading(below, top.saved, mode, structureChanged, updateStarted, v)
    BY <1>3, <1>5, <1>7, <1>9, <1>10, <1>11, LoadingLater
  <1>13. LibraryOK(v)
    BY <1>2, <1>7 DEF LibraryOK, Later
  <1> QED
    BY <1>1, <1>8, <1>12, <1>13 DEF LoadInv, v

(* The element of a file that is read next.                                *)
LEMMA ElementIs ==
  ASSUME NEW w, LibraryOK(w), TypesOK(w), NEW f, HrcFrame(f, w), f.rest # <<>>
  PROVE  \E p \in 1 .. Len(File(f.of, w)) :
           /\ f.of \in DOMAIN w.types /\ w.types[f.of].file \in Contents(w.lib)
           /\ p \in Nat /\ DOMAIN File(f.of, w) = 1 .. Len(File(f.of, w))
           /\ Head(f.rest) = File(f.of, w)[p] /\ IsElement(w.lib, Head(f.rest))
           /\ p + 1 \in 1 .. Len(File(f.of, w)) + 1 /\ From(File(f.of, w), Tail(f.rest), p + 1)
           /\ \A q \in 1 .. (p + 1) - 1 : q \in 1 .. p - 1 \/ q = p
           /\ \A q \in 1 .. p - 1 :
                LET e == File(f.of, w)[q]
                IN  e.tag = "type" /\ e.type \in DOMAIN w.types => w.types[e.type].loading
  <1> DEFINE file == File(f.of, w)
  <1>1. /\ w.types[f.of].file \in Contents(w.lib) /\ DOMAIN file = 1 .. Len(file)
        /\ Len(file) \in Nat /\ \A i \in 1 .. Len(file) : IsElement(w.lib, file[i])
        /\ f.of \in DOMAIN w.types
    BY FileIs DEF HrcFrame
  <1>2. PICK p \in 1 .. Len(file) + 1 :
          /\ From(file, f.rest, p)
          /\ \A q \in 1 .. p - 1 :
               file[q].tag = "type" /\ file[q].type \in DOMAIN w.types => w.types[file[q].type].loading
    BY DEF HrcFrame
  <1> HIDE DEF file
  <1>3. /\ p \in 1 .. Len(file) /\ p \in Nat /\ Head(f.rest) = file[p]
        /\ p + 1 \in 1 .. Len(file) + 1 /\ From(file, Tail(f.rest), p + 1)
        /\ \A q \in 1 .. (p + 1) - 1 : q \in 1 .. p - 1 \/ q = p
    BY <1>1, <1>2, FromNext
  <1>4. IsElement(w.lib, file[p])
    BY <1>1, <1>3
  <1> QED
    BY <1>1, <1>2, <1>3, <1>4 DEF file

(* It is passed, if it is no type that has to be read.                     *)
LEMMA HrcPasses ==
  ASSUME NEW w, LibraryOK(w), TypesOK(w), NEW f, HrcFrame(f, w), f.rest # <<>>, FrameShape(f),
         NEW v, Later(w, v),
         Head(f.rest).tag = "type" /\ Head(f.rest).type \in DOMAIN w.types =>
           v.types[Head(f.rest).type].loading
  PROVE  HrcFrame(Advance(f), v)
  <1> DEFINE n == Advance(f)
             file == File(f.of, w)
  <1>1. n.of = f.of /\ n.rest = Tail(f.rest)
    BY AdvanceIs DEF FrameShape
  <1>2. f.of \in DOMAIN w.types /\ file # Bad
    BY DEF HrcFrame
  <1>3. File(f.of, v) = file /\ DOMAIN v.types = DOMAIN w.types
    BY <1>2, FilesLater DEF Later
  <1>4. PICK p \in 1 .. Len(file) :
           /\ Head(f.rest) = file[p]
           /\ p + 1 \in 1 .. Len(file) + 1 /\ From(file, Tail(f.rest), p + 1)
           /\ \A q \in 1 .. (p + 1) - 1 : q \in 1 .. p - 1 \/ q = p
           /\ \A q \in 1 .. p - 1 :
               file[q].tag = "type" /\ file[q].type \in DOMAIN w.types => w.types[file[q].type].loading
    BY ElementIs
  <1> HIDE DEF n, file
  <1>5. ASSUME NEW q \in 1 .. (p + 1) - 1, file[q].tag = "type", file[q].type \in DOMAIN v.types
        PROVE  v.types[file[q].type].loading
    <2>1. CASE q = p
      BY <1>3, <1>4, <1>5, <2>1
    <2>2. CASE q \in 1 .. p - 1
      BY <1>3, <1>4, <1>5, <2>2 DEF Later
    <2> QED
      BY <1>4, <2>1, <2>2
  <1>6. HrcFrame(n, v)
    BY <1>1, <1>2, <1>3, <1>4, <1>5 DEF HrcFrame
  <1> QED
    BY <1>6 DEF n

-----------------------------------------------------------------------------
LEMMA AddPrototypeLoads == ASSUME LoadInv, lib' = lib, AddPrototype PROVE LoadInv'
  <1>1. stack # <<>> /\ top.do = "hrc" /\ top.rest # <<>> /\ Head(top.rest).tag = "prototype"
    BY DEF AddPrototype, Running
  <1>2. /\ FrameShape(top) /\ FrameData(top, World) /\ StackShape(stack) /\ IsStack(stack)
        /\ LibraryOK(World) /\ TypesOK(World)
        /\ Loading(stack, parseType, mode, structureChanged, updateStarted, World)
    BY <1>1, LoadHas DEF LoadInv
  <1>3. HrcFrame(top, World)
    BY <1>1, <1>2 DEF FrameData
  <1>4. mode = "TYPE"
    <2>1. Len(stack) \in 1..Len(stack) /\ top = stack[Len(stack)]
      BY <1>1, <1>2, PoppedIs DEF top
    <2> QED
      BY <1>1, <1>2, <2>1 DEF Loading, Shape, Modes
  <1>5. Head(top.rest).global
    <2> DEFINE f == World.types[top.of].file
    <2>1. PICK p \in 1 .. Len(File(top.of, World)) :
            /\ f \in Contents(World.lib) /\ DOMAIN File(top.of, World) = 1 .. Len(File(top.of, World))
            /\ Head(top.rest) = File(top.of, World)[p]
      BY <1>1, <1>2, <1>3, ElementIs
    <2>2. File(top.of, World) = World.lib.files[f]
      BY DEF File
    <2> QED
      BY <1>1, <1>2, <2>1, <2>2 DEF LibraryOK, Tidy
  <1>6. /\ stack' = Append(below, Advance(top))
        /\ UNCHANGED <<types, schemes, parseType, mode, structureChanged, updateStarted>>
    BY <1>4, <1>5 DEF AddPrototype, Skipped
  <1>7. Later(World, World)
    BY <1>2 DEF Later
  <1>8. HrcFrame(Advance(top), World)
    BY <1>1, <1>2, <1>3, <1>7, HrcPasses
  <1>9. /\ FrameShape(Advance(top)) /\ Advance(top).do = top.do /\ Advance(top).of = top.of
        /\ Advance(top).saved = top.saved /\ Advance(top).outer = top.outer
    <2>1. top.want = <<>>
      BY <1>1, <1>2 DEF FrameShape
    <2> QED
      BY <1>2, <2>1, AdvanceShape, AdvanceIs DEF FrameShape
  <1>10. FrameData(Advance(top), World)
    BY <1>1, <1>8, <1>9 DEF FrameData
  <1>11. World' = World
    BY <1>6 DEF World
  <1> QED
    BY <1>1, <1>2, <1>6, <1>9, <1>10, <1>11, GoesOnLoads

-----------------------------------------------------------------------------
(* A type begins: it is the first of its name in its file.                 *)
LEMMA TypeBegins ==
  ASSUME NEW w, LibraryOK(w), TypesOK(w), NEW f, HrcFrame(f, w), f.rest # <<>>,
         NEW t \in DOMAIN w.types, Head(f.rest).tag = "type", Head(f.rest).type = t,
         ~w.types[t].loading
  PROVE  /\ File(t, w) # Bad /\ Min(TypesAt(File(t, w), t)) \in TypesAt(File(t, w), t)
         /\ ItemsOf(t, w) = Head(f.rest).items /\ IsStack(Head(f.rest).items)
  <1> DEFINE file == File(f.of, w)
  <1>1. PICK p \in 1 .. Len(file) :
           /\ f.of \in DOMAIN w.types /\ w.types[f.of].file \in Contents(w.lib)
           /\ p \in Nat /\ DOMAIN file = 1 .. Len(file)
           /\ Head(f.rest) = file[p] /\ IsElement(w.lib, Head(f.rest))
           /\ \A q \in 1 .. p - 1 :
               file[q].tag = "type" /\ file[q].type \in DOMAIN w.types => w.types[file[q].type].loading
    BY ElementIs
  <1>2. File(t, w) = file /\ file # Bad
    <2> DEFINE h == w.types[f.of].file
    <2>1. file = w.lib.files[h]
      BY DEF File
    <2>a. /\ h \in Contents(w.lib) /\ p \in DOMAIN w.lib.files[h]
          /\ w.lib.files[h][p].tag = "type" /\ w.lib.files[h][p].type = t
      BY <1>1, <2>1, Zenon
    <2> HIDE DEF h
    <2>b. \A g \in Contents(w.lib) : \A i \in DOMAIN w.lib.files[g] :
            w.lib.files[g][i].tag = "type" /\ w.lib.files[g][i].type = t => g = w.types[t].file
      BY DEF TypesOK
    <2>2. h = w.types[t].file
      BY <2>a, <2>b
    <2> QED
      BY <2>1, <2>2, Zenon DEF File, HrcFrame
  <1> HIDE DEF file
  <1> DEFINE S == TypesAt(file, t)
  <1>3. p \in S /\ S \subseteq 1 .. Len(file) /\ S \subseteq Nat
    BY <1>1 DEF TypesAt
  <1>4. ASSUME NEW q \in S PROVE p <= q
    <2>1. q \in Nat /\ q \in 1 .. Len(file) /\ file[q].tag = "type" /\ file[q].type = t
      BY <1>3 DEF TypesAt
    <2>2. ~(q \in 1 .. p - 1)
      BY <1>1, <2>1
    <2> QED
      BY <1>1, <2>1, <2>2
  <1>5. Min(S) = p
    <2> HIDE DEF S
    <2> QED
      BY <1>3, <1>4, LeastIs
  <1>6. ItemsOf(t, w) = Head(f.rest).items
    BY <1>1, <1>2, <1>5 DEF ItemsOf
  <1>7. IsStack(Head(f.rest).items)
    BY <1>1, ListIsStack DEF IsElement
  <1> QED
    BY <1>2, <1>3, <1>5, <1>6, <1>7

OnlyLoading(ts, us, t) ==
  /\ DOMAIN us = DOMAIN ts /\ \A u \in DOMAIN ts : u # t => us[u] = ts[u]
  /\ us[t].file = ts[t].file /\ us[t].done = ts[t].done
  /\ us[t].imports = ts[t].imports /\ us[t].broken = ts[t].broken
  /\ us[t].loading /\ DOMAIN us[t] = DOMAIN ts[t]

LEMMA LoadingIs ==
  ASSUME NEW ts, NEW t \in DOMAIN ts, TypeFields \subseteq DOMAIN ts[t], "file" \in DOMAIN ts[t]
  PROVE  OnlyLoading(ts, [ts EXCEPT ![t].loading = TRUE], t)
  BY DEF TypeFields, OnlyLoading

LEMMA AddTypeLoads == ASSUME LoadInv, lib' = lib, AddType PROVE LoadInv'
  <1> DEFINE elem == Head(top.rest)
             t == elem.type
             w == World
             g == Advance(top)
  <1>1. stack # <<>> /\ top.do = "hrc" /\ top.rest # <<>> /\ elem.tag = "type"
        /\ UNCHANGED <<schemes, mode, structureChanged, updateStarted>>
    BY DEF AddType, Running
  <1>2. /\ FrameShape(top) /\ FrameData(top, w) /\ StackShape(stack) /\ IsStack(stack)
        /\ LibraryOK(w) /\ TypesOK(w)
        /\ Loading(stack, parseType, mode, structureChanged, updateStarted, w)
    BY <1>1, LoadHas DEF LoadInv
  <1>3. HrcFrame(top, w)
    BY <1>1, <1>2 DEF FrameData
  <1>4. mode = "TYPE"
    <2>1. Len(stack) \in 1..Len(stack) /\ top = stack[Len(stack)]
      BY <1>1, <1>2, PoppedIs DEF top
    <2> QED
      BY <1>1, <1>2, <2>1 DEF Loading, Shape, Modes
  <1>5. /\ FrameShape(g) /\ g.do = top.do /\ g.of = top.of
        /\ g.saved = top.saved /\ g.outer = top.outer
    <2>1. top.want = <<>>
      BY <1>1, <1>2 DEF FrameShape
    <2> QED
      BY <1>2, <2>1, AdvanceShape, AdvanceIs DEF FrameShape
  <1>6. CASE t \notin DOMAIN types \/ types[t].loading
    <2>1. stack' = Append(below, g) /\ UNCHANGED <<types, parseType>>
      BY <1>6 DEF AddType
    <2>2. World' = w
      BY <1>1, <2>1 DEF World
    <2>3. Later(w, w)
      BY <1>2 DEF Later
    <2>4. HrcFrame(g, w)
      BY <1>1, <1>2, <1>3, <1>6, <2>3, HrcPasses, WorldIs
    <2>5. FrameData(g, w)
      BY <1>1, <2>4, <1>5 DEF FrameData
    <2> HIDE DEF g
    <2> QED
      BY <1>1, <1>2, <1>5, <2>1, <2>2, <2>5, GoesOnLoads
  <1>7. CASE t \in DOMAIN types /\ ~types[t].loading
    <2> DEFINE v == World'
               e == Frame("type", t, elem.items, parseType)
    <2>1. /\ types' = [types EXCEPT ![t].loading = TRUE]
          /\ stack' = Append(Append(Front(stack), g), e) /\ parseType' = t
      BY <1>4, <1>7 DEF AddType, below
    <2>2. OnlyLoading(types, types', t)
      <3>1. TypeFields \subseteq DOMAIN types[t] /\ "file" \in DOMAIN types[t]
        BY <1>2, <1>7, WorldIs DEF TypesOK
      <3> QED
        BY <1>7, <2>1, <3>1, LoadingIs
    <2>3. ~types[t].done
      BY <1>2, <1>7, WorldIs DEF TypesOK
    <2>4. Later(w, v)
      BY <1>1, <2>2, WorldIs DEF Later, OnlyLoading
    <2>5. /\ File(t, w) # Bad /\ Min(TypesAt(File(t, w), t)) \in TypesAt(File(t, w), t)
          /\ ItemsOf(t, w) = elem.items /\ IsStack(elem.items)
      BY <1>1, <1>2, <1>3, <1>7, WorldIs, TypeBegins
    <2>6. TypesOK(v)
      <3>1. \A u \in DOMAIN types : File(u, v) = File(u, w)
        BY <2>4, FilesLater, WorldIs
      <3>2. ASSUME NEW u \in DOMAIN types
            PROVE  /\ DOMAIN types'[u] = DOMAIN types[u] /\ types'[u].file = types[u].file
                   /\ types'[u].imports = types[u].imports /\ types'[u].broken = types[u].broken
                   /\ types'[u].done = types[u].done
                   /\ u # t => types'[u].loading = types[u].loading
        BY <2>2 DEF OnlyLoading
      <3>3. types'[t].loading
        BY <2>2 DEF OnlyLoading
      <3>4. DOMAIN v.types = DOMAIN types /\ v.lib = w.lib
        BY <2>4, WorldIs DEF Later
      <3> QED
        BY <1>2, <2>5, <3>1, <3>2, <3>3, <3>4, WorldIs DEF TypesOK
    <2>7. LibraryOK(v)
      BY <1>2, <2>4 DEF LibraryOK, Later
    <2>8. \A u \in DOMAIN types : v.types[u].done = w.types[u].done
      BY <2>2, WorldIs DEF OnlyLoading
    <2>9. \A k \in 1 .. Len(stack) : Undisturbed(stack[k], w, v)
      <3>1. \A k \in 1 .. Len(stack) : FrameData(stack[k], w)
        BY <1>2 DEF Loading, StackData
      <3> QED
        BY <1>1, <2>8, <3>1, WorldIs DEF Undisturbed, FrameData, TypeFrame
    <2>10. SchemesOK(stack, v)
      BY <1>1, <1>2, <2>4, SchemesLater, WorldIs DEF Loading
    <2> HIDE DEF v
    <2>11. Loading(stack, parseType, mode, structureChanged, updateStarted, v)
      BY <1>1, <1>2, <2>4, <2>9, <2>10, LoadingLater DEF top
    <2>12. v.types[t].loading /\ ~v.types[t].done /\ t \in DOMAIN v.types
      <3>1. v.types = types'
        BY WorldIs DEF v
      <3> QED
        BY <1>7, <2>2, <2>3, <3>1 DEF OnlyLoading
    <2>13. FrameData(g, v)
      <3>1. HrcFrame(g, v)
        BY <1>1, <1>2, <1>3, <2>4, <2>12, HrcPasses
      <3> QED
        BY <1>1, <1>5, <3>1 DEF FrameData
    <2> HIDE DEF g
    <2> DEFINE n == Append(Front(stack), g)
    <2>14. Loading(n, parseType, mode, structureChanged, updateStarted, v)
      <3>1. g.do # "qualify" /\ g.do # "links" /\ PairData(Last(Front(stack)), g, v)
        BY <1>1, <1>5 DEF PairData
      <3> QED
        BY <1>1, <1>5, <2>11, <2>13, <3>1, LoadingGoesOn DEF top
    <2>15. n # <<>> /\ Last(n) = g /\ IsStack(n) /\ StackShape(n) /\ StackData(n, v)
      <3>1. n # <<>> /\ Last(n) = g
        BY <1>1, <1>2, ReplacedIs
      <3> QED
        BY <2>14, <3>1 DEF Loading, Shape, StackShape
    <2>16. ASSUME NEW k \in 1..Len(n), n[k].do = "type"
           PROVE  n[k].of # t
      <3>1. Len(n) = Len(stack) /\ n[Len(stack)] = g
            /\ \A j \in 1..Len(stack) : j # Len(stack) => n[j] = stack[j]
        BY <1>1, <1>2, ReplacedIs
      <3>2. g.do # "type"
        BY <1>1, <1>5
      <3>3. k \in 1..Len(stack) /\ n[k] = stack[k]
        BY <2>16, <3>1, <3>2
      <3>4. FrameData(stack[k], w)
        BY <1>2, <3>3 DEF Loading, StackData
      <3>5. w.types[stack[k].of].loading
        BY <2>16, <3>3, <3>4 DEF FrameData, TypeFrame
      <3> QED
        BY <1>7, <3>3, <3>5, WorldIs
    <2>17. /\ FrameFields \subseteq DOMAIN e /\ e.do = "type" /\ e.of = t /\ e.rest = elem.items
           /\ e.saved = parseType /\ ~e.asked /\ e.want = <<>>
      BY FrameIs
    <2> HIDE DEF e
    <2>18. FrameShape(e)
      BY <2>17 DEF FrameShape, CallKinds
    <2>19. PairShape(g, e) /\ PairData(g, e, v)
      BY <1>1, <1>5, <2>17 DEF PairShape, PairData
    <2>20. FrameData(e, v)
      <3>1. ItemsOf(t, v) = elem.items
        BY <1>7, <2>4, <2>5, FilesLater, WorldIs
      <3>2. From(elem.items, elem.items, 1) /\ Len(elem.items) \in Nat
        BY <2>5, FromStart, StackLen
      <3>3. 1 \in 1 .. Len(elem.items) + 1 /\ \A q \in 1 .. 1 - 1 : FALSE
        BY <3>2
      <3>4. TypeFrame(e, v)
        BY <2>12, <2>17, <3>1, <3>2, <3>3 DEF TypeFrame
      <3> QED
        BY <2>17, <3>4 DEF FrameData
    <2> HIDE DEF n
    <2>21. Loading(Append(n, e), t, mode, structureChanged, updateStarted, v)
      BY <2>14, <2>15, <2>16, <2>17, <2>18, <2>19, <2>20, LoadingCalls
    <2>22. Loading(stack', parseType', mode', structureChanged', updateStarted', v)
      BY <1>1, <2>1, <2>21 DEF n
    <2> QED
      BY <2>6, <2>7, <2>22 DEF LoadInv, v
  <1> QED
    BY <1>6, <1>7

-----------------------------------------------------------------------------
(* The innermost call goes on to call another that reads a file or a       *)
(* scheme.                                                                 *)
LEMMA LoadingEnters ==
  ASSUME NEW s, NEW pt, NEW m, NEW mu, NEW ch, NEW us, NEW uu, NEW w, NEW v,
         Loading(s, pt, m, ch, us, w), s # <<>>, Later(w, v), uu,
         NEW f, FrameShape(f), f.do = Last(s).do, f.do # "links", f.saved = Last(s).saved,
         f.outer = Last(s).outer, f.of = Last(s).of,
         FrameData(f, v), Front(s) # <<>> => PairData(Last(Front(s)), f, v),
         NEW e, FrameShape(e), e.do \in {"hrc", "scheme"}, PairShape(f, e), FrameData(e, v),
         IF e.do = "hrc"
         THEN (e.outer => \A k \in 1..Len(s) : s[k].do # "hrc") /\ e.saved = m /\ mu = "TYPE"
         ELSE mu = m,
         \A k \in 1..Len(Front(s)) : Undisturbed(Front(s)[k], w, v),
         SchemesOK(Append(Append(Front(s), f), e), v)
  PROVE  Loading(Append(Append(Front(s), f), e), pt, mu, ch, uu, v)
  <1> DEFINE b == Front(s)
             a == Append(b, f)
             n == Append(a, e)
  <1>1. /\ StackShape(s) /\ IsStack(s) /\ StackShape(b) /\ IsStack(b) /\ StackData(b, w)
    <2>1. StackShape(s) /\ IsStack(s) /\ StackData(s, w)
      BY DEF Loading, Shape, StackShape
    <2>2. StackShape(b)
      BY <2>1, PopStack
    <2> QED
      BY <2>1, <2>2, PopData DEF StackShape
  <1>2. Shape(a, pt, m)
    BY ReplaceShape DEF Loading
  <1>3. /\ IsStack(a) /\ a # <<>> /\ Last(a) = f /\ Len(a) = Len(s) /\ a[Len(s)] = f
        /\ Len(s) \in 1..Len(s) /\ Last(s) = s[Len(s)]
        /\ \A k \in 1..Len(s) : k # Len(s) => a[k] = s[k]
    BY <1>1, ReplacedIs, PoppedIs
  <1>4. Shape(n, pt, mu)
    <2>1. e.outer /\ e.do = "hrc" => \A k \in 1..Len(a) : a[k].do # "hrc"
      BY <1>3
    <2>2. e.do # "type" /\ e.do # "links"
      OBVIOUS
    <2> HIDE DEF a
    <2> QED
      BY <1>2, <1>3, <2>1, <2>2, PushShape
  <1>5. StackData(n, v)
    <2>1. StackData(b, v)
      BY <1>1, StackLater
    <2>2. StackData(a, v)
      <3> HIDE DEF b
      <3>1. b # <<>> => PairData(Last(b), f, v)
        BY DEF b
      <3> QED
        BY <1>1, <2>1, <3>1, PushData
    <2>3. PairData(Last(a), e, v)
      BY DEF PairData
    <2> HIDE DEF a
    <2> QED
      BY <1>3, <2>2, <2>3, PushData
  <1>6. n # <<>> /\ Last(n) = e
    <2> HIDE DEF a
    <2> QED
      BY <1>3, PushedIs
  <1> HIDE DEF n
  <1>7. TopData(n, v)
    BY <1>4, <1>6, TopCarried DEF Shape
  <1>8. Linking(n, ch, v) /\ Idle(n, uu, v)
    BY <1>4, <1>6, BusyLinking DEF Shape, Idle
  <1>9. SchemesOK(n, v)
    BY DEF n
  <1>10. Loading(n, pt, mu, ch, uu, v)
    BY <1>4, <1>5, <1>7, <1>8, <1>9 DEF Loading
  <1> QED
    BY <1>10 DEF n

-----------------------------------------------------------------------------
(* Where links are resolved no type is half read.                          *)
LEMMA NothingHalfRead ==
  ASSUME ContextInv, \A k \in 1..Len(stack) : stack[k].do # "type", NEW t \in DOMAIN types,
         types[t].loading
  PROVE  types[t].done
  BY DEF ContextInv, Context, Marked, HalfRead

LEMMA ForLinks ==
  ASSUME NEW s, StackShape(s), s # <<>>, NEW j \in 1..Len(s), s[j].do = "links",
         \A k \in 1..Len(s) : j < k => s[k].do # "type"
  PROVE  \A k \in 1..Len(s) : s[k].do # "type"
  <1>1. Len(s) \in Nat
    BY DEF StackShape, IsStack
  <1>2. j - 1 \in 1..Len(s) /\ s[j - 1].do = "hrc"
        /\ \A k \in 1..Len(s) : k < j /\ k # j - 1 => s[k].do \in {"lookup", "qualify"}
    BY LinksAlone
  <1>3. \A k \in 1..Len(s) : j < k \/ k = j \/ k < j
    BY <1>1
  <1> QED
    BY <1>2, <1>3

(* The frame that qualifies a name for links.                              *)
LEMMA QualifiesLinks ==
  ASSUME LoadInv, ContextInv, stack # <<>>, top.do = "qualify", Last(below).do = "links"
  PROVE  /\ \A t \in DOMAIN types : types[t].loading => types[t].done
         /\ LoadedTop(top, World)
         /\ \A k \in 1..Len(stack) : stack[k].do = "hrc" => stack[k].rest = <<>>
  <1>1. /\ StackShape(stack) /\ IsStack(stack)
        /\ Loading(stack, parseType, mode, structureChanged, updateStarted, World) /\ below # <<>>
    BY LoadHas DEF LoadInv
  <1>2. /\ Len(stack) \in Nat /\ Len(stack) \in 1..Len(stack) /\ top = stack[Len(stack)]
        /\ Len(stack) - 1 \in 1..Len(stack) /\ Last(below) = stack[Len(stack) - 1]
    BY <1>1, PoppedIs, BelowIs DEF top, below
  <1> DEFINE N == Len(stack)
  <1> HIDE DEF N
  <1>3. /\ N \in Nat /\ N - 1 \in 1..N /\ stack[N - 1].do = "links" /\ stack[N].do = "qualify"
        /\ \A k \in 1..N : N - 1 < k => k = N
    BY <1>2 DEF N
  <1>4. \A k \in 1..N : stack[k].do # "type"
    BY <1>1, <1>3, ForLinks DEF N
  <1>5. LoadedTop(top, World)
    BY <1>1, TopSeen DEF Loading, top, below
  <1>6. ASSUME NEW k \in 1..N, stack[k].do = "hrc" PROVE stack[k].rest = <<>>
    <2>1. /\ N - 2 \in 1..N /\ stack[N - 2].rest = <<>>
          /\ \A j \in 1..N : j < N - 1 /\ j # N - 2 => stack[j].do \in {"lookup", "qualify"}
      <3>1. /\ (N - 1) - 1 \in 1..N /\ stack[(N - 1) - 1].rest = <<>>
            /\ \A j \in 1..N : j < N - 1 /\ j # (N - 1) - 1 => stack[j].do \in {"lookup", "qualify"}
        BY <1>1, <1>3, LinksAlone DEF N
      <3>2. (N - 1) - 1 = N - 2
        BY <1>3
      <3> QED
        BY <3>1, <3>2
    <2>2. k < N - 1 \/ k = N - 1 \/ k = N
      BY <1>3
    <2> QED
      BY <1>3, <1>6, <2>1, <2>2
  <1> QED
    BY <1>4, <1>5, <1>6, NothingHalfRead DEF N

(* A file that has been read to its end has loaded what there is of a type.*)
LEMMA FileRead ==
  ASSUME NEW w, LibraryOK(w), TypesOK(w), NEW f, HrcFrame(f, w), f.rest = <<>>, Has(f.of, w)
  PROVE  w.types[f.of].loading
  <1> DEFINE t == f.of
             file == File(t, w)
  <1>1. t \in DOMAIN w.types /\ Len(file) \in Nat /\ DOMAIN file = 1 .. Len(file)
    BY FileIs DEF HrcFrame
  <1>2. PICK p \in 1 .. Len(file) + 1 :
          /\ From(file, <<>>, p)
          /\ \A q \in 1 .. p - 1 :
               file[q].tag = "type" /\ file[q].type \in DOMAIN w.types => w.types[file[q].type].loading
    BY DEF HrcFrame
  <1>3. PICK i : i \in TypesAt(file, t)
    BY DEF Has
  <1> HIDE DEF file
  <1>4. p = Len(file) + 1
    BY <1>1, <1>2, FromEnd
  <1>5. i \in 1 .. p - 1 /\ file[i].tag = "type" /\ file[i].type = t
    BY <1>1, <1>3, <1>4 DEF TypesAt
  <1> QED
    BY <1>1, <1>2, <1>5

-----------------------------------------------------------------------------
(* loadFileType marks a type.                                              *)
OnlyMarks(ts, us, t) ==
  /\ DOMAIN us = DOMAIN ts
  /\ \A u \in DOMAIN ts :
       /\ DOMAIN us[u] = DOMAIN ts[u] /\ us[u].file = ts[u].file /\ us[u].imports = ts[u].imports
       /\ us[u].loading = ts[u].loading /\ us[u].done = ts[u].done
       /\ u # t => us[u].broken = ts[u].broken

LEMMA MarksAre ==
  ASSUME NEW ts, NEW t \in DOMAIN ts, TypeFields \subseteq DOMAIN ts[t], "file" \in DOMAIN ts[t]
  PROVE  /\ OnlyMarks(ts, [ts EXCEPT ![t].source = TRUE], t)
         /\ [ts EXCEPT ![t].source = TRUE][t].broken = ts[t].broken
         /\ OnlyMarks(ts, [ts EXCEPT ![t].broken = TRUE], t)
  BY DEF TypeFields, OnlyMarks

LEMMA MarksReading ==
  ASSUME NEW w, TypesOK(w), NEW v, v.lib = w.lib, v.schemes = w.schemes, NEW t,
         OnlyMarks(w.types, v.types, t),
         t \in DOMAIN w.types /\ v.types[t].broken => w.types[t].broken \/ File(t, w) = Bad
  PROVE  SameReading(w, v)
  <1>1. \A u \in DOMAIN w.types : "file" \in DOMAIN w.types[u] /\ TypeFields \subseteq DOMAIN w.types[u]
    BY DEF TypesOK
  <1> QED
    BY <1>1 DEF OnlyMarks, SameReading

(* Nothing happens to the library.                                         *)
LEMMA SameLater ==
  ASSUME NEW w, TypesOK(w), NEW s, StackShape(s), s # <<>>, StackData(s, w)
  PROVE  Later(w, w) /\ \A k \in 1..Len(Front(s)) : Undisturbed(Front(s)[k], w, w)
  <1>1. Later(w, w)
    BY DEF Later
  <1>2. \A k \in 1..Len(Front(s)) : k \in 1..Len(s) /\ Front(s)[k] = s[k]
    BY PoppedIs DEF StackShape
  <1>3. ASSUME NEW k \in 1..Len(Front(s)) PROVE Undisturbed(Front(s)[k], w, w)
    <2>1. FrameData(Front(s)[k], w)
      BY <1>2 DEF StackData
    <2> QED
      BY <2>1 DEF Undisturbed, FrameData, TypeFrame
  <1> QED
    BY <1>1, <1>3

LEMMA EnteredSchemes ==
  ASSUME NEW s, IsStack(s), s # <<>>, Last(s).do # "scheme", NEW w, SchemesOK(s, w), NEW f, NEW e
  PROVE  SchemesOK(Append(Append(Front(s), f), e), w)
  <1> DEFINE a == Append(Front(s), f)
             n == Append(a, e)
  <1>1. /\ Len(s) \in Nat /\ IsStack(a) /\ Len(a) = Len(s) /\ Last(s) = s[Len(s)]
        /\ \A k \in 1..Len(s) : k # Len(s) => a[k] = s[k]
    BY ReplacedIs, PoppedIs
  <1> HIDE DEF a
  <1>2. Len(n) = Len(s) + 1 /\ \A k \in 1..Len(s) : k \in 1..Len(s) + 1 /\ n[k] = a[k]
    BY <1>1, PushedIs
  <1> HIDE DEF n
  <1>3. Len(n) \in Nat
    BY <1>1, <1>2
  <1>4. \A k \in 1..Len(s) : s[k].do = "scheme" =>
          \E j \in 1..Len(n) : n[j].do = "scheme" /\ n[j].of = s[k].of
    BY <1>1, <1>2
  <1>5. SchemesOK(n, w)
    BY <1>1, <1>3, <1>4, SchemesCarried
  <1> QED
    BY <1>5 DEF n, a

(* A file is opened: what its reading begins with.                         *)
LEMMA ReadsFile ==
  ASSUME NEW w, LibraryOK(w), TypesOK(w), NEW t \in DOMAIN w.types, File(t, w) # Bad, NEW m, NEW o
  PROVE  LET e == [Frame("hrc", t, File(t, w), m) EXCEPT !.outer = o]
         IN  /\ FrameShape(e) /\ e.do = "hrc" /\ e.of = t /\ e.saved = m /\ e.outer = o
             /\ FrameData(e, w)
  <1> DEFINE e == [Frame("hrc", t, File(t, w), m) EXCEPT !.outer = o]
  <1>1. /\ FrameFields \subseteq DOMAIN e /\ e.do = "hrc" /\ e.of = t /\ e.saved = m /\ e.outer = o
        /\ e.rest = File(t, w) /\ e.want = <<>>
    BY DEF Frame, FrameFields
  <1> HIDE DEF e
  <1>2. FrameShape(e)
    BY <1>1 DEF FrameShape, CallKinds
  <1>3. IsStack(File(t, w)) /\ Len(File(t, w)) \in Nat
    BY FileIs
  <1>4. /\ From(File(t, w), File(t, w), 1) /\ 1 \in 1 .. Len(File(t, w)) + 1
        /\ \A q \in 1 .. 1 - 1 : FALSE
    BY <1>3, FromStart
  <1>5. FrameData(e, w)
    BY <1>1, <1>4 DEF FrameData, HrcFrame
  <1> QED
    BY <1>1, <1>2, <1>5 DEF e

-----------------------------------------------------------------------------
(* A candidate is loaded, or looked into.                                  *)
LEMMA LookInHas ==
  ASSUME LoadInv, ContextInv, LookIn
  PROVE  LET t == Head(top.rest)
             g == Last(below)
             f == [top EXCEPT !.asked = TRUE]
         IN  /\ stack # <<>> /\ top.do = "qualify" /\ top.rest # <<>> /\ t \in DOMAIN types
             /\ UNCHANGED <<schemes, parseType, structureChanged>>
             /\ FrameShape(f) /\ f.do = "qualify" /\ f.of = top.of /\ f.rest = top.rest
             /\ f.saved = top.saved /\ f.outer = top.outer /\ f.asked
             /\ \A v : FrameData(f, v)
             /\ \A v : PairData(g, top, v) => PairData(g, f, v)
  <1> DEFINE f == [top EXCEPT !.asked = TRUE]
  <1>1. /\ stack # <<>> /\ top.do = "qualify" /\ top.rest # <<>> /\ Head(top.rest) \in DOMAIN types
        /\ UNCHANGED <<schemes, parseType, structureChanged>>
    BY DEF LookIn, Running
  <1>2. FrameShape(top) /\ FrameData(top, World) /\ FrameFields \subseteq DOMAIN top
    BY <1>1, LoadHas
  <1>3. /\ FrameFields \subseteq DOMAIN f /\ f.do = "qualify" /\ f.of = top.of /\ f.rest = top.rest
        /\ f.saved = top.saved /\ f.outer = top.outer /\ f.asked /\ f.want = top.want
    BY <1>1, <1>2 DEF FrameFields
  <1> HIDE DEF f
  <1>4. FrameShape(f)
    BY <1>1, <1>2, <1>3 DEF FrameShape
  <1>5. \A v : FrameData(f, v)
    BY <1>1, <1>2, <1>3 DEF FrameData
  <1>6. \A v : PairData(Last(below), top, v) => PairData(Last(below), f, v)
    BY <1>1, <1>3 DEF PairData
  <1> QED
    BY <1>1, <1>3, <1>4, <1>5, <1>6 DEF f

(* It has been loaded, or is of no use, or what is there of it is read.    *)
LEMMA NotLoaded ==
  ASSUME LoadInv, ContextInv, stack # <<>>, top.do = "qualify", Last(below).do = "links",
         NEW t \in DOMAIN types, ~types[t].loading, types[t].source \/ types[t].broken
  PROVE  Final(t, World)
  <1>1. LibraryOK(World) /\ TypesOK(World) /\ StackData(stack, World)
    BY DEF LoadInv, Loading
  <1>2. CASE types[t].broken
    <2>1. File(t, World) = Bad
      BY <1>1, <1>2, WorldIs DEF TypesOK
    <2> QED
      BY <2>1 DEF Final, Has
  <1>3. CASE types[t].source
    <2>1. PICK k \in 1..Len(stack) : stack[k].do = "hrc" /\ stack[k].of = t
      BY <1>3 DEF ContextInv, Context, Marked
    <2>2. stack[k].rest = <<>>
      BY <2>1, QualifiesLinks
    <2>3. HrcFrame(stack[k], World)
      BY <1>1, <2>1 DEF StackData, FrameData
    <2>4. ~Has(t, World)
      BY <1>1, <2>1, <2>2, <2>3, FileRead, WorldIs
    <2> QED
      BY <2>4 DEF Final
  <1> QED
    BY <1>2, <1>3

-----------------------------------------------------------------------------
LEMMA LookInRead ==
  ASSUME LoadInv, ContextInv, lib' = lib, LookIn, ~top.asked, ~types[Head(top.rest)].loading
  PROVE  LoadInv'
  <1> DEFINE t == Head(top.rest)
             g == Last(below)
             f == [top EXCEPT !.asked = TRUE]
             w == World
             v == World'
             n == Append(below, f)
             e == [Frame("hrc", t, lib.files[types[t].file], mode) EXCEPT !.outer = ~updateStarted]
  <1>1. /\ stack # <<>> /\ top.do = "qualify" /\ top.rest # <<>> /\ t \in DOMAIN types
        /\ UNCHANGED <<schemes, parseType, structureChanged>>
        /\ FrameShape(f) /\ f.do = "qualify" /\ f.of = top.of /\ f.rest = top.rest
        /\ f.saved = top.saved /\ f.outer = top.outer /\ f.asked
        /\ \A x : FrameData(f, x)
        /\ \A x : PairData(g, top, x) => PairData(g, f, x)
    BY LookInHas
  <1>2. /\ StackShape(stack) /\ IsStack(stack) /\ below # <<>>
        /\ LibraryOK(w) /\ TypesOK(w)
        /\ Loading(stack, parseType, mode, structureChanged, updateStarted, w)
    BY <1>1, LoadHas DEF LoadInv
  <1>3. LoadFileType(t, n)
    BY DEF LookIn
  <1>4. File(t, w) = lib.files[types[t].file]
    BY WorldIs DEF File
  <1>5. TypeFields \subseteq DOMAIN types[t] /\ "file" \in DOMAIN types[t]
    BY <1>1, <1>2, WorldIs DEF TypesOK
  <1>6. CASE types[t].source \/ types[t].broken
    <2>1. stack' = n /\ UNCHANGED <<types, mode, updateStarted>>
      BY <1>3, <1>6 DEF LoadFileType
    <2>2. v = w
      BY <1>1, <2>1 DEF World
    <2>3. g.do = "links" => LoadedTop(f, w)
      BY <1>1, <1>6, NotLoaded DEF LoadedTop
    <2>4. PairData(g, f, w)
      BY <1>1, LoadHas
    <2> HIDE DEF f
    <2>5. Loading(n, parseType, mode, structureChanged, updateStarted, w)
      BY <1>1, <1>2, <2>3, <2>4, LoadingGoesOn DEF top, below
    <2> QED
      BY <1>1, <1>2, <2>1, <2>2, <2>5, WorldStays
  <1>7. CASE ~types[t].source /\ ~types[t].broken /\ lib.files[types[t].file] = Bad
    <2>1. /\ stack' = n /\ UNCHANGED <<mode, updateStarted>>
          /\ types' = [types EXCEPT ![t].broken = TRUE]
      BY <1>3, <1>7 DEF LoadFileType
    <2>2. OnlyMarks(types, types', t)
      BY <1>1, <1>5, <2>1, MarksAre
    <2>3. SameReading(w, v)
      BY <1>1, <1>2, <1>4, <1>7, <2>2, MarksReading, WorldIs
    <2> HIDE DEF v, f
    <2>4. /\ LibraryOK(v) /\ TypesOK(v) /\ Later(w, v)
          /\ Loading(stack, parseType, mode, structureChanged, updateStarted, v)
      BY <1>2, <2>3, SameLoading
    <2>5. LoadedTop(f, v)
      <3>1. File(t, v) = Bad
        BY <1>1, <1>4, <1>7, <2>4, FilesLater, WorldIs
      <3> QED
        BY <1>1, <3>1 DEF LoadedTop, Final, Has
    <2>6. PairData(g, f, v)
      <3>1. StackData(stack, v) /\ Front(stack) # <<>>
        BY <1>2, <2>4 DEF Loading, below
      <3>2. PairData(g, top, v)
        BY <1>1, <1>2, <3>1, TopFrame DEF top, below
      <3> QED
        BY <1>1, <3>2
    <2>7. Loading(n, parseType, mode, structureChanged, updateStarted, v)
      BY <1>1, <2>4, <2>5, <2>6, LoadingGoesOn DEF top, below
    <2> QED
      BY <1>1, <2>1, <2>4, <2>7 DEF LoadInv, v
  <1>8. CASE ~types[t].source /\ ~types[t].broken /\ lib.files[types[t].file] # Bad
    <2>1. /\ stack' = Append(n, e) /\ mode' = "TYPE" /\ updateStarted' = TRUE
          /\ types' = [types EXCEPT ![t].source = TRUE]
      BY <1>3, <1>8 DEF LoadFileType, ParseHRC
    <2>2. OnlyMarks(types, types', t) /\ types'[t].broken = types[t].broken
      BY <1>1, <1>5, <2>1, MarksAre
    <2>3. SameReading(w, v)
      BY <1>1, <1>2, <2>2, MarksReading, WorldIs
    <2> HIDE DEF v, f
    <2>4. /\ LibraryOK(v) /\ TypesOK(v) /\ Later(w, v)
          /\ Loading(stack, parseType, mode, structureChanged, updateStarted, v)
      BY <1>2, <2>3, SameLoading
    <2>5. File(t, v) = lib.files[types[t].file] /\ t \in DOMAIN v.types
      BY <1>1, <1>4, <2>4, FilesLater, WorldIs DEF Later
    <2>6. /\ FrameShape(e) /\ e.do = "hrc" /\ e.of = t /\ e.saved = mode /\ e.outer = ~updateStarted
          /\ FrameData(e, v)
      BY <1>8, <2>4, <2>5, ReadsFile
    <2> HIDE DEF e
    <2>7. PairShape(f, e)
      BY <1>1, <2>6 DEF PairShape
    <2>8. PairData(g, f, v)
      <3>1. StackData(stack, v) /\ Front(stack) # <<>>
        BY <1>2, <2>4 DEF Loading, below
      <3>2. PairData(g, top, v)
        BY <1>1, <1>2, <3>1, TopFrame DEF top, below
      <3> QED
        BY <1>1, <3>2
    <2>9. Later(v, v) /\ \A k \in 1..Len(below) : Undisturbed(below[k], v, v)
      BY <1>1, <1>2, <2>4, SameLater DEF Loading, below
    <2>10. SchemesOK(Append(n, e), v)
      BY <1>1, <1>2, <2>4, EnteredSchemes DEF Loading, top, below
    <2>11. e.outer => \A k \in 1..Len(stack) : stack[k].do # "hrc"
      BY <1>2, <2>6 DEF Loading, Idle, Reads
    <2>12. Loading(Append(n, e), parseType, "TYPE", structureChanged, TRUE, v)
      <3> HIDE DEF g, w, t
      <3> QED
        BY <1>1, <2>4, <2>6, <2>7, <2>8, <2>9, <2>10, <2>11, LoadingEnters DEF top, below, g
    <2> QED
      BY <1>1, <2>1, <2>4, <2>12 DEF LoadInv, v
  <1> QED
    BY <1>6, <1>7, <1>8

LEMMA LookInFinds ==
  ASSUME LoadInv, ContextInv, lib' = lib, LookIn, top.asked \/ types[Head(top.rest)].loading
  PROVE  LoadInv'
  <1> DEFINE t == Head(top.rest)
             g == Last(below)
             n == top.of
             w == World
             found == Known(n.kind, t, n.name) /\ (n.type = None \/ t = parseType \/ types[t].loading)
  <1>1. /\ stack # <<>> /\ top.do = "qualify" /\ top.rest # <<>> /\ t \in DOMAIN types
        /\ UNCHANGED <<schemes, parseType, structureChanged>> /\ Running("qualify")
    BY LookInHas DEF LookIn
  <1>2. /\ FrameShape(g) /\ PairShape(g, top) /\ FrameData(g, w) /\ PairData(g, top, w)
        /\ FrameData(top, w) /\ TypesOK(w) /\ SchemesOK(stack, w)
    BY <1>1, LoadHas DEF LoadInv, Loading
  <1>3. /\ IF found THEN Answer(<<t, n.name>>) ELSE stack' = Append(below, Advance(top))
        /\ UNCHANGED <<types, mode, updateStarted>>
    BY DEF LookIn
  <1>4. 1 \in 1 .. Len(top.rest) /\ top.rest[1] = t
    BY <1>1, <1>2, TailIs DEF FrameData
  <1>5. g.do = "links" => n.kind = "scheme"
    <2>1. SUFFICES ASSUME g.do = "links" PROVE n.kind = "scheme"
      OBVIOUS
    <2>2. LinksFrame(g, w) /\ g.asked /\ n = Head(g.want) /\ g.want # <<>>
      BY <1>1, <1>2, <2>1 DEF FrameData, FrameShape, PairShape
    <2>3. Resolved(g, Head(g.rest), w)
      BY <2>2 DEF LinksFrame
    <2> QED
      BY <2>2, <2>3 DEF Resolved
  <1>6. ASSUME g.do = "links"
        PROVE  \E p \in 1 .. Len(CandidatesIn(Head(g.rest)[1][1], n, w)) :
                 /\ t = CandidatesIn(Head(g.rest)[1][1], n, w)[p]
                 /\ NoneOf(CandidatesIn(Head(g.rest)[1][1], n, w), n, p, w)
    <2> DEFINE from == CandidatesIn(Head(g.rest)[1][1], n, w)
    <2>1. PICK p \in 1 .. Len(from) + 1 : From(from, top.rest, p) /\ NoneOf(from, n, p, w)
      BY <1>1, <1>2, <1>6 DEF PairData
    <2>2. Done(Head(g.rest)[1][1], w)
      <3>1. g.rest # <<>> /\ LinksFrame(g, w)
        BY <1>1, <1>2, <1>6 DEF FrameShape, PairShape, FrameData
      <3>2. 1 \in 1 .. Len(g.rest) /\ Head(g.rest) = g.rest[1]
        BY <3>1, TailIs DEF LinksFrame
      <3> QED
        BY <3>1, <3>2 DEF LinksFrame
    <2>3. Len(from) \in Nat
      BY <1>2, <2>2, CandidatesAre DEF Done
    <2> HIDE DEF from
    <2>4. p \in 1 .. Len(from) /\ t = from[p]
      BY <1>1, <2>1, <2>3, FromNext
    <2> QED
      BY <2>1, <2>4 DEF from
  <1>7. CASE found
    <2> DEFINE r == <<t, n.name>>
    <2>1. n.kind = "scheme" => r \in DOMAIN w.schemes
      BY <1>7, WorldIs DEF Known
    <2>2. ASSUME g.do = "scheme", n.kind = "scheme" PROVE Glimpsed(g.of[1], n, r, w)
      <3>1. Among(g.of[1], n, t, w)
        BY <1>1, <1>2, <1>4, <2>2 DEF PairData
      <3>2. r[1] = t
        OBVIOUS
      <3> HIDE DEF t, n
      <3> QED
        BY <2>1, <2>2, <3>1, <3>2 DEF Glimpsed
    <2>3. ASSUME g.do = "links", n.kind = "scheme" PROVE Settled(Head(g.rest)[1][1], n, r, w)
      BY <1>6, <2>1, <2>3 DEF Settled
    <2> HIDE DEF r
    <2>4. Answer(r)
      BY <1>3, <1>7 DEF r
    <2> HIDE DEF found
    <2> QED
      BY <1>1, <1>3, <2>2, <2>3, <2>4, AnswerLoads
  <1>8. CASE ~found
    <2>1. stack' = Append(below, Advance(top))
      BY <1>3, <1>8
    <2>2. ASSUME g.do = "links" PROVE Unknown(t, n, w)
      <3>1. Final(t, w)
        <4>1. CASE top.asked
          BY <1>1, <2>2, <4>1, QualifiesLinks DEF LoadedTop
        <4>2. CASE types[t].loading
          <5>1. types[t].done
            BY <1>1, <2>2, <4>2, QualifiesLinks
          <5> QED
            BY <1>1, <5>1, WorldIs DEF Final, Done
        <4> QED
          BY <4>1, <4>2
      <3>2. <<t, n.name>> \notin DOMAIN w.schemes
        <4> SUFFICES ASSUME <<t, n.name>> \in DOMAIN w.schemes PROVE FALSE
          OBVIOUS
        <4>1. SchemeOK(<<t, n.name>>, w)
          BY <1>2 DEF SchemesOK
        <4>2. types[t].loading
          BY <4>1, WorldIs DEF SchemeOK
        <4>3. Known(n.kind, t, n.name)
          BY <1>5, <2>2, WorldIs DEF Known
        <4> QED
          BY <1>8, <4>2, <4>3
      <3> QED
        BY <3>1, <3>2 DEF Unknown
    <2> HIDE DEF found
    <2> QED
      BY <1>1, <1>3, <2>1, <2>2, PassLoads
  <1> QED
    BY <1>7, <1>8

LEMMA LookInLoads == ASSUME LoadInv, ContextInv, lib' = lib, LookIn PROVE LoadInv'
  BY LookInRead, LookInFinds

-----------------------------------------------------------------------------
(* A file ends.                                                            *)
LEMMA ClosedAre ==
  ASSUME NEW ts, NEW t \in DOMAIN ts, TypeFields \subseteq DOMAIN ts[t], "file" \in DOMAIN ts[t]
  PROVE  /\ OnlyMarks(ts, Closed(t, FALSE, ts), t)
         /\ Closed(t, FALSE, ts)[t].broken => ts[t].broken
  <1> DEFINE us == [ts EXCEPT ![t].source = FALSE, ![t].broken = @ \/ FALSE]
  <1>1. OnlyMarks(ts, us, t)
    BY DEF TypeFields, OnlyMarks
  <1>2. us[t].broken => ts[t].broken
    BY DEF TypeFields
  <1>3. Closed(t, FALSE, ts) = us
    BY DEF Closed
  <1> QED
    BY <1>1, <1>2, <1>3

LEMMA EndHRCLoads == ASSUME LoadInv, ContextInv, lib' = lib, EndHRC PROVE LoadInv'
  <1> DEFINE w == World
             v == World'
             t == top.of
  <1>1. /\ stack # <<>> /\ top.do = "hrc" /\ top.rest = <<>> /\ structureChanged' = TRUE
        /\ UNCHANGED <<schemes, parseType, updateStarted>>
    BY DEF EndHRC, Running
  <1>2. /\ StackShape(stack) /\ IsStack(stack) /\ StackData(stack, w) /\ FrameShape(top)
        /\ LibraryOK(w) /\ TypesOK(w) /\ SchemesOK(stack, w)
        /\ Loading(stack, parseType, mode, structureChanged, updateStarted, w)
    BY <1>1, LoadHas DEF LoadInv, Loading
  <1>3. HrcFrame(top, w)
    BY <1>1, LoadHas DEF FrameData
  <1>4. /\ Len(stack) \in Nat /\ Len(stack) \in 1..Len(stack) /\ top = stack[Len(stack)]
    BY <1>1, <1>2, PoppedIs DEF top
  <1>5. updateStarted
    BY <1>1, <1>2, <1>4 DEF Loading, Idle, Reads
  <1>6. CASE top.outer
    <2> DEFINE f == Frame("links", {}, <<>>, None)
               n == Append(stack, f)
    <2>1. stack' = n /\ UNCHANGED <<types, mode>>
      BY <1>6 DEF EndHRC
    <2>2. /\ FrameFields \subseteq DOMAIN f /\ f.do = "links" /\ f.of = {} /\ f.rest = <<>>
          /\ f.saved = None /\ ~f.asked /\ f.want = <<>> /\ f.got = <<>>
      BY FrameIs
    <2> HIDE DEF f
    <2>3. FrameShape(f) /\ PairShape(top, f)
      BY <1>1, <1>6, <2>2 DEF FrameShape, PairShape, CallKinds
    <2>4. FrameData(f, w) /\ PairData(top, f, w)
      <3>1. IsStack(<<>>) /\ Len(<<>>) = 0 /\ \A i \in 1 .. 0 : FALSE
        BY DEF IsStack
      <3>2. LinksFrame(f, w)
        BY <2>2, <3>1 DEF LinksFrame, Resolved
      <3> QED
        BY <2>2, <3>2 DEF FrameData, PairData
    <2>5. Shape(n, parseType, mode)
      <3>1. f.do # "type" /\ f.do # "hrc"
        BY <2>2
      <3> QED
        BY <1>1, <1>2, <2>2, <2>3, <3>1, PushShape DEF Loading, top
    <2>6. StackData(n, w)
      BY <1>1, <1>2, <2>4, PushData DEF top
    <2>7. /\ n # <<>> /\ Last(n) = f /\ Len(n) = Len(stack) + 1
          /\ \A k \in 1..Len(stack) : k \in 1..Len(stack) + 1 /\ n[k] = stack[k]
      BY <1>2, PushedIs
    <2> HIDE DEF n
    <2>8. TopData(n, w)
      BY <2>2, <2>5, <2>7, TopCarried DEF Shape
    <2>9. SchemesOK(n, w)
      <3>1. Len(n) \in Nat
        BY <1>4, <2>7
      <3> QED
        BY <1>2, <1>4, <2>7, <3>1, SchemesCarried
    <2>10. Linking(n, TRUE, w)
      BY <2>2, <2>5, <2>7, TopLinking DEF Shape
    <2>11. Idle(n, updateStarted, w)
      BY <1>5 DEF Idle
    <2>12. Loading(n, parseType, mode, TRUE, updateStarted, w)
      BY <2>5, <2>6, <2>8, <2>9, <2>10, <2>11, Zenon DEF Loading
    <2> QED
      BY <1>1, <2>1, <2>12, WorldStays
  <1>7. CASE ~top.outer
    <2>1. stack' = below /\ mode' = top.saved /\ types' = Closed(t, FALSE, types)
      BY <1>7 DEF EndHRC
    <2>2. t \in DOMAIN types /\ TypeFields \subseteq DOMAIN types[t] /\ "file" \in DOMAIN types[t]
      BY <1>2, <1>3, WorldIs DEF HrcFrame, TypesOK
    <2>3. OnlyMarks(types, types', t) /\ (types'[t].broken => types[t].broken)
      BY <2>1, <2>2, ClosedAre
    <2>4. SameReading(w, v)
      BY <1>1, <1>2, <2>3, MarksReading, WorldIs
    <2> HIDE DEF v
    <2>5. /\ LibraryOK(v) /\ TypesOK(v) /\ Later(w, v)
          /\ Loading(stack, parseType, mode, structureChanged, updateStarted, v)
      BY <1>2, <2>4, SameLoading
    <2>6. Shape(below, parseType, top.saved)
      BY <1>1, <1>2, PopShape DEF Loading, Sets, top, below
    <2>7. StackData(below, v)
      BY <1>1, <1>2, <2>5, PopData DEF Loading, below
    <2>8. /\ Len(below) \in Nat /\ \A k \in 1..Len(stack) : k # Len(stack) => k \in 1..Len(below)
          /\ \A k \in 1..Len(below) : k \in 1..Len(stack) /\ below[k] = stack[k]
          /\ Len(below) = Len(stack) - 1 /\ IsStack(below)
      <3>1. /\ IsStack(below) /\ Len(below) = Len(stack) - 1 /\ Len(stack) > 0
            /\ \A k \in 1..Len(below) : k \in 1..Len(stack) /\ below[k] = stack[k]
            /\ \A k \in 1..Len(stack) : k < Len(stack) => k \in 1..Len(below)
        BY <1>1, <1>2, PoppedIs DEF below
      <3>2. Len(below) \in Nat /\ \A k \in 1..Len(stack) : k # Len(stack) => k < Len(stack)
        BY <1>4, <3>1
      <3> QED
        BY <3>1, <3>2
    <2>9. SchemesOK(below, v)
      BY <1>1, <1>4, <2>5, <2>8, SchemesCarried DEF Loading
    <2>10. TopData(below, v)
      <3>1. ASSUME below # <<>>, Last(below).do = "qualify", Last(Front(below)).do = "links"
            PROVE  LoadedTop(Last(below), v)
        <4> DEFINE g == Last(below)
        <4>1. PairShape(g, top)
          BY <1>1, <3>1, LoadHas
        <4>2. g.asked /\ g.rest # <<>> /\ Head(g.rest) = t
          BY <1>1, <4>1 DEF PairShape
        <4>3. Has(t, w) => types[t].loading
          BY <1>1, <1>2, <1>3, FileRead, WorldIs
        <4>4. \A k \in 1..Len(stack) : stack[k].do # "type"
          <5> DEFINE N == Len(stack)
          <5>1. StackShape(below)
            BY <2>6 DEF Shape
          <5>2. /\ Len(below) - 1 \in 1..Len(below) /\ Last(Front(below)) = below[Len(below) - 1]
                /\ Front(below) # <<>>
            BY <3>1, <5>1, BelowIs
          <5>3. Last(below) = below[Len(below)] /\ Len(below) \in 1..Len(below)
            BY <2>8, <3>1, PoppedIs
          <5> HIDE DEF N
          <5>4. /\ N \in Nat /\ N - 2 \in 1..N /\ N - 1 \in 1..N /\ Len(below) - 1 = N - 2
                /\ Len(below) = N - 1 /\ \A k \in 1..N : N - 2 < k => k = N - 1 \/ k = N
            BY <1>4, <2>8, <5>2 DEF N
          <5>5. stack[N - 2].do = "links" /\ stack[N - 1].do = "qualify" /\ stack[N].do = "hrc"
            BY <1>1, <1>4, <2>8, <3>1, <5>2, <5>3, <5>4 DEF N
          <5> QED
            BY <1>1, <1>2, <5>4, <5>5, ForLinks, Zenon DEF N
        <4>5. Final(t, w)
          BY <2>2, <4>3, <4>4, NothingHalfRead, WorldIs DEF Final, Done
        <4>6. Final(t, v)
          BY <2>5, <4>5, FilesLater
        <4> QED
          BY <4>2, <4>6 DEF LoadedTop
      <3> QED
        BY <2>6, <3>1, TopCarried DEF Shape
    <2>11. Linking(below, TRUE, v) /\ Idle(below, updateStarted, v)
      BY <1>5 DEF Linking, Idle
    <2>12. Loading(below, parseType, top.saved, TRUE, updateStarted, v)
      BY <2>6, <2>7, <2>9, <2>10, <2>11 DEF Loading
    <2> QED
      BY <1>1, <2>1, <2>5, <2>12 DEF LoadInv, v
  <1> QED
    BY <1>6, <1>7

-----------------------------------------------------------------------------
(* The item of a type that is read next.                                   *)
LEMMA ItemIs ==
  ASSUME NEW w, LibraryOK(w), TypesOK(w), NEW f, TypeFrame(f, w), f.rest # <<>>
  PROVE  \E p \in 1 .. Len(ItemsOf(f.of, w)) :
           /\ p \in Nat /\ DOMAIN ItemsOf(f.of, w) = 1 .. Len(ItemsOf(f.of, w))
           /\ Head(f.rest) = ItemsOf(f.of, w)[p] /\ IsItem(Head(f.rest))
           /\ p + 1 \in 1 .. Len(ItemsOf(f.of, w)) + 1
           /\ From(ItemsOf(f.of, w), Tail(f.rest), p + 1)
           /\ \A q \in 1 .. (p + 1) - 1 : q \in 1 .. p - 1 \/ q = p
           /\ \A q \in 1 .. p - 1 :
                LET e == ItemsOf(f.of, w)[q]
                IN  e.tag = "scheme" => <<f.of, e.name>> \in DOMAIN w.schemes
  <1> DEFINE all == ItemsOf(f.of, w)
  <1>1. DOMAIN all = 1 .. Len(all) /\ Len(all) \in Nat /\ \A i \in 1 .. Len(all) : IsItem(all[i])
    BY ItemsAre DEF TypeFrame
  <1>2. PICK p \in 1 .. Len(all) + 1 :
          /\ From(all, f.rest, p)
          /\ \A q \in 1 .. p - 1 : all[q].tag = "scheme" => <<f.of, all[q].name>> \in DOMAIN w.schemes
    BY DEF TypeFrame
  <1> HIDE DEF all
  <1>3. /\ p \in 1 .. Len(all) /\ p \in Nat /\ Head(f.rest) = all[p]
        /\ p + 1 \in 1 .. Len(all) + 1 /\ From(all, Tail(f.rest), p + 1)
        /\ \A q \in 1 .. (p + 1) - 1 : q \in 1 .. p - 1 \/ q = p
    BY <1>1, <1>2, FromNext
  <1>4. IsItem(all[p])
    BY <1>1, <1>3
  <1> QED
    BY <1>1, <1>2, <1>3, <1>4 DEF all

(* It is passed when its scheme is known.                                  *)
LEMMA ItemPasses ==
  ASSUME NEW w, LibraryOK(w), TypesOK(w), NEW f, TypeFrame(f, w), f.rest # <<>>, FrameShape(f),
         NEW v, Later(w, v), ~v.types[f.of].done,
         Head(f.rest).tag = "scheme" => <<f.of, Head(f.rest).name>> \in DOMAIN v.schemes
  PROVE  TypeFrame(Advance(f), v)
  <1> DEFINE n == Advance(f)
             all == ItemsOf(f.of, w)
  <1>1. n.of = f.of /\ n.rest = Tail(f.rest)
    BY AdvanceIs DEF FrameShape
  <1>2. f.of \in DOMAIN w.types /\ w.types[f.of].loading
    BY DEF TypeFrame
  <1>3. ItemsOf(f.of, v) = all /\ f.of \in DOMAIN v.types /\ v.types[f.of].loading
    BY <1>2, FilesLater, Zenon DEF Later
  <1>4. PICK p \in 1 .. Len(all) :
           /\ Head(f.rest) = all[p]
           /\ p + 1 \in 1 .. Len(all) + 1 /\ From(all, Tail(f.rest), p + 1)
           /\ \A q \in 1 .. (p + 1) - 1 : q \in 1 .. p - 1 \/ q = p
           /\ \A q \in 1 .. p - 1 : all[q].tag = "scheme" => <<f.of, all[q].name>> \in DOMAIN w.schemes
    BY ItemIs
  <1> HIDE DEF n, all
  <1>5. ASSUME NEW q \in 1 .. (p + 1) - 1, all[q].tag = "scheme"
        PROVE  <<f.of, all[q].name>> \in DOMAIN v.schemes
    <2>1. CASE q = p
      BY <1>4, <1>5, <2>1
    <2>2. CASE q \in 1 .. p - 1
      BY <1>4, <1>5, <2>2 DEF Later
    <2> QED
      BY <1>4, <2>1, <2>2
  <1>6. TypeFrame(n, v)
    BY <1>1, <1>3, <1>4, <1>5 DEF TypeFrame
  <1> QED
    BY <1>6 DEF n

-----------------------------------------------------------------------------
(* A scheme begins: it is the first of its name in its type.               *)
LEMMA SchemeBegins ==
  ASSUME NEW w, LibraryOK(w), TypesOK(w), NEW f, TypeFrame(f, w), f.rest # <<>>,
         Head(f.rest).tag = "scheme", NEW key, key = <<f.of, Head(f.rest).name>>,
         key \notin DOMAIN w.schemes
  PROVE  /\ Min(SchemesAt(ItemsOf(key[1], w), key[2])) \in SchemesAt(ItemsOf(key[1], w), key[2])
         /\ NodesOf(key, w) = Head(f.rest).nodes /\ IsStack(Head(f.rest).nodes)
  <1> DEFINE all == ItemsOf(f.of, w)
             name == Head(f.rest).name
  <1>1. key[1] = f.of /\ key[2] = name
    OBVIOUS
  <1>2. PICK p \in 1 .. Len(all) :
           /\ p \in Nat /\ DOMAIN all = 1 .. Len(all)
           /\ Head(f.rest) = all[p] /\ IsItem(Head(f.rest))
           /\ \A q \in 1 .. p - 1 : all[q].tag = "scheme" => <<f.of, all[q].name>> \in DOMAIN w.schemes
    BY ItemIs
  <1> HIDE DEF all
  <1> DEFINE S == SchemesAt(all, name)
  <1>3. p \in S /\ S \subseteq 1 .. Len(all) /\ S \subseteq Nat
    BY <1>2 DEF SchemesAt
  <1>4. ASSUME NEW q \in S PROVE p <= q
    <2>1. q \in Nat /\ q \in 1 .. Len(all) /\ all[q].tag = "scheme" /\ all[q].name = name
      BY <1>3 DEF SchemesAt
    <2>2. ~(q \in 1 .. p - 1)
      BY <1>2, <2>1
    <2> QED
      BY <1>2, <2>1, <2>2
  <1>5. Min(S) = p
    <2> HIDE DEF S
    <2> QED
      BY <1>3, <1>4, LeastIs
  <1>6. NodesOf(key, w) = Head(f.rest).nodes
    <2>1. NodesOf(key, w) = all[Min(S)].nodes
      BY <1>1 DEF NodesOf, all
    <2> QED
      BY <1>2, <1>5, <2>1
  <1>7. IsStack(Head(f.rest).nodes)
    BY <1>2, ListIsStack DEF IsItem
  <1> QED
    BY <1>1, <1>3, <1>5, <1>6, <1>7 DEF all

LEMMA NoneRead ==
  ASSUME NEW w, NEW key, w.schemes[key].nodes = <<>>
  PROVE  NodesRead(key, 1, w)
  <1> DEFINE at == [i \in 1 .. 0 |-> 0]
  <1>1. 1 .. Len(<<>>) = 1 .. 0 /\ 1 .. 1 - 1 = 1 .. 0 /\ \A i \in 1 .. 0 : FALSE
    OBVIOUS
  <1>2. at \in [1 .. 0 -> 1 .. 0]
    BY <1>1
  <1> HIDE DEF at
  <1>3. \A all : ReadAt(<<>>, all, 1, at)
    BY <1>1 DEF ReadAt
  <1>4. \A t, all : LinksOK(t, <<>>, all, at, w)
    BY <1>1 DEF LinksOK
  <1> QED
    BY <1>1, <1>2, <1>3, <1>4 DEF NodesRead

LEMMA NewSchemeLoads ==
  ASSUME LoadInv, lib' = lib, stack # <<>>, top.do = "type", top.rest # <<>>, top.asked,
         top.want = <<>>,
         Head(top.rest).tag = "scheme",
         NEW key, key = <<top.of, Head(top.rest).name>>, key \notin DOMAIN schemes,
         schemes' = [k \in DOMAIN schemes \cup {key} |->
                       IF k = key THEN [owner |-> top.of, nodes |-> <<>>] ELSE schemes[k]],
         stack' = Append(Append(below, Advance(top)), Frame("scheme", key, Head(top.rest).nodes, None)),
         UNCHANGED <<types, parseType, mode, structureChanged, updateStarted>>
  PROVE  LoadInv'
  <1> DEFINE w == World
             v == World'
             g == Advance(top)
             e == Frame("scheme", key, Head(top.rest).nodes, None)
             n == Append(Append(Front(stack), g), e)
  <1>1. /\ StackShape(stack) /\ IsStack(stack) /\ StackData(stack, w) /\ FrameShape(top)
        /\ LibraryOK(w) /\ TypesOK(w) /\ SchemesOK(stack, w)
        /\ Loading(stack, parseType, mode, structureChanged, updateStarted, w)
    BY LoadHas DEF LoadInv, Loading
  <1>2. TypeFrame(top, w) /\ below # <<>> /\ PairShape(Last(below), top)
    BY LoadHas DEF FrameData
  <1>3. /\ v.lib = w.lib /\ v.types = w.types /\ DOMAIN v.schemes = DOMAIN w.schemes \cup {key}
        /\ \A k \in DOMAIN w.schemes : v.schemes[k] = w.schemes[k]
        /\ v.schemes[key] = [owner |-> top.of, nodes |-> <<>>]
    BY WorldIs, Zenon
  <1>4. key \notin DOMAIN w.schemes /\ key[1] = top.of /\ key = <<key[1], key[2]>>
    BY WorldIs
  <1>5. top.of \in DOMAIN w.types /\ w.types[top.of].loading /\ ~w.types[top.of].done
    BY <1>2 DEF TypeFrame
  <1>6. /\ Min(SchemesAt(ItemsOf(key[1], w), key[2])) \in SchemesAt(ItemsOf(key[1], w), key[2])
        /\ NodesOf(key, w) = Head(top.rest).nodes /\ IsStack(Head(top.rest).nodes)
    BY <1>1, <1>2, <1>4, SchemeBegins
  <1>7. Later(w, v)
    <2>1. ~Final(key[1], w)
      BY <1>1, <1>4, <1>5, ItemsAre DEF Final, Done
    <2> QED
      BY <1>1, <1>3, <2>1 DEF Later
  <1> HIDE DEF v
  <1>8. TypesOK(v) /\ LibraryOK(v)
    <2>1. \A u : File(u, v) = File(u, w)
      BY <1>3 DEF File
    <2> QED
      BY <1>1, <1>3, <2>1 DEF TypesOK, LibraryOK
  <1>9. SchemeOK(key, v)
    <2>1. ItemsOf(key[1], v) = ItemsOf(key[1], w)
      BY <1>4, <1>5, <1>7, FilesLater
    <2>2. IsStack(<<>>) /\ Len(<<>>) = 0 /\ \A i \in 1 .. 0 : FALSE
      BY DEF IsStack
    <2>3. v.schemes[key].nodes = <<>>
      BY <1>3
    <2>4. v.schemes[key] = [owner |-> key[1], nodes |-> v.schemes[key].nodes]
      BY <1>3, <1>4
    <2> QED
      BY <1>3, <1>4, <1>5, <1>6, <2>1, <2>2, <2>3, <2>4 DEF SchemeOK
  <1>10. /\ FrameFields \subseteq DOMAIN g /\ g.do = "type" /\ g.of = top.of
         /\ g.saved = top.saved /\ g.outer = top.outer /\ FrameShape(g)
    BY <1>1, AdvanceShape, AdvanceIs DEF FrameShape
  <1>11. FrameData(g, v)
    <2>1. TypeFrame(g, v)
      BY <1>1, <1>2, <1>3, <1>5, <1>7, ItemPasses
    <2> QED
      BY <1>10, <2>1 DEF FrameData
  <1> HIDE DEF g
  <1>12. /\ FrameFields \subseteq DOMAIN e /\ e.do = "scheme" /\ e.of = key
         /\ e.rest = Head(top.rest).nodes /\ ~e.asked /\ e.want = <<>> /\ e.got = <<>>
    BY FrameIs
  <1> HIDE DEF e
  <1>13. FrameShape(e) /\ PairShape(g, e)
    BY <1>4, <1>10, <1>12 DEF FrameShape, PairShape, CallKinds
  <1>14. FrameData(e, v)
    <2>1. NodesOf(key, v) = e.rest
      BY <1>4, <1>5, <1>6, <1>7, <1>12, FilesLater
    <2>2. From(e.rest, e.rest, 1) /\ Len(e.rest) \in Nat
      BY <1>6, <1>12, FromStart, StackLen
    <2>3. 1 \in 1 .. Len(e.rest) + 1
      BY <2>2
    <2>4. NodesRead(key, 1, v)
      BY <1>3, NoneRead
    <2>5. \A x, t : Asked(e, x, t, v)
      BY <1>12 DEF Asked
    <2>6. SchemeFrame(e, v)
      BY <1>3, <1>4, <1>5, <1>12, <2>1, <2>2, <2>3, <2>4, <2>5 DEF SchemeFrame
    <2> QED
      BY <1>12, <2>6 DEF FrameData
  <1>15. \A k \in 1..Len(Front(stack)) : Undisturbed(Front(stack)[k], w, v)
    <2>1. \A k \in 1..Len(Front(stack)) : Front(stack)[k] = stack[k] /\ k \in 1..Len(stack)
      BY <1>1, PoppedIs
    <2>2. ASSUME NEW k \in 1..Len(Front(stack)) PROVE Undisturbed(Front(stack)[k], w, v)
      <3>1. FrameData(Front(stack)[k], w)
        BY <1>1, <2>1 DEF StackData
      <3> QED
        BY <1>3, <3>1 DEF Undisturbed, FrameData, TypeFrame, SchemeFrame
    <2> QED
      BY <2>2
  <1>16. SchemesOK(n, v)
    <2>1. SchemesOK(n, w)
      BY <1>1, EnteredSchemes DEF top
    <2>2. \E k \in 1..Len(n) : n[k].do = "scheme" /\ n[k].of = key
      <3> DEFINE a == Append(Front(stack), g)
      <3>1. IsStack(a)
        BY <1>1, ReplacedIs
      <3> HIDE DEF a
      <3>2. Append(a, e)[Len(a) + 1] = e /\ Len(Append(a, e)) = Len(a) + 1 /\ Len(a) \in Nat
        BY <3>1, PushedIs
      <3>3. Len(a) + 1 \in 1 .. Len(a) + 1
        BY <3>2
      <3>4. n = Append(a, e)
        BY DEF a
      <3> HIDE DEF n
      <3> QED
        BY <1>12, <3>2, <3>3, <3>4
    <2>3. \A k \in DOMAIN v.schemes : k \notin DOMAIN w.schemes => k = key
      BY <1>3
    <2> HIDE DEF n
    <2>4. \A k \in DOMAIN v.schemes : k \notin DOMAIN w.schemes =>
            SchemeOK(k, v) /\ \E i \in 1 .. Len(n) : n[i].do = "scheme" /\ n[i].of = k
      BY ONLY <1>9, <2>2, <2>3
    <2>5. \A k \in DOMAIN w.schemes : v.schemes[k] = w.schemes[k]
      BY <1>3
    <2> HIDE DEF w
    <2> QED
      BY ONLY <1>7, <2>1, <2>4, <2>5, SchemesLater
  <1>17. updateStarted
    <2>1. Last(below).do = "hrc"
      BY <1>2 DEF PairShape
    <2>2. /\ Len(stack) - 1 \in 1..Len(stack) /\ Last(below) = stack[Len(stack) - 1]
      BY <1>1, <1>2, BelowIs DEF below
    <2> QED
      BY <1>1, <2>1, <2>2 DEF Loading, Idle, Reads
  <1>18. Loading(n, parseType, mode, structureChanged, updateStarted, v)
    <2>1. g.do = Last(stack).do /\ g.do # "links" /\ g.saved = Last(stack).saved
          /\ g.outer = Last(stack).outer /\ g.of = Last(stack).of
      BY <1>10 DEF top
    <2>2. PairData(Last(Front(stack)), g, v)
      BY <1>10 DEF PairData
    <2> HIDE DEF w
    <2> QED
      BY <1>1, <1>7, <1>10, <1>11, <1>12, <1>13, <1>14, <1>15, <1>16, <1>17, <2>1, <2>2, LoadingEnters
         DEF n, w
  <1>19. stack' = n
    BY DEF n, g, e, below
  <1> QED
    BY <1>8, <1>18, <1>19 DEF LoadInv, v

(* An import is one more candidate.                                        *)
OnlyImports(ts, us, t) ==
  /\ DOMAIN us = DOMAIN ts /\ \A u \in DOMAIN ts : u # t => us[u] = ts[u]
  /\ us[t].file = ts[t].file /\ us[t].done = ts[t].done
  /\ us[t].loading = ts[t].loading /\ us[t].broken = ts[t].broken
  /\ DOMAIN us[t] = DOMAIN ts[t] /\ \E c : us[t].imports = Append(ts[t].imports, c)

LEMMA ImportIs ==
  ASSUME NEW ts, NEW t \in DOMAIN ts, TypeFields \subseteq DOMAIN ts[t], "file" \in DOMAIN ts[t],
         NEW c
  PROVE  OnlyImports(ts, [ts EXCEPT ![t].imports = Append(@, c)], t)
  BY DEF TypeFields, OnlyImports

LEMMA MoreImports ==
  ASSUME NEW w, TypesOK(w), LibraryOK(w), NEW v, v.lib = w.lib, v.schemes = w.schemes,
         NEW t \in DOMAIN w.types, OnlyImports(w.types, v.types, t), ~w.types[t].done
  PROVE  Later(w, v) /\ TypesOK(v) /\ LibraryOK(v)
  <1>1. PICK c : v.types[t].imports = Append(w.types[t].imports, c)
    BY DEF OnlyImports
  <1>2. IsStack(w.types[t].imports)
    BY DEF TypesOK
  <1>3. PICK S : w.types[t].imports \in Seq(S)
    BY <1>2 DEF IsStack
  <1>4. /\ IsStack(v.types[t].imports) /\ Len(v.types[t].imports) = Len(w.types[t].imports) + 1
        /\ Len(w.types[t].imports) \in Nat
        /\ \A i \in 1..Len(w.types[t].imports) :
             i \in 1..Len(w.types[t].imports) + 1 /\ v.types[t].imports[i] = w.types[t].imports[i]
    BY <1>1, <1>2, PushedIs
  <1>5. /\ DOMAIN w.types[t].imports = 1..Len(w.types[t].imports)
        /\ DOMAIN v.types[t].imports = 1..Len(v.types[t].imports)
    BY <1>2, <1>4, StackLen
  <1>6. Later(w, v)
    BY <1>4, <1>5 DEF Later, OnlyImports
  <1>7. \A u \in DOMAIN w.types : File(u, v) = File(u, w)
    BY <1>6, FilesLater
  <1>8. ASSUME NEW u \in DOMAIN w.types
        PROVE  /\ DOMAIN v.types[u] = DOMAIN w.types[u] /\ v.types[u].file = w.types[u].file
               /\ v.types[u].broken = w.types[u].broken /\ v.types[u].done = w.types[u].done
               /\ v.types[u].loading = w.types[u].loading /\ IsStack(v.types[u].imports)
    BY <1>4 DEF OnlyImports, TypesOK
  <1>9. DOMAIN v.types = DOMAIN w.types
    BY DEF OnlyImports
  <1>10. TypesOK(v)
    BY <1>7, <1>8, <1>9 DEF TypesOK
  <1> QED
    BY <1>6, <1>10 DEF LibraryOK

LEMMA AddItemLoads == ASSUME LoadInv, lib' = lib, AddItem PROVE LoadInv'
  <1> DEFINE elem == Head(top.rest)
             w == World
             g == Advance(top)
             key == <<top.of, elem.name>>
  <1>1. /\ stack # <<>> /\ top.do = "type" /\ top.rest # <<>> /\ top.asked /\ top.want = <<>>
        /\ UNCHANGED <<parseType, mode, structureChanged, updateStarted>>
    BY DEF AddItem, Running, Answered
  <1>2. /\ StackShape(stack) /\ IsStack(stack) /\ StackData(stack, w) /\ FrameShape(top)
        /\ LibraryOK(w) /\ TypesOK(w) /\ SchemesOK(stack, w)
        /\ Loading(stack, parseType, mode, structureChanged, updateStarted, w)
    BY <1>1, LoadHas DEF LoadInv, Loading
  <1>3. TypeFrame(top, w) /\ below # <<>> /\ PairShape(Last(below), top)
    BY <1>1, LoadHas DEF FrameData
  <1>4. /\ g.do = "type" /\ g.of = top.of
        /\ g.saved = top.saved /\ g.outer = top.outer /\ FrameShape(g)
    BY <1>1, <1>2, AdvanceShape, AdvanceIs DEF FrameShape
  <1>5. ~w.types[top.of].done /\ top.of \in DOMAIN types
    BY <1>3, WorldIs DEF TypeFrame
  <1>6. Later(w, w)
    BY <1>2 DEF Later
  <1>7. CASE /\ elem.tag \in {"region", "entity"} \/ (elem.tag = "scheme" /\ key \in DOMAIN schemes)
             /\ stack' = Append(below, g) /\ UNCHANGED <<types, schemes>>
    <2>1. World' = w
      BY <1>7 DEF World
    <2>2. TypeFrame(g, w)
      BY <1>1, <1>2, <1>3, <1>5, <1>6, <1>7, ItemPasses, WorldIs
    <2>3. FrameData(g, w)
      BY <1>4, <2>2 DEF FrameData
    <2> HIDE DEF g
    <2> QED
      BY <1>1, <1>2, <1>4, <1>7, <2>1, <2>3, GoesOnLoads
  <1>8. CASE elem.tag = "import" /\ stack' = Append(below, g) /\ UNCHANGED <<schemes>>
             /\ types' = IF elem.name \in DOMAIN types
                         THEN [types EXCEPT ![top.of].imports = Append(@, elem.name)] ELSE types
    <2>1. CASE elem.name \notin DOMAIN types
      <3>1. World' = w
        BY <1>8, <2>1 DEF World
      <3>2. TypeFrame(g, w)
        BY <1>1, <1>2, <1>3, <1>5, <1>6, <1>8, ItemPasses
      <3>3. FrameData(g, w)
        BY <1>4, <3>2 DEF FrameData
      <3> HIDE DEF g
      <3> QED
        BY <1>1, <1>2, <1>4, <1>8, <3>1, <3>3, GoesOnLoads
    <2>2. CASE elem.name \in DOMAIN types
      <3> DEFINE v == World'
      <3>1. TypeFields \subseteq DOMAIN types[top.of] /\ "file" \in DOMAIN types[top.of]
        BY <1>2, <1>5, WorldIs DEF TypesOK
      <3>2. OnlyImports(types, types', top.of)
        BY <1>5, <1>8, <2>2, <3>1, ImportIs
      <3>3. Later(w, v) /\ TypesOK(v) /\ LibraryOK(v)
        BY <1>2, <1>5, <1>8, <3>2, MoreImports, WorldIs
      <3>4. \A u \in DOMAIN types : v.types[u].done = w.types[u].done
        BY <3>2, WorldIs DEF OnlyImports
      <3>5. v.schemes = w.schemes
        BY <1>8, WorldIs
      <3>6. \A k \in 1 .. Len(stack) : Undisturbed(stack[k], w, v)
        <4>1. \A k \in 1 .. Len(stack) : FrameData(stack[k], w)
          BY <1>2 DEF StackData
        <4> QED
          BY <3>4, <3>5, <4>1, WorldIs DEF Undisturbed, FrameData, TypeFrame
      <3>7. SchemesOK(stack, v)
        BY <1>2, <3>3, <3>5, SchemesLater
      <3> HIDE DEF v
      <3>8. Loading(stack, parseType, mode, structureChanged, updateStarted, v)
        BY <1>1, <1>2, <3>3, <3>6, <3>7, LoadingLater DEF top
      <3>9. ~v.types[top.of].done
        BY <1>5, <3>4, WorldIs
      <3>10. TypeFrame(g, v)
        BY <1>1, <1>2, <1>3, <1>8, <3>3, <3>9, ItemPasses
      <3>11. FrameData(g, v)
        BY <1>4, <3>10 DEF FrameData
      <3>12. World' = v
        BY DEF v
      <3> HIDE DEF g
      <3> QED
        BY <1>1, <1>4, <1>8, <3>3, <3>8, <3>11, <3>12, GoesOnLoads
    <2> QED
      BY <2>1, <2>2
  <1>9. CASE /\ elem.tag = "scheme" /\ key \notin DOMAIN schemes /\ UNCHANGED types
             /\ schemes' = [k \in DOMAIN schemes \cup {key} |->
                              IF k = key THEN [owner |-> top.of, nodes |-> <<>>] ELSE schemes[k]]
             /\ stack' = Append(Append(below, g), Frame("scheme", key, elem.nodes, None))
    BY <1>1, <1>9, NewSchemeLoads
  <1>10. /\ \/ elem.tag \in {"region", "entity"} /\ stack' = Append(below, g)
               /\ UNCHANGED <<types, schemes>>
            \/ /\ elem.tag = "import" /\ stack' = Append(below, g) /\ UNCHANGED <<schemes>>
               /\ types' = IF elem.name \in DOMAIN types
                           THEN [types EXCEPT ![top.of].imports = Append(@, elem.name)] ELSE types
            \/ /\ elem.tag = "scheme" /\ UNCHANGED types
               /\ IF key \in DOMAIN schemes
                  THEN stack' = Append(below, g) /\ UNCHANGED schemes
                  ELSE /\ schemes' = [k \in DOMAIN schemes \cup {key} |->
                              IF k = key THEN [owner |-> top.of, nodes |-> <<>>] ELSE schemes[k]]
                       /\ stack' = Append(Append(below, g),
                                         Frame("scheme", key, elem.nodes, None))
    BY DEF AddItem, QualifyOwnName
  <1> HIDE DEF g, key, elem
  <1>11. CASE elem.tag \in {"region", "entity"} /\ stack' = Append(below, g)
              /\ UNCHANGED <<types, schemes>>
    BY <1>7, <1>11
  <1>12. CASE elem.tag = "scheme" /\ key \in DOMAIN schemes /\ stack' = Append(below, g)
              /\ UNCHANGED <<types, schemes>>
    BY <1>7, <1>12
  <1> QED
    BY <1>8, <1>9, <1>10, <1>11, <1>12

-----------------------------------------------------------------------------
(* The innermost call goes on, and more is known of the library.           *)
LEMMA LoadingGoesLater ==
  ASSUME NEW s, NEW pt, NEW m, NEW ch, NEW us, NEW w, NEW v, Loading(s, pt, m, ch, us, w),
         s # <<>>, Later(w, v),
         NEW f, FrameShape(f), f.do = Last(s).do, f.do \in {"hrc", "type", "scheme"},
         f.saved = Last(s).saved, f.outer = Last(s).outer, f.of = Last(s).of, FrameData(f, v),
         \A k \in 1..Len(Front(s)) : Undisturbed(Front(s)[k], w, v),
         SchemesOK(Append(Front(s), f), v)
  PROVE  Loading(Append(Front(s), f), pt, m, ch, us, v)
  <1> DEFINE b == Front(s)
             n == Append(b, f)
  <1>1. StackShape(s) /\ IsStack(s) /\ StackShape(b) /\ IsStack(b) /\ StackData(b, w)
    <2>1. StackShape(s) /\ IsStack(s) /\ StackData(s, w)
      BY DEF Loading, Shape, StackShape
    <2>2. StackShape(b)
      BY <2>1, PopStack
    <2> QED
      BY <2>1, <2>2, PopData DEF StackShape
  <1>2. Shape(n, pt, m)
    BY ReplaceShape DEF Loading
  <1>3. n # <<>> /\ Last(n) = f
    BY <1>1, ReplacedIs
  <1>4. StackData(n, v)
    <2>1. StackData(b, v)
      BY <1>1, StackLater
    <2>2. f.do # "qualify"
      OBVIOUS
    <2>3. b # <<>> => PairData(Last(b), f, v)
      BY <2>2 DEF PairData
    <2> HIDE DEF b
    <2> QED
      BY <1>1, <2>1, <2>3, PushData
  <1> HIDE DEF n
  <1>5. TopData(n, v)
    BY <1>2, <1>3, TopCarried DEF Shape
  <1>6. Linking(n, ch, v)
    BY <1>2, <1>3, BusyLinking DEF Shape
  <1>7. Idle(n, us, v)
    <2>1. Reads(s)
      BY <1>1, BusyLinking
    <2> QED
      BY <2>1 DEF Loading, Idle
  <1>8. SchemesOK(n, v)
    BY DEF n
  <1>9. Loading(n, pt, m, ch, us, v)
    BY <1>2, <1>4, <1>5, <1>6, <1>7, <1>8 DEF Loading
  <1> QED
    BY <1>9 DEF n

-----------------------------------------------------------------------------
(* A node is read; keywords may be passed over.                            *)
LEMMA NodePasses ==
  ASSUME NEW w, NEW key, NEW p, p \in Nat, p > 0, NodesRead(key, p, w),
         NodesOf(key, w)[p].tag = "keywords"
  PROVE  NodesRead(key, p + 1, w)
  <1> DEFINE nodes == w.schemes[key].nodes
             all == NodesOf(key, w)
  <1>1. PICK at \in [1 .. Len(nodes) -> 1 .. p - 1] :
          ReadAt(nodes, all, p, at) /\ LinksOK(key[1], nodes, all, at, w)
    BY DEF NodesRead
  <1>2. /\ \A i : i \in 1 .. p - 1 => i \in 1 .. (p + 1) - 1
        /\ \A i \in 1 .. (p + 1) - 1 : i \in 1 .. p - 1 \/ i = p
    OBVIOUS
  <1> HIDE DEF nodes, all
  <1>3. at \in [1 .. Len(nodes) -> 1 .. (p + 1) - 1]
    BY <1>1, <1>2
  <1>4. ReadAt(nodes, all, p + 1, at)
    BY <1>1, <1>2 DEF ReadAt, all
  <1> QED
    BY <1>1, <1>3, <1>4 DEF NodesRead, nodes, all

LEMMA NodeReads ==
  ASSUME NEW w, NEW v, Later(w, v), NEW key, SchemeOK(key, w), Len(NodesOf(key, w)) \in Nat,
         NEW p \in 1 .. Len(NodesOf(key, w)), NodesRead(key, p, w),
         NEW elem, elem = NodesOf(key, w)[p], NEW node,
         v.schemes[key] = [owner |-> key[1], nodes |-> Append(w.schemes[key].nodes, node)],
         node = [tag |-> elem.tag, links |-> node.links], IsStack(node.links),
         Len(node.links) = Len(elem.links),
         \A j \in 1 .. Len(node.links) :
           /\ node.links[j] = [name |-> node.links[j].name, to |-> node.links[j].to]
           /\ LinkOK(key[1], elem.tag = "inherit" /\ j = 1, elem.links[j], node.links[j], w)
  PROVE  SchemeOK(key, v) /\ NodesRead(key, p + 1, v)
  <1> DEFINE nodes == w.schemes[key].nodes
             all == NodesOf(key, w)
             new == Append(nodes, node)
             N == Len(nodes)
  <1>1. /\ key[1] \in DOMAIN w.types /\ w.types[key[1]].loading /\ IsStack(nodes)
        /\ key = <<key[1], key[2]>>
    BY DEF SchemeOK
  <1>2. /\ IsStack(new) /\ Len(new) = N + 1 /\ N \in Nat /\ new[N + 1] = node
        /\ \A i \in 1 .. N : new[i] = nodes[i]
        /\ \A i \in 1 .. N + 1 : i \in 1 .. N \/ i = N + 1
    <2> HIDE DEF nodes
    <2> QED
      BY <1>1, PushedIs
  <1>3. v.schemes[key].nodes = new /\ v.schemes[key] = [owner |-> key[1], nodes |-> new]
    OBVIOUS
  <1>4. PICK at \in [1 .. N -> 1 .. p - 1] :
          ReadAt(nodes, all, p, at) /\ LinksOK(key[1], nodes, all, at, w)
    BY DEF NodesRead
  <1>5. NodesOf(key, v) = all /\ ItemsOf(key[1], v) = ItemsOf(key[1], w)
    BY <1>1, FilesLater
  <1>6. /\ \A i \in 1 .. N : /\ nodes[i] = [tag |-> nodes[i].tag, links |-> nodes[i].links]
                             /\ IsStack(nodes[i].links)
                             /\ \A j \in 1 .. Len(nodes[i].links) :
                                  nodes[i].links[j] = [name |-> nodes[i].links[j].name,
                                                       to |-> nodes[i].links[j].to]
        /\ Min(SchemesAt(ItemsOf(key[1], w), key[2])) \in SchemesAt(ItemsOf(key[1], w), key[2])
    BY DEF SchemeOK
  <1>7. node.tag = elem.tag
    OBVIOUS
  <1> HIDE DEF nodes, all, new, N
  <1>8. SchemeOK(key, v)
    <2>1. key[1] \in DOMAIN v.types /\ v.types[key[1]].loading
      BY <1>1 DEF Later
    <2>2. \A i \in 1 .. N + 1 :
             /\ new[i] = [tag |-> new[i].tag, links |-> new[i].links] /\ IsStack(new[i].links)
             /\ \A j \in 1 .. Len(new[i].links) :
                  new[i].links[j] = [name |-> new[i].links[j].name, to |-> new[i].links[j].to]
      <3>1. \A i \in 1 .. N :
             /\ new[i] = [tag |-> new[i].tag, links |-> new[i].links] /\ IsStack(new[i].links)
             /\ \A j \in 1 .. Len(new[i].links) :
                  new[i].links[j] = [name |-> new[i].links[j].name, to |-> new[i].links[j].to]
        BY <1>2, <1>6
      <3>2. /\ new[N + 1] = [tag |-> new[N + 1].tag, links |-> new[N + 1].links]
            /\ IsStack(new[N + 1].links)
            /\ \A j \in 1 .. Len(new[N + 1].links) :
                  new[N + 1].links[j] = [name |-> new[N + 1].links[j].name,
                                         to |-> new[N + 1].links[j].to]
        BY <1>2, <1>7
      <3> QED
        BY <1>2, <3>1, <3>2
    <2> QED
      <3>1. v.schemes[key] = [owner |-> key[1], nodes |-> v.schemes[key].nodes]
        BY <1>3
      <3>2. Len(v.schemes[key].nodes) = N + 1 /\ IsStack(v.schemes[key].nodes)
        BY <1>2, <1>3
      <3>3. \A i \in 1 .. N + 1 :
             LET x == v.schemes[key].nodes[i]
             IN  /\ x = [tag |-> x.tag, links |-> x.links] /\ IsStack(x.links)
                 /\ \A j \in 1 .. Len(x.links) :
                      x.links[j] = [name |-> x.links[j].name, to |-> x.links[j].to]
        BY ONLY <1>3, <2>2
      <3> QED
        BY ONLY <1>1, <1>5, <1>6, <2>1, <3>1, <3>2, <3>3 DEF SchemeOK
  <1> DEFINE by == [i \in 1 .. N + 1 |-> IF i = N + 1 THEN p ELSE at[i]]
  <1>9. /\ p \in Nat /\ by[N + 1] = p /\ N + 1 \in 1 .. N + 1
        /\ \A i \in 1 .. N : /\ i \in 1 .. N + 1 /\ by[i] = at[i] /\ at[i] \in 1 .. p - 1
                             /\ at[i] \in 1 .. (p + 1) - 1 /\ at[i] < p
        /\ p \in 1 .. (p + 1) - 1 /\ \A k \in 1 .. (p + 1) - 1 : k \in 1 .. p - 1 \/ k = p
    BY <1>2
  <1>10. by \in [1 .. N + 1 -> 1 .. (p + 1) - 1]
    BY <1>2, <1>9
  <1> HIDE DEF by
  <1>11. ReadAt(new, all, p + 1, by)
    <2>1. ASSUME NEW i \in 1 .. N + 1, NEW j \in 1 .. N + 1, i < j PROVE by[i] < by[j]
      <3>1. i \in 1 .. N
        BY <1>2, <2>1
      <3>2. CASE j \in 1 .. N
        BY <1>4, <1>9, <2>1, <3>1, <3>2 DEF ReadAt, N
      <3>3. CASE j = N + 1
        BY <1>9, <3>1, <3>3
      <3> QED
        BY <1>2, <3>2, <3>3
    <2>2. ASSUME NEW k \in 1 .. (p + 1) - 1, all[k].tag # "keywords"
          PROVE  \E i \in 1 .. N + 1 : by[i] = k
      <3>1. CASE k = p
        BY <1>9, <3>1
      <3>2. CASE k \in 1 .. p - 1
        <4>1. PICK i \in 1 .. N : at[i] = k
          BY <1>4, <2>2, <3>2 DEF ReadAt, N
        <4> QED
          BY <1>9, <4>1
      <3> QED
        BY <1>9, <3>1, <3>2
    <2>3. ASSUME NEW i \in 1 .. N + 1
          PROVE  /\ by[i] \in 1 .. (p + 1) - 1 /\ new[i].tag = all[by[i]].tag
                 /\ Len(new[i].links) = Len(all[by[i]].links)
      <3>1. CASE i \in 1 .. N
        BY <1>2, <1>4, <1>9, <3>1 DEF ReadAt, N
      <3>2. CASE i = N + 1
        BY <1>2, <1>7, <1>9, <3>2 DEF all
      <3> QED
        BY <1>2, <3>1, <3>2
    <2> QED
      BY <1>2, <2>1, <2>2, <2>3 DEF ReadAt
  <1>12. LinksOK(key[1], new, all, by, v)
    <2>1. ASSUME NEW i \in 1 .. N + 1, NEW j \in 1 .. Len(new[i].links)
          PROVE  LinkOK(key[1], new[i].tag = "inherit" /\ j = 1, all[by[i]].links[j],
                        new[i].links[j], v)
      <3>1. LinkOK(key[1], new[i].tag = "inherit" /\ j = 1, all[by[i]].links[j],
                        new[i].links[j], w)
        <4>1. CASE i \in 1 .. N
          BY <1>2, <1>4, <1>9, <4>1, Zenon DEF LinksOK, N
        <4>2. CASE i = N + 1
          BY <1>2, <1>7, <1>9, <4>2 DEF all
        <4> QED
          BY <1>2, <4>1, <4>2
      <3> QED
        BY <1>1, <3>1, LinkLater
    <2> QED
      BY <1>2, <2>1 DEF LinksOK
  <1> QED
    BY <1>2, <1>3, <1>5, <1>8, <1>10, <1>11, <1>12 DEF NodesRead

-----------------------------------------------------------------------------
NodeAdded(ss, vs, key, node) ==
  /\ DOMAIN vs = DOMAIN ss /\ \A k \in DOMAIN ss : k # key => vs[k] = ss[k]
  /\ vs[key] = [owner |-> ss[key].owner, nodes |-> Append(ss[key].nodes, node)]

LEMMA AddedIs ==
  ASSUME NEW ss, NEW key \in DOMAIN ss, NEW node,
         ss[key] = [owner |-> ss[key].owner, nodes |-> ss[key].nodes]
  PROVE  NodeAdded(ss, [ss EXCEPT ![key].nodes = Append(@, node)], key, node)
  BY DEF NodeAdded

LEMMA ListedIs ==
  ASSUME NEW s, NEW n \in Nat, DOMAIN s = 1 .. n, s = [i \in 1 .. n |-> s[i]]
  PROVE  IsStack(s) /\ Len(s) = n
  <1> DEFINE S == {s[i] : i \in 1 .. n}
  <1>1. s \in [1 .. n -> S]
    OBVIOUS
  <1>2. s \in Seq(S) /\ Len(s) = n
    BY <1>1
  <1> QED
    BY <1>2 DEF IsStack

(* The links of a node as it is read: an inherit may know its scheme.      *)
EarlyOf(elem, got, i) ==
  IF elem.tag = "inherit" /\ i = 1 /\ got # <<>> THEN got[1] ELSE None
LinksRead(elem, got) ==
  [i \in DOMAIN elem.links |->
    [name |-> IF EarlyOf(elem, got, i) = None THEN elem.links[i]
              ELSE [elem.links[i] EXCEPT !.type = EarlyOf(elem, got, i)[1]],
     to |-> EarlyOf(elem, got, i)]]

LEMMA NewLinks ==
  ASSUME NEW w, NEW t, NEW elem, IsNode(elem), NEW got,
         elem.tag = "inherit" => Len(got) = 1 /\ Glimpsed(t, elem.links[1], got[1], w)
  PROVE  LET links == LinksRead(elem, got)
         IN  /\ IsStack(links) /\ Len(links) = Len(elem.links)
             /\ \A j \in 1 .. Len(links) :
                  /\ links[j] = [name |-> links[j].name, to |-> links[j].to]
                  /\ LinkOK(t, elem.tag = "inherit" /\ j = 1, elem.links[j], links[j], w)
  <1> DEFINE n == Len(elem.links)
             links == LinksRead(elem, got)
  <1>1. n \in Nat /\ DOMAIN elem.links = 1 .. n
    BY ListIsStack, StackLen DEF IsNode
  <1>2. DOMAIN links = 1 .. n /\ links = [i \in 1 .. n |-> links[i]]
    BY <1>1 DEF LinksRead
  <1>3. \A i \in 1 .. n : /\ links[i] = [name |-> links[i].name, to |-> links[i].to]
                          /\ links[i].to = EarlyOf(elem, got, i)
                          /\ EarlyOf(elem, got, i) = None => links[i].name = elem.links[i]
    BY <1>1 DEF LinksRead
  <1> HIDE DEF links
  <1>4. ASSUME NEW j \in 1 .. n
        PROVE  LinkOK(t, elem.tag = "inherit" /\ j = 1, elem.links[j], links[j], w)
    <2>1. CASE EarlyOf(elem, got, j) = None
      <3>1. links[j] = [name |-> elem.links[j], to |-> None]
        BY <1>3, <2>1
      <3> QED
        BY <3>1 DEF LinkOK
    <2>2. CASE EarlyOf(elem, got, j) # None
      <3>1. elem.tag = "inherit" /\ j = 1 /\ links[j].to = got[1] /\ got[1] # None
        BY <1>3, <2>2 DEF EarlyOf
      <3> QED
        BY <3>1 DEF LinkOK
    <2> QED
      BY <2>1, <2>2
  <1> HIDE DEF n
  <1>5. IsStack(links) /\ Len(links) = n
    BY <1>1, <1>2, ListedIs
  <1> QED
    BY <1>3, <1>4, <1>5 DEF n, links

LEMMA AddNodeLoads == ASSUME LoadInv, lib' = lib, AddNode PROVE LoadInv'
  <1> DEFINE w == World
             g == Advance(top)
             elem == Head(top.rest)
             key == top.of
             links == LinksRead(elem, top.got)
             node == [tag |-> elem.tag, links |-> links]
  <1>1. /\ stack # <<>> /\ top.do = "scheme" /\ top.rest # <<>> /\ top.asked /\ top.want = <<>>
        /\ stack' = Append(below, g)
        /\ UNCHANGED <<types, parseType, mode, structureChanged, updateStarted>>
        /\ schemes' = IF KeywordsSkipped(elem, top.got) THEN schemes
                      ELSE [schemes EXCEPT ![key].nodes = Append(@, node)]
    BY DEF AddNode, Running, Answered, LinksRead, EarlyOf
  <1>2. /\ StackShape(stack) /\ IsStack(stack) /\ StackData(stack, w) /\ FrameShape(top)
        /\ LibraryOK(w) /\ TypesOK(w) /\ SchemesOK(stack, w)
        /\ Loading(stack, parseType, mode, structureChanged, updateStarted, w)
    BY <1>1, LoadHas DEF LoadInv, Loading
  <1>3. /\ SchemeFrame(top, w) /\ below # <<>> /\ PairShape(Last(below), top)
        /\ FrameData(Last(below), w)
    BY <1>1, LoadHas DEF FrameData
  <1>4. /\ FrameFields \subseteq DOMAIN g /\ g.do = "scheme" /\ g.of = key /\ g.rest = Tail(top.rest)
        /\ g.saved = top.saved /\ g.outer = top.outer /\ FrameShape(g)
        /\ ~g.asked /\ g.want = <<>> /\ g.got = <<>>
    BY <1>1, <1>2, AdvanceShape, AdvanceIs DEF FrameShape
  <1>5. IsNode(elem) /\ SchemeOK(key, w) /\ key \in DOMAIN w.schemes /\ key[1] \in DOMAIN w.types
    <2>1. IsNode(elem)
      BY <1>1, <1>2, <1>3, InheritAsks
    <2>2. key \in DOMAIN w.schemes /\ key[1] \in DOMAIN w.types
      BY <1>3 DEF SchemeFrame
    <2>3. SchemeOK(key, w)
      BY <1>2, <2>2 DEF SchemesOK
    <2> QED
      BY <2>1, <2>2, <2>3
  <1>6. Len(NodesOf(key, w)) \in Nat
    BY <1>2, <1>5, NodesAre
  <1> DEFINE all == NodesOf(key, w)
  <1>7. PICK p \in 1 .. Len(all) + 1 : From(all, top.rest, p) /\ NodesRead(key, p, w)
    BY <1>3 DEF SchemeFrame
  <1>8. /\ p \in 1 .. Len(all) /\ p \in Nat /\ p > 0 /\ elem = all[p]
        /\ p + 1 \in 1 .. Len(all) + 1 /\ From(all, g.rest, p + 1)
    <2> HIDE DEF all, g
    <2>1. /\ p \in 1 .. Len(all) /\ p \in Nat /\ elem = all[p]
          /\ p + 1 \in 1 .. Len(all) + 1 /\ From(all, g.rest, p + 1)
      <3>1. Len(all) \in Nat
        BY <1>6 DEF all
      <3>2. From(all, top.rest, p) /\ top.rest # <<>>
        BY <1>1, <1>7
      <3>3. /\ p \in 1 .. Len(all) /\ p \in Nat /\ Head(top.rest) = all[p]
            /\ p + 1 \in 1 .. Len(all) + 1 /\ From(all, Tail(top.rest), p + 1)
        BY ONLY <3>1, <3>2, FromNext
      <3> QED
        BY <1>4, <3>3
    <2>2. p > 0
      BY <2>1
    <2> QED
      BY <2>1, <2>2
  <1>9. elem.tag = "inherit" => Len(top.got) = 1 /\ Glimpsed(key[1], elem.links[1], top.got[1], w)
    <2>1. \A x : x # <<>> => <<x>> # <<>>
      OBVIOUS
    <2> QED
      BY <1>1, <1>3 DEF SchemeFrame, Asked
  <1>10. /\ IsStack(links) /\ Len(links) = Len(elem.links)
         /\ \A j \in 1 .. Len(links) :
              /\ links[j] = [name |-> links[j].name, to |-> links[j].to]
              /\ LinkOK(key[1], elem.tag = "inherit" /\ j = 1, elem.links[j], links[j], w)
    BY <1>5, <1>9, NewLinks
  <1> HIDE DEF links
  <1>11. node = [tag |-> elem.tag, links |-> node.links] /\ node.links = links
    OBVIOUS
  <1> HIDE DEF node, elem, g
  <1>12. CASE KeywordsSkipped(elem, top.got)
    <2>1. World' = w
      BY <1>1, <1>12 DEF World
    <2>2. NodesRead(key, p + 1, w)
      BY <1>7, <1>8, <1>12, NodePasses DEF KeywordsSkipped
    <2>3. SchemeFrame(g, w)
      <3>1. \A x, t : Asked(g, x, t, w)
        BY <1>4 DEF Asked
      <3> QED
        BY <1>4, <1>5, <1>8, <2>2, <3>1 DEF SchemeFrame
    <2>4. FrameData(g, w)
      BY <1>4, <2>3 DEF FrameData
    <2> QED
      BY <1>1, <1>2, <1>4, <2>1, <2>4, GoesOnLoads
  <1>13. CASE ~KeywordsSkipped(elem, top.got)
    <2> DEFINE v == World'
    <2>1. /\ schemes[key] = [owner |-> key[1], nodes |-> schemes[key].nodes]
          /\ key \in DOMAIN schemes
      BY <1>5, WorldIs DEF SchemeOK
    <2>2. NodeAdded(schemes, schemes', key, node)
      BY <1>1, <1>13, <2>1, AddedIs
    <2>3. /\ v.lib = w.lib /\ v.types = w.types /\ DOMAIN v.schemes = DOMAIN w.schemes
          /\ \A k \in DOMAIN w.schemes : k # key => v.schemes[k] = w.schemes[k]
          /\ v.schemes[key] = [owner |-> key[1], nodes |-> Append(w.schemes[key].nodes, node)]
      <3>1. /\ v.lib = w.lib /\ v.types = w.types /\ v.schemes = schemes' /\ w.schemes = schemes
        BY <1>1, WorldIs
      <3> HIDE DEF v, w
      <3>2. NodeAdded(w.schemes, v.schemes, key, node)
        BY <2>2, <3>1
      <3>3. w.schemes[key].owner = key[1]
        BY <2>1, <3>1
      <3> QED
        BY ONLY <3>1, <3>2, <3>3 DEF NodeAdded
    <2>4. Later(w, v)
      BY <1>2, <2>3 DEF Later
    <2> HIDE DEF v
    <2>5. SchemeOK(key, v) /\ NodesRead(key, p + 1, v)
      BY <1>5, <1>6, <1>7, <1>8, <1>10, <1>11, <2>3, <2>4, NodeReads
    <2>6. TypesOK(v) /\ LibraryOK(v)
      <3>1. \A u : File(u, v) = File(u, w)
        BY <2>3 DEF File
      <3> QED
        BY <1>2, <2>3, <3>1 DEF TypesOK, LibraryOK
    <2>7. SchemeFrame(g, v)
      <3>1. \A x, t : Asked(g, x, t, v)
        BY <1>4 DEF Asked
      <3>2. NodesOf(key, v) = NodesOf(key, w)
        BY <1>5, <2>4, FilesLater
      <3> QED
        BY <1>4, <1>5, <1>8, <2>3, <2>5, <3>1, <3>2 DEF SchemeFrame
    <2>8. FrameData(g, v)
      BY <1>4, <2>7 DEF FrameData
    <2>9. /\ \A k \in 1..Len(Front(stack)) : Front(stack)[k] = stack[k] /\ k \in 1..Len(stack)
                                             /\ k < Len(stack)
          /\ Len(stack) \in Nat /\ Last(stack) = stack[Len(stack)] /\ Len(stack) \in 1..Len(stack)
      BY <1>1, <1>2, PoppedIs
    <2>10. /\ Len(stack) - 1 \in 1..Len(stack) /\ Last(below) = stack[Len(stack) - 1]
           /\ Last(below).do = "type" /\ Last(below).of = key[1] /\ Last(below).of \in DOMAIN w.types
           /\ ~w.types[key[1]].done
      BY <1>1, <1>2, <1>3, BelowIs DEF below, PairShape, FrameData, TypeFrame
    <2>11. ASSUME NEW k \in 1..Len(Front(stack)) PROVE Undisturbed(Front(stack)[k], w, v)
      <3>1. k \in 1..Len(stack) /\ k < Len(stack) /\ Front(stack)[k] = stack[k]
        BY <2>9
      <3>2. FrameData(stack[k], w)
        BY <1>2, <3>1 DEF StackData
      <3>3. stack[k].do = "scheme" => stack[k].of # key
        <4>1. SUFFICES ASSUME stack[k].do = "scheme", stack[k].of = key PROVE FALSE
          OBVIOUS
        <4>2. k > 1 /\ k - 1 \in 1..Len(stack)
          BY <1>2, <2>9, <3>1, <4>1 DEF StackShape
        <4>3. PairShape(stack[k - 1], stack[k])
          <5>1. k = (k - 1) + 1
            BY <3>1
          <5> QED
            BY <1>2, <3>1, <4>2, <5>1 DEF StackShape
        <4>4. stack[k - 1].do = "type" /\ stack[k - 1].of = key[1]
          BY <4>1, <4>3 DEF PairShape
        <4>5. k - 1 = Len(stack) - 1
          BY <1>2, <2>10, <4>2, <4>4 DEF StackShape
        <4> QED
          BY <2>9, <3>1, <4>5
      <3>4. stack[k].do = "type" => ~v.types[stack[k].of].done
        BY <2>3, <3>2 DEF FrameData, TypeFrame
      <3>5. stack[k].do = "scheme" => v.schemes[stack[k].of] = w.schemes[stack[k].of]
        BY <2>3, <3>2, <3>3 DEF FrameData, SchemeFrame
      <3>6. \A x \in DOMAIN w.schemes : Done(x[1], w) => v.schemes[x] = w.schemes[x]
        BY <2>3, <2>10 DEF Done
      <3> QED
        BY <3>1, <3>4, <3>5, <3>6 DEF Undisturbed
    <2> DEFINE n == Append(Front(stack), g)
    <2>12. /\ Len(n) = Len(stack) /\ n[Len(stack)] = g
           /\ \A k \in 1..Len(stack) : k # Len(stack) => n[k] = stack[k]
      BY <1>1, <1>2, ReplacedIs
    <2> HIDE DEF n
    <2>13. SchemesOK(n, v)
      <3>1. ASSUME NEW x \in DOMAIN v.schemes, x # key
            PROVE  /\ SchemeOK(x, v)
                   /\ \/ NodesRead(x, Len(NodesOf(x, v)) + 1, v)
                      \/ \E k \in 1 .. Len(n) : n[k].do = "scheme" /\ n[k].of = x
        <4>1. x \in DOMAIN w.schemes /\ v.schemes[x] = w.schemes[x] /\ SchemeOK(x, w)
          BY <1>2, <2>3, <3>1 DEF SchemesOK
        <4>2. /\ SchemeOK(x, v) /\ NodesOf(x, v) = NodesOf(x, w)
              /\ \A q : NodesRead(x, q, w) => NodesRead(x, q, v)
          BY <2>4, <4>1, SchemeLater
        <4>3. CASE NodesRead(x, Len(NodesOf(x, w)) + 1, w)
          BY <4>2, <4>3
        <4>4. ASSUME NEW k \in 1 .. Len(stack), stack[k].do = "scheme", stack[k].of = x
              PROVE  \E i \in 1 .. Len(n) : n[i].do = "scheme" /\ n[i].of = x
          <5>1. k # Len(stack)
            BY <2>9, <3>1, <4>4 DEF top
          <5> QED
            BY <2>12, <4>4, <5>1
        <4> QED
          BY <1>2, <4>1, <4>2, <4>3, <4>4 DEF SchemesOK
      <3>2. \E k \in 1 .. Len(n) : n[k].do = "scheme" /\ n[k].of = key
        BY <1>4, <2>9, <2>12
      <3> QED
        BY <2>5, <3>1, <3>2 DEF SchemesOK
    <2>14. Loading(n, parseType, mode, structureChanged, updateStarted, v)
      <3>1. g.do = Last(stack).do /\ g.saved = Last(stack).saved
            /\ g.outer = Last(stack).outer /\ g.of = Last(stack).of
        BY <1>1, <1>4 DEF top
      <3>2. g.do \in {"hrc", "type", "scheme"}
        BY <1>4
      <3>3. SchemesOK(Append(Front(stack), g), v)
        BY <2>13 DEF n
      <3> HIDE DEF w
      <3> QED
        BY <1>1, <1>2, <1>4, <2>4, <2>8, <2>11, <3>1, <3>2, <3>3, LoadingGoesLater DEF n, w
    <2>15. stack' = n
      BY <1>1 DEF n, below
    <2> QED
      BY <1>1, <2>6, <2>14, <2>15 DEF LoadInv, v
  <1> QED
    BY <1>12, <1>13

-----------------------------------------------------------------------------
(* The call that links goes on.                                            *)
LEMMA LinksStep ==
  ASSUME NEW s, NEW pt, NEW pu, NEW m, NEW ch, NEW cu, NEW us, NEW w, NEW v,
         Loading(s, pt, m, ch, us, w), s # <<>>, Last(s).do = "links",
         Later(w, v), SchemesOK(s, v),
         NEW f, FrameShape(f), f.do = "links", f.saved = Last(s).saved, f.outer = Last(s).outer,
         LinksFrame(f, v), f.rest # <<>> => pu = Head(f.rest)[1][1],
         ~cu => \A p : Open(p, v) => p[1] \in f.of \/ \E i \in 1..Len(f.rest) : f.rest[i] = p
  PROVE  Loading(Append(Front(s), f), pu, m, cu, us, v)
  <1> DEFINE b == Front(s)
             n == Append(b, f)
  <1>1. StackShape(s) /\ IsStack(s) /\ StackShape(b) /\ IsStack(b) /\ StackData(b, w)
    <2>1. StackShape(s) /\ IsStack(s) /\ StackData(s, w)
      BY DEF Loading, Shape, StackShape
    <2>2. StackShape(b)
      BY <2>1, PopStack
    <2> QED
      BY <2>1, <2>2, PopData DEF StackShape
  <1>2. /\ Len(s) \in Nat /\ Len(s) \in 1..Len(s) /\ Len(n) = Len(s) /\ n[Len(s)] = f
        /\ n # <<>> /\ Last(n) = f /\ Last(s) = s[Len(s)]
        /\ \A k \in 1..Len(s) : k # Len(s) => k < Len(s) /\ n[k] = s[k]
        /\ \A k \in 1..Len(b) : k \in 1..Len(s) /\ k < Len(s) /\ b[k] = s[k]
    BY <1>1, PoppedIs, ReplacedIs
  <1>3. /\ Len(s) - 1 \in 1..Len(s) /\ s[Len(s) - 1].do = "hrc"
        /\ \A k \in 1..Len(s) : k < Len(s) => s[k].do \in {"hrc", "lookup", "qualify"}
    BY <1>1, <1>2, LinksAlone
  <1>4. Shape(n, pu, m)
    BY ReplaceShape DEF Loading
  <1>5. StackData(n, v)
    <2>1. \A k \in 1..Len(b) : Undisturbed(b[k], w, v)
      BY <1>2, <1>3 DEF Undisturbed
    <2>2. StackData(b, v)
      BY <1>1, <2>1, StackLater
    <2>3. FrameData(f, v)
      BY DEF FrameData
    <2>4. b # <<>> => PairData(Last(b), f, v)
      BY DEF PairData
    <2> HIDE DEF b
    <2> QED
      BY <1>1, <2>2, <2>3, <2>4, PushData
  <1> HIDE DEF n
  <1>6. TopData(n, v)
    BY <1>2, <1>4, TopCarried DEF Shape
  <1>7. SchemesOK(n, v)
    BY <1>2, SchemesCarried
  <1>8. Linking(n, cu, v)
    BY <1>2, <1>4, TopLinking DEF Shape
  <1>9. Idle(n, us, v)
    BY <1>2, <1>3 DEF Loading, Idle, Reads
  <1>10. Loading(n, pu, m, cu, us, v)
    BY <1>4, <1>5, <1>6, <1>7, <1>8, <1>9 DEF Loading
  <1> QED
    BY <1>10 DEF n

(* The call that links, and what is left to link.                          *)
LEMMA LinksHas ==
  ASSUME LoadInv, Running("links")
  PROVE  /\ stack # <<>> /\ top.do = "links" /\ FrameShape(top) /\ LinksFrame(top, World)
         /\ top.saved = None /\ LibraryOK(World) /\ TypesOK(World) /\ SchemesOK(stack, World)
         /\ StackShape(stack) /\ StackData(stack, World) /\ Later(World, World)
         /\ Loading(stack, parseType, mode, structureChanged, updateStarted, World)
         /\ ~structureChanged =>
              \A p : Open(p, World) => \/ p[1] \in top.of
                                       \/ \E i \in 1..Len(top.rest) : top.rest[i] = p
         /\ top.rest # <<>> => /\ parseType = Head(top.rest)[1][1] /\ Head(top.rest) = top.rest[1]
                               /\ Place(Head(top.rest), World)
  <1>1. stack # <<>> /\ top.do = "links"
    BY DEF Running
  <1>2. /\ StackShape(stack) /\ IsStack(stack) /\ StackData(stack, World) /\ FrameShape(top)
        /\ LibraryOK(World) /\ TypesOK(World) /\ SchemesOK(stack, World)
        /\ Loading(stack, parseType, mode, structureChanged, updateStarted, World)
    BY <1>1, LoadHas DEF LoadInv, Loading
  <1>3. LinksFrame(top, World)
    BY <1>1, LoadHas DEF FrameData
  <1>4. /\ Len(stack) \in Nat /\ Len(stack) \in 1..Len(stack) /\ top = stack[Len(stack)]
    BY <1>1, <1>2, PoppedIs DEF top
  <1>5. ~structureChanged =>
          \A p : Open(p, World) => \/ p[1] \in top.of
                                   \/ \E i \in 1..Len(top.rest) : top.rest[i] = p
    <2>1. \A j \in 1..Len(stack) : ~(Len(stack) < j)
      BY <1>4
    <2> QED
      BY <1>1, <1>2, <1>4, <2>1 DEF Loading, Linking
  <1>6. top.rest # <<>> => parseType = Head(top.rest)[1][1]
    BY <1>1, <1>2, LinksParseType DEF Loading, top
  <1>7. top.rest # <<>> => Head(top.rest) = top.rest[1] /\ Place(Head(top.rest), World)
    <2>1. top.rest # <<>> => Head(top.rest) = top.rest[1] /\ 1 \in 1..Len(top.rest)
      BY <1>3, TailIs DEF LinksFrame
    <2> QED
      BY <1>3, <2>1 DEF LinksFrame
  <1>8. Later(World, World)
    BY <1>1, <1>2, SameLater
  <1>9. top.saved = None
    BY <1>1, <1>2 DEF FrameShape
  <1> QED
    BY <1>1, <1>2, <1>3, <1>5, <1>6, <1>7, <1>8, <1>9

LEMMA NextPassLoads == ASSUME LoadInv, lib' = lib, NextPass PROVE LoadInv'
  <1> DEFINE f == [top EXCEPT !.of = DOMAIN schemes]
             w == World
  <1>1. /\ Running("links") /\ top.rest = <<>> /\ structureChanged' = FALSE
        /\ stack' = Append(Front(stack), f)
        /\ UNCHANGED <<types, schemes, parseType, mode, updateStarted>>
    BY DEF NextPass, below, library
  <1>2. /\ stack # <<>> /\ top.do = "links" /\ FrameShape(top) /\ LinksFrame(top, w)
        /\ SchemesOK(stack, w) /\ Later(w, w)
        /\ Loading(stack, parseType, mode, structureChanged, updateStarted, w)
    BY <1>1, LinksHas
  <1>3. /\ FrameFields \subseteq DOMAIN f /\ f.do = top.do /\ f.of = DOMAIN schemes
        /\ f.rest = top.rest /\ f.saved = top.saved /\ f.outer = top.outer
        /\ f.asked = top.asked /\ f.want = top.want /\ f.got = top.got
    BY <1>2 DEF FrameShape, FrameFields
  <1> HIDE DEF f
  <1>4. FrameShape(f)
    BY <1>2, <1>3 DEF FrameShape
  <1>5. LinksFrame(f, w)
    BY <1>1, <1>2, <1>3, WorldIs DEF LinksFrame, Resolved
  <1>6. \A p : Open(p, w) => p[1] \in f.of
    BY <1>3, WorldIs DEF Open, Place
  <1>7. f.do = "links" /\ f.saved = Last(stack).saved /\ f.outer = Last(stack).outer
        /\ f.rest = <<>>
    BY <1>1, <1>2, <1>3 DEF top
  <1> HIDE DEF w
  <1>8. Loading(Append(Front(stack), f), parseType, mode, FALSE, updateStarted, w)
    BY <1>2, <1>4, <1>5, <1>6, <1>7, LinksStep DEF top
  <1>9. Loading(stack', parseType', mode', structureChanged', updateStarted', w)
    BY <1>1, <1>8
  <1> QED
    BY <1>1, <1>9, WorldStays DEF w

(* The next place.                                                         *)
SamePlaces(w, v) ==
  /\ \A p : Place(p, w) => Place(p, v)
  /\ \A t : Done(t, w) => Done(t, v)
  /\ DOMAIN v.schemes = DOMAIN w.schemes

LEMMA NextPlace ==
  ASSUME NEW w, NEW v, NEW g, LinksFrame(g, w), FrameShape(g), g.do = "links", g.rest # <<>>,
         g.want = <<>>, SamePlaces(w, v)
  PROVE  LET f == Advance(g)
         IN  /\ FrameShape(f) /\ f.do = "links" /\ f.saved = g.saved /\ f.outer = g.outer
             /\ f.of = g.of /\ LinksFrame(f, v) /\ (f.rest # <<>> => Head(f.rest)[1] = Head(g.rest)[1])
             /\ \A i \in 1..Len(g.rest) :
                  g.rest[i] = Head(g.rest) \/ \E j \in 1..Len(f.rest) : f.rest[j] = g.rest[i]
  <1> DEFINE f == Advance(g)
             x == Head(g.rest)
  <1>1. /\ FrameFields \subseteq DOMAIN f /\ f.do = "links" /\ f.of = g.of
        /\ f.rest = Tail(g.rest) /\ f.saved = g.saved /\ f.outer = g.outer
        /\ ~f.asked /\ f.got = <<>> /\ f.want = g.want
    BY AdvanceIs DEF FrameShape
  <1>2. FrameShape(f)
    BY AdvanceShape
  <1> HIDE DEF f, x
  <1>3. /\ IsStack(f.rest) /\ Len(f.rest) = Len(g.rest) - 1 /\ Len(g.rest) \in Nat
        /\ \A i \in 1..Len(f.rest) : i + 1 \in 1..Len(g.rest) /\ f.rest[i] = g.rest[i + 1]
        /\ f.rest # <<>> => Head(f.rest) = f.rest[1] /\ 1 \in 1..Len(f.rest)
        /\ 1 \in 1..Len(g.rest) /\ x = g.rest[1]
    <2>1. IsStack(g.rest)
      BY DEF LinksFrame
    <2>2. /\ IsStack(f.rest) /\ Len(f.rest) = Len(g.rest) - 1 /\ Len(g.rest) \in Nat
          /\ \A i \in 1..Len(f.rest) : i + 1 \in 1..Len(g.rest) /\ f.rest[i] = g.rest[i + 1]
          /\ 1 \in 1..Len(g.rest) /\ x = g.rest[1]
      BY <1>1, <2>1, TailIs DEF x
    <2> QED
      BY <2>2, TailIs
  <1>4. \A i \in 1..Len(f.rest) : f.rest[i][1] = x[1] /\ Place(f.rest[i], v)
                                   /\ Done(f.rest[i][1][1], v)
    BY <1>3 DEF LinksFrame, SamePlaces
  <1>5. f.rest # <<>> => Head(f.rest)[1] = x[1] /\ f.rest[1][1] = x[1]
    BY <1>3, <1>4
  <1>6. LinksFrame(f, v)
    <2>1. \A i \in 1..Len(f.rest) : 1 \in 1..Len(f.rest)
      BY <1>3
    <2>2. \A i \in 1..Len(f.rest) : f.rest[i][1] = f.rest[1][1]
      BY <1>4, <2>1
    <2>3. f.of \subseteq DOMAIN v.schemes
      BY <1>1 DEF LinksFrame, SamePlaces
    <2> QED
      BY <1>1, <1>3, <1>4, <2>2, <2>3 DEF LinksFrame, Resolved
  <1>7. ASSUME NEW i \in 1..Len(g.rest), g.rest[i] # x
        PROVE  \E j \in 1..Len(f.rest) : f.rest[j] = g.rest[i]
    <2>1. i # 1
      BY <1>3, <1>7
    <2>2. i - 1 \in 1..Len(f.rest) /\ (i - 1) + 1 = i
      BY <1>3, <2>1
    <2>3. f.rest[i - 1] = g.rest[i]
      BY <1>3, <2>2
    <2> QED
      BY <2>2, <2>3
  <1> QED
    BY <1>1, <1>2, <1>5, <1>6, <1>7 DEF f, x

(* A link that is linked, or has no name any more.                         *)
LEMMA PassLinkLoads == ASSUME LoadInv, lib' = lib, PassLink PROVE LoadInv'
  <1> DEFINE f == Advance(top)
             w == World
             x == Head(top.rest)
  <1>1. /\ Running("links") /\ top.rest # <<>> /\ ~top.asked /\ ~Unlinked(LinkIn(x, w))
        /\ stack' = Append(Front(stack), f)
        /\ UNCHANGED <<types, schemes, parseType, mode, structureChanged, updateStarted>>
    BY WorldIs DEF PassLink, below, library, LinkAt, LinkIn
  <1>2. /\ stack # <<>> /\ top.do = "links" /\ FrameShape(top) /\ LinksFrame(top, w)
        /\ SchemesOK(stack, w) /\ Later(w, w) /\ parseType = x[1][1]
        /\ Loading(stack, parseType, mode, structureChanged, updateStarted, w)
        /\ ~structureChanged =>
              \A p : Open(p, w) => \/ p[1] \in top.of
                                   \/ \E i \in 1..Len(top.rest) : top.rest[i] = p
    BY <1>1, LinksHas
  <1>3. top.want = <<>>
    BY <1>1, <1>2 DEF LinksFrame, Resolved
  <1> HIDE DEF w
  <1>4. /\ FrameShape(f) /\ f.do = "links" /\ f.saved = top.saved /\ f.outer = top.outer
        /\ f.of = top.of /\ LinksFrame(f, w) /\ (f.rest # <<>> => Head(f.rest)[1] = x[1])
        /\ \A i \in 1..Len(top.rest) :
             top.rest[i] = x \/ \E j \in 1..Len(f.rest) : f.rest[j] = top.rest[i]
    <2>1. /\ LinksFrame(top, w) /\ FrameShape(top) /\ top.do = "links" /\ top.rest # <<>>
          /\ top.want = <<>>
      BY <1>1, <1>2, <1>3
    <2>2. SamePlaces(w, w)
      BY DEF SamePlaces
    <2> QED
      BY <2>1, <2>2, NextPlace
  <1> HIDE DEF f, x
  <1>5. ASSUME ~structureChanged, NEW p, Open(p, w)
        PROVE  p[1] \in f.of \/ \E i \in 1..Len(f.rest) : f.rest[i] = p
    <2>1. p # x
      BY <1>1, <1>5 DEF Open
    <2> QED
      BY <1>2, <1>4, <1>5, <2>1
  <1>6. Loading(Append(Front(stack), f), parseType, mode, structureChanged, updateStarted, w)
    BY <1>2, <1>4, <1>5, LinksStep DEF top
  <1>7. Loading(stack', parseType', mode', structureChanged', updateStarted', w)
    BY <1>1, <1>6
  <1> QED
    BY <1>1, <1>7, WorldStays DEF w

-----------------------------------------------------------------------------
(* Each scheme is read up to some node of it.                              *)
LEMMA ReadUpTo ==
  ASSUME NEW w, LibraryOK(w), TypesOK(w), NEW s, SchemesOK(s, w), StackData(s, w),
         NEW key \in DOMAIN w.schemes
  PROVE  /\ SchemeOK(key, w) /\ Len(NodesOf(key, w)) \in Nat
         /\ \A i \in 1..Len(NodesOf(key, w)) : IsNode(NodesOf(key, w)[i])
         /\ \E q \in 1..Len(NodesOf(key, w)) + 1 : NodesRead(key, q, w)
  <1>1. SchemeOK(key, w)
    BY DEF SchemesOK
  <1>2. /\ Len(NodesOf(key, w)) \in Nat
        /\ \A i \in 1..Len(NodesOf(key, w)) : IsNode(NodesOf(key, w)[i])
    BY <1>1, NodesAre
  <1>3. Len(NodesOf(key, w)) + 1 \in 1..Len(NodesOf(key, w)) + 1
    BY <1>2
  <1>4. CASE NodesRead(key, Len(NodesOf(key, w)) + 1, w)
    BY <1>1, <1>2, <1>3, <1>4
  <1>5. ASSUME NEW k \in 1..Len(s), s[k].do = "scheme", s[k].of = key
        PROVE  \E q \in 1..Len(NodesOf(key, w)) + 1 : NodesRead(key, q, w)
    BY <1>5 DEF StackData, FrameData, SchemeFrame
  <1> QED
    BY <1>1, <1>2, <1>4, <1>5 DEF SchemesOK

(* A link that has a name is as it was written.                            *)
LEMMA UnlinkedIs ==
  ASSUME NEW w, LibraryOK(w), TypesOK(w), NEW s, SchemesOK(s, w), StackData(s, w),
         NEW x, Place(x, w), Unlinked(LinkIn(x, w))
  PROVE  LinkIn(x, w).name.kind = "scheme"
  <1> DEFINE key == x[1]
             i == x[2]
             j == x[3]
             nodes == w.schemes[key].nodes
             all == NodesOf(key, w)
             link == nodes[i].links[j]
  <1>1. key \in DOMAIN w.schemes /\ i \in 1..Len(nodes) /\ j \in 1..Len(nodes[i].links)
    BY DEF Place
  <1>2. /\ SchemeOK(key, w) /\ Len(all) \in Nat /\ \A k \in 1..Len(all) : IsNode(all[k])
        /\ \E q \in 1..Len(all) + 1 : NodesRead(key, q, w)
    BY <1>1, ReadUpTo
  <1>3. PICK q \in 1..Len(all) + 1 : NodesRead(key, q, w)
    BY <1>2
  <1>4. PICK at \in [1 .. Len(nodes) -> 1 .. q - 1] :
          ReadAt(nodes, all, q, at) /\ LinksOK(key[1], nodes, all, at, w)
    BY <1>3 DEF NodesRead
  <1>5. link.to = None /\ link.name # None
    BY DEF Unlinked, LinkIn
  <1> HIDE DEF nodes, all, link
  <1> DEFINE e == all[at[i]]
             n == e.links[j]
  <1>6. LinkOK(key[1], nodes[i].tag = "inherit" /\ j = 1, n, link, w)
    BY <1>1, <1>4 DEF LinksOK, link, nodes
  <1>7. link = [name |-> n, to |-> None]
    BY <1>5, <1>6 DEF LinkOK
  <1>8. n.kind = "scheme"
    <2>1. at[i] \in 1..Len(all) /\ Len(nodes[i].links) = Len(e.links)
      <3>1. at[i] \in 1..q - 1 /\ Len(nodes[i].links) = Len(all[at[i]].links)
        BY <1>1, <1>4 DEF ReadAt, nodes
      <3> QED
        BY <1>2, <3>1
    <2>2. IsNode(e)
      BY <1>2, <2>1
    <2> HIDE DEF e
    <2>3. DOMAIN e.links = 1..Len(e.links)
      BY <2>2, ListIsStack, StackLen DEF IsNode
    <2>4. j \in DOMAIN e.links
      BY <1>1, <2>1, <2>3 DEF nodes
    <2> QED
      BY <2>2, <2>4 DEF IsNode
  <1> HIDE DEF n
  <1> QED
    BY <1>7, <1>8 DEF LinkIn, link, nodes

LEMMA AskLinkLoads == ASSUME LoadInv, lib' = lib, AskLink PROVE LoadInv'
  <1> DEFINE w == World
             x == Head(top.rest)
             f == [top EXCEPT !.asked = TRUE, !.want = <<LinkIn(x, w).name>>]
  <1>1. /\ Running("links") /\ top.rest # <<>> /\ ~top.asked /\ Unlinked(LinkIn(x, w))
        /\ stack' = Append(Front(stack), f)
        /\ UNCHANGED <<types, schemes, parseType, mode, structureChanged, updateStarted>>
    BY WorldIs, Zenon DEF AskLink, below, library, LinkAt, LinkIn
  <1>2. /\ stack # <<>> /\ top.do = "links" /\ FrameShape(top) /\ LinksFrame(top, w)
        /\ SchemesOK(stack, w) /\ StackData(stack, w) /\ LibraryOK(w) /\ TypesOK(w)
        /\ Place(x, w)
        /\ Loading(stack, parseType, mode, structureChanged, updateStarted, w)
    BY <1>1, LinksHas
  <1>3. LinkIn(x, w).name.kind = "scheme"
    BY <1>1, <1>2, UnlinkedIs
  <1> HIDE DEF w
  <1>4. /\ FrameFields \subseteq DOMAIN f /\ f.do = "links" /\ f.of = top.of
        /\ f.rest = top.rest /\ f.saved = top.saved /\ f.outer = top.outer
        /\ f.asked /\ f.want = <<LinkIn(x, w).name>> /\ f.got = top.got
    BY <1>2 DEF FrameShape, FrameFields
  <1> HIDE DEF f
  <1>5. FrameShape(f)
    BY <1>1, <1>2, <1>4 DEF FrameShape
  <1>6. LinksFrame(f, w)
    <2>1. top.got = <<>>
      BY <1>1, <1>2 DEF LinksFrame, Resolved
    <2>2. Resolved(f, x, w)
      BY <1>1, <1>3, <1>4, <2>1 DEF Resolved
    <2> QED
      BY <1>2, <1>4, <2>2 DEF LinksFrame
  <1>7. Loading(Append(Front(stack), f), parseType, mode, structureChanged, updateStarted, w)
    BY <1>2, <1>4, <1>5, <1>6, LinksGoOn DEF top
  <1>8. Loading(stack', parseType', mode', structureChanged', updateStarted', w)
    BY <1>1, <1>7
  <1> QED
    BY <1>1, <1>8, WorldStays DEF w

LEMMA EndVisitLoads == ASSUME LoadInv, lib' = lib, EndVisit PROVE LoadInv'
  <1>1. /\ Running("links") /\ top.rest = <<>>
        /\ UNCHANGED <<types, schemes, stack, mode, structureChanged, updateStarted>>
    BY DEF EndVisit, library
  <1>2. /\ stack # <<>> /\ top.do = "links" /\ StackShape(stack)
        /\ Loading(stack, parseType, mode, structureChanged, updateStarted, World)
    BY <1>1, LinksHas
  <1>3. /\ Len(stack) \in Nat /\ Len(stack) \in 1..Len(stack) /\ top = stack[Len(stack)]
    BY <1>2, PoppedIs DEF top, StackShape
  <1>4. \A k \in 1..Len(stack) : ~Sets(stack[k])
    <2>1. \A k \in 1..Len(stack) : k < Len(stack) => stack[k].do \in {"hrc", "lookup", "qualify"}
      BY <1>2, <1>3, LinksAlone
    <2>2. \A k \in 1..Len(stack) : k < Len(stack) \/ k = Len(stack)
      BY <1>3
    <2> QED
      BY <1>1, <1>2, <1>3, <2>1, <2>2 DEF Sets
  <1>5. ParseTypes(stack, parseType')
    BY <1>4 DEF ParseTypes, Innermost
  <1>6. Loading(stack, parseType', mode, structureChanged, updateStarted, World)
    BY <1>2, <1>5 DEF Loading, Shape
  <1> QED
    BY <1>1, <1>6, WorldStays

(* The links are resolved: nothing is left to link, and the load is over.  *)
LEMMA EndLinksLoads == ASSUME LoadInv, lib' = lib, EndLinks PROVE LoadInv'
  <1> DEFINE w == World
             v == World'
             hrc == Last(below)
             n == Front(below)
  <1>1. /\ Running("links") /\ top.of = {} /\ ~structureChanged /\ top.rest = <<>>
        /\ updateStarted' = FALSE /\ stack' = n /\ mode' = hrc.saved
        /\ types' = Closed(hrc.of, FALSE, types)
        /\ UNCHANGED <<schemes, parseType, structureChanged>>
    BY DEF EndLinks, AllLinked
  <1>2. /\ stack # <<>> /\ top.do = "links" /\ FrameShape(top) /\ LinksFrame(top, w)
        /\ SchemesOK(stack, w) /\ StackData(stack, w) /\ LibraryOK(w) /\ TypesOK(w)
        /\ StackShape(stack) /\ IsStack(stack)
        /\ Loading(stack, parseType, mode, structureChanged, updateStarted, w)
        /\ \A p : ~Open(p, w)
    <2>1. \A i \in 1..Len(<<>>) : FALSE
      OBVIOUS
    <2> QED
      BY <1>1, <2>1, LinksHas DEF StackShape
  <1>3. /\ below # <<>> /\ hrc.do = "hrc" /\ hrc.outer /\ HrcFrame(hrc, w)
    BY <1>2, LoadHas DEF PairShape, FrameData
  <1>4. hrc.of \in DOMAIN types /\ TypeFields \subseteq DOMAIN types[hrc.of] /\ "file" \in DOMAIN types[hrc.of]
    BY <1>2, <1>3, WorldIs DEF HrcFrame, TypesOK
  <1>5. OnlyMarks(types, types', hrc.of) /\ (types'[hrc.of].broken => types[hrc.of].broken)
    BY <1>1, <1>4, ClosedAre
  <1>6. SameReading(w, v)
    BY <1>1, <1>2, <1>5, MarksReading, WorldIs
  <1>7. /\ LibraryOK(v) /\ TypesOK(v) /\ Later(w, v)
        /\ Loading(stack, parseType, mode, structureChanged, updateStarted, v)
    <2> HIDE DEF v
    <2> QED
      BY <1>2, <1>6, SameLoading
  <1>8. \A p : ~Open(p, v)
    BY <1>2, <1>6 DEF Open, Place, LinkIn, Done, SameReading
  <1> HIDE DEF v, hrc
  <1>9. Shape(below, parseType, mode)
    BY <1>1, <1>2, PopShape DEF Loading, Sets, top, below
  <1>10. Shape(n, parseType, hrc.saved)
    BY <1>3, <1>9, PopShape DEF Sets, hrc
  <1>11. StackShape(below) /\ IsStack(below)
    BY <1>9 DEF Shape, StackShape
  <1>12. StackData(n, v)
    <2>1. StackData(below, v)
      BY <1>2, <1>7, PopData DEF Loading, below
    <2> QED
      BY <1>3, <1>11, <2>1, PopData
  <1>13. /\ Len(stack) \in Nat /\ Len(stack) > 0 /\ Len(stack) \in 1..Len(stack)
         /\ top = stack[Len(stack)] /\ Len(below) = Len(stack) - 1
         /\ \A k \in 1..Len(below) : k \in 1..Len(stack) /\ below[k] = stack[k]
    BY <1>2, PoppedIs DEF top, below
  <1>14. /\ Len(below) \in Nat /\ Len(below) \in 1..Len(below) /\ hrc = below[Len(below)]
         /\ Len(n) = Len(below) - 1 /\ IsStack(n)
         /\ \A k \in 1..Len(n) : k \in 1..Len(below) /\ k < Len(below) /\ n[k] = below[k]
    BY <1>3, <1>11, PoppedIs DEF hrc
  <1> HIDE DEF n
  <1>15. \A k \in 1..Len(n) : /\ k \in 1..Len(stack) /\ k < Len(stack) /\ n[k] = stack[k]
                              /\ k # Len(stack) - 1 /\ k < Len(below)
    BY <1>13, <1>14
  <1> DEFINE N == Len(stack)
  <1>0. /\ stack[N].do = "links" /\ stack[N - 1].do = "hrc"
        /\ \A j \in 1..N : j < N /\ j # N - 1 => stack[j].do \in {"lookup", "qualify"}
    <2>1. StackShape(stack) /\ N \in 1..Len(stack) /\ stack[N].do = "links"
      BY <1>2, <1>13
    <2> QED
      BY <2>1, LinksAlone
  <1>16. \A k \in 1..Len(stack) : stack[k].do # "scheme"
    <2>1. \A k \in 1..N : k < N \/ k = N
      BY <1>13
    <2> HIDE DEF N
    <2> QED
      BY <1>0, <2>1 DEF N
  <1>17. \A k \in 1..Len(n) : n[k].do \in {"lookup", "qualify"}
    BY <1>0, <1>15
  <1>18. SchemesOK(n, v)
    <2>1. Len(n) \in Nat
      BY <1>14, StackLen
    <2> QED
      BY <1>7, <1>13, <1>16, <2>1, SchemesCarried DEF Loading
  <1>19. TopData(n, v) /\ Linking(n, structureChanged, v) /\ Idle(n, FALSE, v)
    BY <1>8, <1>17 DEF TopData, Linking, Idle, Reads
  <1>20. Loading(n, parseType, hrc.saved, structureChanged, FALSE, v)
    BY <1>10, <1>12, <1>18, <1>19 DEF Loading
  <1>21. Loading(stack', parseType', mode', structureChanged', updateStarted', v)
    BY <1>1, <1>20
  <1> QED
    BY <1>7, <1>21 DEF LoadInv, v

-----------------------------------------------------------------------------
(* Only the link at a place changes.                                       *)
OnlyAt(a, b, i) ==
  /\ DOMAIN b = DOMAIN a /\ b = [k \in DOMAIN a |-> b[k]]
  /\ \A k \in DOMAIN a : k # i => b[k] = a[k]

LEMMA ExceptIs ==
  ASSUME NEW a, NEW i \in DOMAIN a, NEW c
  PROVE  OnlyAt(a, [a EXCEPT ![i] = c], i) /\ [a EXCEPT ![i] = c][i] = c
  BY DEF OnlyAt

LinkSet(ss, vs, x, link) ==
  LET key == x[1]
      i == x[2]
      j == x[3]
  IN  /\ DOMAIN vs = DOMAIN ss /\ \A k \in DOMAIN ss : k # key => vs[k] = ss[k]
      /\ vs[key] = [owner |-> ss[key].owner, nodes |-> vs[key].nodes]
      /\ OnlyAt(ss[key].nodes, vs[key].nodes, i)
      /\ vs[key].nodes[i] = [tag |-> ss[key].nodes[i].tag, links |-> vs[key].nodes[i].links]
      /\ OnlyAt(ss[key].nodes[i].links, vs[key].nodes[i].links, j)
      /\ vs[key].nodes[i].links[j] = link

LEMMA LinkSetIs ==
  ASSUME NEW ss, NEW x, x[1] \in DOMAIN ss,
         ss[x[1]] = [owner |-> ss[x[1]].owner, nodes |-> ss[x[1]].nodes],
         x[2] \in DOMAIN ss[x[1]].nodes,
         ss[x[1]].nodes[x[2]] = [tag |-> ss[x[1]].nodes[x[2]].tag,
                                 links |-> ss[x[1]].nodes[x[2]].links],
         x[3] \in DOMAIN ss[x[1]].nodes[x[2]].links, NEW to
  PROVE  LinkSet(ss, [ss EXCEPT ![x[1]].nodes[x[2]].links[x[3]] = Linked(@, to)], x,
                 [name |-> None, to |-> to])
  <1> DEFINE key == x[1]
             i == x[2]
             j == x[3]
             nodes == ss[key].nodes
             links == nodes[i].links
             link == [name |-> None, to |-> to]
             newlinks == [links EXCEPT ![j] = link]
             newnode == [nodes[i] EXCEPT !.links = newlinks]
             newnodes == [nodes EXCEPT ![i] = newnode]
             new == [ss[key] EXCEPT !.nodes = newnodes]
             vs == [ss EXCEPT ![key] = new]
  <1>1. vs = [ss EXCEPT ![x[1]].nodes[x[2]].links[x[3]] = Linked(@, to)]
    BY DEF Linked
  <1>2. OnlyAt(links, newlinks, j) /\ newlinks[j] = link
    BY ExceptIs
  <1> HIDE DEF newlinks
  <1>3. newnode = [tag |-> nodes[i].tag, links |-> newlinks]
    OBVIOUS
  <1> HIDE DEF newnode
  <1>4. OnlyAt(nodes, newnodes, i) /\ newnodes[i] = newnode
    BY ExceptIs
  <1> HIDE DEF newnodes
  <1>5. new = [owner |-> ss[key].owner, nodes |-> newnodes]
    OBVIOUS
  <1> HIDE DEF new
  <1>6. DOMAIN vs = DOMAIN ss /\ (\A k \in DOMAIN ss : k # key => vs[k] = ss[k]) /\ vs[key] = new
    OBVIOUS
  <1> HIDE DEF vs
  <1>7. vs[key].nodes = newnodes /\ vs[key].nodes[i].links = newlinks
    BY <1>3, <1>4, <1>5, <1>6
  <1>8. LinkSet(ss, vs, x, link)
    BY <1>2, <1>3, <1>4, <1>5, <1>6, <1>7 DEF LinkSet
  <1> QED
    BY <1>1, <1>8

SchemeParts(key, a, w) ==
  /\ key = <<key[1], key[2]>> /\ key[1] \in DOMAIN w.types /\ w.types[key[1]].loading
  /\ Min(SchemesAt(ItemsOf(key[1], w), key[2])) \in SchemesAt(ItemsOf(key[1], w), key[2])
  /\ w.schemes[key].owner = key[1] /\ w.schemes[key] = [owner |-> key[1], nodes |-> a]
  /\ IsStack(a)
  /\ \A k \in 1..Len(a) : /\ a[k] = [tag |-> a[k].tag, links |-> a[k].links]
                          /\ IsStack(a[k].links)
                          /\ \A l \in 1..Len(a[k].links) :
                               a[k].links[l] = [name |-> a[k].links[l].name,
                                                to |-> a[k].links[l].to]

LEMMA SchemeHas ==
  ASSUME NEW w, NEW key, SchemeOK(key, w)
  PROVE  SchemeParts(key, w.schemes[key].nodes, w)
  <1> DEFINE a == w.schemes[key].nodes
  <1>1. w.schemes[key] = [owner |-> key[1], nodes |-> a]
    BY DEF SchemeOK
  <1>2. w.schemes[key].owner = key[1]
    BY <1>1
  <1>3. /\ IsStack(a)
        /\ \A k \in 1..Len(a) : /\ a[k] = [tag |-> a[k].tag, links |-> a[k].links]
                                /\ IsStack(a[k].links)
                                /\ \A l \in 1..Len(a[k].links) :
                                     a[k].links[l] = [name |-> a[k].links[l].name,
                                                      to |-> a[k].links[l].to]
    BY DEF SchemeOK
  <1>4. /\ key = <<key[1], key[2]>> /\ key[1] \in DOMAIN w.types /\ w.types[key[1]].loading
        /\ Min(SchemesAt(ItemsOf(key[1], w), key[2])) \in SchemesAt(ItemsOf(key[1], w), key[2])
    BY DEF SchemeOK
  <1> QED
    BY <1>1, <1>2, <1>3, <1>4 DEF SchemeParts

(* The scheme stays right, when the link is what its name stands for.      *)
LinkMade(w, v, x, to) ==
  /\ Place(x, w) /\ SchemeOK(x[1], w) /\ Done(x[1][1], w)
  /\ Unlinked(LinkIn(x, w)) /\ Settled(x[1][1], LinkIn(x, w).name, to, w)
  /\ Later(w, v) /\ LinkSet(w.schemes, v.schemes, x, [name |-> None, to |-> to])

AsLinked(w, v, x) ==
  /\ SchemeOK(x[1], v)
  /\ \A y : Place(y, v) <=> Place(y, w)
  /\ \A y : Place(y, w) /\ y # x => LinkIn(y, v) = LinkIn(y, w)
  /\ LinkIn(x, v).name = None

LEMMA LinkSetOK ==
  ASSUME NEW w, NEW v, NEW x, NEW to, LinkMade(w, v, x, to),
         NEW p, p \in Nat, NodesRead(x[1], p, w)
  PROVE  AsLinked(w, v, x) /\ NodesRead(x[1], p, v)
  <1>0. /\ Place(x, w) /\ SchemeOK(x[1], w) /\ Done(x[1][1], w)
        /\ Unlinked(LinkIn(x, w)) /\ Settled(x[1][1], LinkIn(x, w).name, to, w)
        /\ Later(w, v) /\ LinkSet(w.schemes, v.schemes, x, [name |-> None, to |-> to])
    BY DEF LinkMade
  <1> DEFINE key == x[1]
             i == x[2]
             j == x[3]
             t == key[1]
             a == w.schemes[key].nodes
             b == v.schemes[key].nodes
             all == NodesOf(key, w)
  <1>1. /\ key \in DOMAIN w.schemes /\ i \in 1..Len(a) /\ j \in 1..Len(a[i].links)
        /\ x = <<key, i, j>>
    BY <1>0 DEF Place
  <1>2. /\ key = <<key[1], key[2]>> /\ t \in DOMAIN w.types /\ w.types[t].loading
        /\ Min(SchemesAt(ItemsOf(t, w), key[2])) \in SchemesAt(ItemsOf(t, w), key[2])
        /\ w.schemes[key].owner = t /\ IsStack(a)
        /\ \A k \in 1..Len(a) : /\ a[k] = [tag |-> a[k].tag, links |-> a[k].links]
                                /\ IsStack(a[k].links)
                                /\ \A l \in 1..Len(a[k].links) :
                                     a[k].links[l] = [name |-> a[k].links[l].name,
                                                      to |-> a[k].links[l].to]
    <2>1. SchemeParts(key, a, w)
      BY <1>0, SchemeHas
    <2> HIDE DEF a, key
    <2> QED
      BY ONLY <2>1 DEF SchemeParts
  <1>3. /\ DOMAIN v.schemes = DOMAIN w.schemes
        /\ \A k \in DOMAIN w.schemes : k # key => v.schemes[k] = w.schemes[k]
        /\ v.schemes[key] = [owner |-> t, nodes |-> b]
        /\ OnlyAt(a, b, i) /\ b[i] = [tag |-> a[i].tag, links |-> b[i].links]
        /\ OnlyAt(a[i].links, b[i].links, j) /\ b[i].links[j] = [name |-> None, to |-> to]
    BY <1>0, <1>2, Zenon DEF LinkSet
  <1>4. NodesOf(key, v) = all /\ ItemsOf(t, v) = ItemsOf(t, w)
    BY <1>0, <1>2, FilesLater
  <1>5. PICK at \in [1 .. Len(a) -> 1 .. p - 1] : ReadAt(a, all, p, at) /\ LinksOK(t, a, all, at, w)
    BY DEF NodesRead
  <1>l. LinkIn(x, w) = a[i].links[j]
    BY DEF LinkIn
  <1> HIDE DEF a, b, all
  <1>6. /\ IsStack(b) /\ Len(b) = Len(a) /\ Len(a) \in Nat /\ DOMAIN a = 1..Len(a)
        /\ \A k \in 1..Len(a) : k # i => b[k] = a[k]
    <2>1. Len(a) \in Nat /\ DOMAIN a = 1..Len(a)
      BY <1>2, StackLen
    <2>2. DOMAIN b = 1..Len(a) /\ b = [k \in 1..Len(a) |-> b[k]]
      BY <1>3, <2>1 DEF OnlyAt
    <2>3. IsStack(b) /\ Len(b) = Len(a)
      BY <2>1, <2>2, ListedIs
    <2>4. \A k \in 1..Len(a) : k # i => b[k] = a[k]
      BY <1>3, <2>1 DEF OnlyAt
    <2> QED
      BY <2>1, <2>3, <2>4
  <1> DEFINE c == a[i].links
             d == b[i].links
  <1>7. /\ IsStack(d) /\ Len(d) = Len(c) /\ Len(c) \in Nat
        /\ \A k \in 1..Len(c) : k # j => d[k] = c[k]
    <2>1. Len(c) \in Nat /\ DOMAIN c = 1..Len(c)
      BY <1>1, <1>2, StackLen, Zenon DEF a
    <2>2. OnlyAt(c, d, j)
      BY <1>3
    <2> HIDE DEF c, d
    <2>3. DOMAIN d = 1..Len(c) /\ d = [k \in 1..Len(c) |-> d[k]]
      BY <2>1, <2>2 DEF OnlyAt
    <2>4. IsStack(d) /\ Len(d) = Len(c)
      BY <2>1, <2>3, ListedIs
    <2>5. \A k \in 1..Len(c) : k # j => d[k] = c[k]
      BY <2>1, <2>2 DEF OnlyAt
    <2> QED
      BY <2>1, <2>4, <2>5
  <1>8. \A k \in 1..Len(a) : b[k].tag = a[k].tag /\ Len(b[k].links) = Len(a[k].links)
    <2> SUFFICES ASSUME NEW k \in 1..Len(a)
                 PROVE  b[k].tag = a[k].tag /\ Len(b[k].links) = Len(a[k].links)
      OBVIOUS
    <2>1. CASE k = i
      <3>1. b[i].tag = a[i].tag
        BY ONLY <1>3
      <3> QED
        BY <1>7, <2>1, <3>1
    <2>2. CASE k # i
      BY <1>6, <2>2
    <2> QED
      BY <2>1, <2>2
  <1>9. \A k \in 1..Len(a) : \A l \in 1..Len(a[k].links) :
          k # i \/ l # j => b[k].links[l] = a[k].links[l]
    BY <1>6, <1>7
  <1>10. SchemeOK(key, v)
    <2>1. t \in DOMAIN v.types /\ v.types[t].loading
      BY <1>0, <1>2 DEF Later
    <2>2. v.schemes[key] = [owner |-> t, nodes |-> v.schemes[key].nodes]
      BY <1>3
    <2>3. ASSUME NEW k \in 1..Len(b)
          PROVE  /\ b[k] = [tag |-> b[k].tag, links |-> b[k].links] /\ IsStack(b[k].links)
                 /\ \A l \in 1..Len(b[k].links) :
                      b[k].links[l] = [name |-> b[k].links[l].name, to |-> b[k].links[l].to]
      <3>1. CASE k = i
        <4>1. b[i] = [tag |-> b[i].tag, links |-> b[i].links] /\ IsStack(b[i].links)
          BY <1>3, <1>7
        <4>2. ASSUME NEW l \in 1..Len(b[i].links)
              PROVE  b[i].links[l] = [name |-> b[i].links[l].name, to |-> b[i].links[l].to]
          <5>1. l \in 1..Len(a[i].links)
            BY <1>7, <4>2
          <5>2. CASE l = j
            BY <1>3, <5>2
          <5>3. CASE l # j
            <6>1. b[i].links[l] = a[i].links[l]
              BY <1>7, <5>1, <5>3
            <6>2. a[i].links[l] = [name |-> a[i].links[l].name, to |-> a[i].links[l].to]
              BY <1>2, <2>3, <3>1, <1>6, <5>1
            <6> QED
              BY ONLY <6>1, <6>2
          <5> QED
            BY <5>2, <5>3
        <4> QED
          BY <3>1, <4>1, <4>2
      <3>2. CASE k # i
        BY <1>2, <1>6, <3>2
      <3> QED
        BY <3>1, <3>2
    <2> QED
      BY <1>2, <1>4, <1>6, <2>1, <2>2, <2>3, Zenon DEF SchemeOK, b
  <1>11. NodesRead(key, p, v)
    <2>1. ReadAt(b, all, p, at)
      BY <1>5, <1>6, <1>8 DEF ReadAt
    <2>2. ASSUME NEW k \in 1..Len(b), NEW l \in 1..Len(b[k].links)
          PROVE  LinkOK(t, b[k].tag = "inherit" /\ l = 1, all[at[k]].links[l], b[k].links[l], v)
      <3>1. k \in 1..Len(a) /\ l \in 1..Len(a[k].links) /\ b[k].tag = a[k].tag
        BY <1>6, <1>8
      <3>2. LinkOK(t, a[k].tag = "inherit" /\ l = 1, all[at[k]].links[l], a[k].links[l], w)
        BY <1>5, <3>1 DEF LinksOK
      <3>3. CASE k # i \/ l # j
        <4>1. b[k].links[l] = a[k].links[l]
          BY <1>9, <3>1, <3>3
        <4> DEFINE ea == a[k].tag = "inherit" /\ l = 1
        <4>2. LinkOK(t, ea, all[at[k]].links[l], b[k].links[l], w)
          BY <3>2, <4>1
        <4> HIDE DEF ea
        <4>3. LinkOK(t, ea, all[at[k]].links[l], b[k].links[l], v)
          BY <1>0, <1>2, <4>2, LinkLater
        <4> QED
          BY <3>1, <4>3 DEF ea
      <3>4. CASE k = i /\ l = j
        <4> DEFINE n == all[at[k]].links[l]
        <4>1. a[i].links[j].to = None /\ a[i].links[j].name # None
          BY <1>0, <1>l DEF Unlinked
        <4> HIDE DEF n
        <4>2. LinkOK(t, a[k].tag = "inherit" /\ l = 1, n, a[i].links[j], w)
          BY <3>2, <3>4 DEF n
        <4>3. a[i].links[j].name = n
          BY <4>1, <4>2 DEF LinkOK
        <4>4. Settled(t, n, to, w)
          BY <1>0, <1>l, <4>3
        <4>5. Settled(t, n, to, v) /\ v.types[t].done
          BY <1>0, <4>4, SettledLater DEF Done, Later
        <4>6. b[k].links[l] = [name |-> None, to |-> to]
          BY <1>3, <3>4
        <4> QED
          BY <4>5, <4>6 DEF LinkOK, n
      <3> QED
        BY <3>3, <3>4
    <2>3. LinksOK(t, b, all, at, v)
      BY <2>2 DEF LinksOK
    <2>4. at \in [1..Len(b) -> 1..p - 1]
      BY <1>6
    <2> QED
      BY <1>4, <2>1, <2>3, <2>4 DEF NodesRead, b
  <1>12. ASSUME NEW y
         PROVE  Place(y, v) <=> Place(y, w)
    <2>1. CASE y[1] = key
      BY <1>3, <1>6, <1>8, <2>1, Zenon DEF Place, a, b
    <2>2. CASE y[1] # key
      BY <1>3, <2>2 DEF Place
    <2> QED
      BY <2>1, <2>2
  <1>13. ASSUME NEW y, Place(y, w), y # x
         PROVE  LinkIn(y, v) = LinkIn(y, w)
    <2>1. /\ y = <<y[1], y[2], y[3]>> /\ y[1] \in DOMAIN w.schemes
          /\ y[2] \in 1..Len(w.schemes[y[1]].nodes)
          /\ y[3] \in 1..Len(w.schemes[y[1]].nodes[y[2]].links)
      BY <1>13 DEF Place
    <2>2. CASE y[1] = key
      <3>1. y[2] # i \/ y[3] # j
        BY <1>1, <1>13, <2>1, <2>2
      <3>2. y[2] \in 1..Len(a) /\ y[3] \in 1..Len(a[y[2]].links)
        BY <2>1, <2>2 DEF a
      <3>3. b[y[2]].links[y[3]] = a[y[2]].links[y[3]]
        BY <1>9, <3>1, <3>2
      <3> QED
        BY <2>2, <3>3 DEF LinkIn, a, b
    <2>3. CASE y[1] # key
      BY <1>3, <2>1, <2>3 DEF LinkIn
    <2> QED
      BY <2>2, <2>3
  <1>14. LinkIn(x, v).name = None
    BY <1>3 DEF LinkIn, b
  <1> QED
    BY <1>10, <1>11, <1>12, <1>13, <1>14 DEF AsLinked

-----------------------------------------------------------------------------
LEMMA NoSchemes ==
  ASSUME NEW s, StackShape(s), s # <<>>, Last(s).do = "links"
  PROVE  \A k \in 1..Len(s) : s[k].do # "scheme"
  <1> DEFINE N == Len(s)
  <1>1. N \in Nat /\ N \in 1..Len(s) /\ Last(s) = s[N]
    BY PoppedIs DEF StackShape
  <1>2. /\ s[N - 1].do = "hrc" /\ s[N].do = "links"
        /\ \A j \in 1..Len(s) : j < N /\ j # N - 1 => s[j].do \in {"lookup", "qualify"}
    BY <1>1, LinksAlone
  <1>3. \A k \in 1..Len(s) : k = N \/ k = N - 1 \/ (k < N /\ k # N - 1)
    BY <1>1
  <1> HIDE DEF N
  <1> QED
    BY <1>2, <1>3

LEMMA UpdateLinkLoads == ASSUME LoadInv, lib' = lib, UpdateSchemeLink PROVE LoadInv'
  <1> DEFINE w == World
             v == World'
             x == Head(top.rest)
             f == Advance(top)
             to == top.got[1]
  <1>1. /\ Running("links") /\ top.rest # <<>> /\ top.asked /\ top.want = <<>>
        /\ schemes' = [schemes EXCEPT ![x[1]].nodes[x[2]].links[x[3]] = Linked(@, to)]
        /\ stack' = Append(Front(stack), f)
        /\ UNCHANGED <<types, parseType, mode, structureChanged, updateStarted>>
    BY Zenon DEF UpdateSchemeLink, Answered, below
  <1>2. /\ stack # <<>> /\ top.do = "links" /\ FrameShape(top) /\ LinksFrame(top, w)
        /\ SchemesOK(stack, w) /\ StackData(stack, w) /\ StackShape(stack)
        /\ LibraryOK(w) /\ TypesOK(w) /\ Place(x, w) /\ parseType = x[1][1] /\ x = top.rest[1]
        /\ Loading(stack, parseType, mode, structureChanged, updateStarted, w)
        /\ ~structureChanged =>
              \A p : Open(p, w) => \/ p[1] \in top.of
                                   \/ \E i \in 1..Len(top.rest) : top.rest[i] = p
    BY <1>1, LinksHas, Zenon
  <1>3. Unlinked(LinkIn(x, w)) /\ Settled(x[1][1], LinkIn(x, w).name, to, w)
    <2>1. Resolved(top, x, w)
      BY <1>2 DEF LinksFrame
    <2>2. \A y : <<y>> # <<>>
      OBVIOUS
    <2> HIDE DEF x, w
    <2> QED
      BY <1>1, <2>1, <2>2 DEF Resolved
  <1>4. Done(x[1][1], w)
    <2>1. 1 \in 1..Len(top.rest)
      BY <1>1, <1>2, TailIs, Zenon DEF LinksFrame
    <2> QED
      BY <1>2, <2>1 DEF LinksFrame
  <1>5. SchemeOK(x[1], w) /\ x[1] \in DOMAIN w.schemes
    BY <1>2 DEF SchemesOK, Place
  <1>6. LinkSet(schemes, schemes', x, [name |-> None, to |-> to])
    <2> DEFINE a == schemes[x[1]].nodes
    <2>1. SchemeParts(x[1], a, w) /\ x[1] \in DOMAIN schemes
      BY <1>5, SchemeHas, WorldIs
    <2>2. x[2] \in 1..Len(a) /\ x[3] \in 1..Len(a[x[2]].links)
      BY <1>2, WorldIs DEF Place
    <2>3. schemes[x[1]] = [owner |-> x[1][1], nodes |-> a]
      BY <2>1, WorldIs, Zenon DEF SchemeParts
    <2> HIDE DEF a
    <2>4. x[2] \in DOMAIN a /\ x[3] \in DOMAIN a[x[2]].links
          /\ a[x[2]] = [tag |-> a[x[2]].tag, links |-> a[x[2]].links]
      BY <2>1, <2>2, StackLen DEF SchemeParts
    <2>5. schemes[x[1]] = [owner |-> schemes[x[1]].owner, nodes |-> schemes[x[1]].nodes]
      BY <2>3
    <2> QED
      BY <1>1, <2>1, <2>4, <2>5, LinkSetIs, Zenon DEF a
  <1>7. /\ v.lib = w.lib /\ v.types = w.types /\ DOMAIN v.schemes = DOMAIN w.schemes
        /\ LinkSet(w.schemes, v.schemes, x, [name |-> None, to |-> to])
        /\ \A k \in DOMAIN w.schemes : k # x[1] => v.schemes[k] = w.schemes[k]
    <2>1. v.lib = w.lib /\ v.types = w.types /\ v.schemes = schemes' /\ w.schemes = schemes
      BY <1>1, WorldIs, Zenon
    <2> HIDE DEF v, w
    <2>2. LinkSet(w.schemes, v.schemes, x, [name |-> None, to |-> to])
      BY <1>6, <2>1
    <2> QED
      BY <2>1, <2>2, Zenon DEF LinkSet
  <1> HIDE DEF v, w, f, x, to
  <1>8. Later(w, v)
    <2>1. \A t \in DOMAIN w.types : w.types[t].loading \/ ~w.types[t].loading
      OBVIOUS
    <2> QED
      BY <1>7 DEF Later
  <1>9. TypesOK(v) /\ LibraryOK(v)
    <2>1. \A u : File(u, v) = File(u, w)
      BY <1>7 DEF File
    <2> QED
      BY <1>2, <1>7, <2>1 DEF TypesOK, LibraryOK
  <1>10. \A key \in DOMAIN w.schemes :
           NodesRead(key, Len(NodesOf(key, w)) + 1, w) /\ Len(NodesOf(key, w)) + 1 \in Nat
    <2>1. \A k \in 1..Len(stack) : stack[k].do # "scheme"
      BY <1>2, NoSchemes DEF top
    <2>2. \A key \in DOMAIN w.schemes : Len(NodesOf(key, w)) \in Nat
      BY <1>2, NodesAre DEF SchemesOK
    <2>3. \A key \in DOMAIN w.schemes : Len(NodesOf(key, w)) + 1 \in Nat
      BY <2>2
    <2> QED
      BY <1>2, <2>1, <2>3 DEF SchemesOK
  <1>11. AsLinked(w, v, x) /\ NodesRead(x[1], Len(NodesOf(x[1], w)) + 1, v)
    <2>1. LinkMade(w, v, x, to)
      BY <1>2, <1>3, <1>4, <1>5, <1>7, <1>8 DEF LinkMade
    <2>2. NodesRead(x[1], Len(NodesOf(x[1], w)) + 1, w) /\ Len(NodesOf(x[1], w)) + 1 \in Nat
      BY <1>5, <1>10
    <2> DEFINE q == Len(NodesOf(x[1], w)) + 1
    <2> HIDE DEF q
    <2>3. AsLinked(w, v, x) /\ NodesRead(x[1], q, v)
      BY <2>1, <2>2, LinkSetOK DEF q
    <2> QED
      BY <2>3 DEF q
  <1>12. /\ SchemeOK(x[1], v) /\ NodesRead(x[1], Len(NodesOf(x[1], w)) + 1, v)
         /\ \A y : Place(y, v) <=> Place(y, w)
         /\ \A y : Place(y, w) /\ y # x => LinkIn(y, v) = LinkIn(y, w)
         /\ LinkIn(x, v).name = None
    BY <1>11 DEF AsLinked
  <1>13. SchemesOK(stack, v)
    <2>1. ASSUME NEW key \in DOMAIN v.schemes
          PROVE  SchemeOK(key, v) /\ NodesRead(key, Len(NodesOf(key, v)) + 1, v)
      <3>1. NodesOf(key, v) = NodesOf(key, w) /\ key \in DOMAIN w.schemes
        <4>1. key \in DOMAIN w.schemes
          BY <1>7
        <4>2. SchemeOK(key, w)
          BY <1>2, <4>1 DEF SchemesOK
        <4>3. key[1] \in DOMAIN w.types
          BY <4>2 DEF SchemeOK
        <4> QED
          BY <1>8, <4>1, <4>3, FilesLater
      <3>2. CASE key = x[1]
        BY <1>12, <3>1, <3>2
      <3>3. CASE key # x[1]
        <4>1. SchemeOK(key, w) /\ v.schemes[key] = w.schemes[key]
          BY <1>2, <1>7, <3>1, <3>3 DEF SchemesOK
        <4> QED
          BY <1>8, <1>10, <3>1, <4>1, SchemeLater
      <3> QED
        BY <3>2, <3>3
    <2> QED
      BY <2>1 DEF SchemesOK
  <1>14. SamePlaces(w, v)
    BY <1>7, <1>12 DEF SamePlaces, Done
  <1>15. /\ FrameShape(f) /\ f.do = "links" /\ f.saved = top.saved /\ f.outer = top.outer
         /\ f.of = top.of /\ LinksFrame(f, v) /\ (f.rest # <<>> => Head(f.rest)[1] = x[1])
         /\ \A i \in 1..Len(top.rest) :
              top.rest[i] = x \/ \E j \in 1..Len(f.rest) : f.rest[j] = top.rest[i]
    <2>1. /\ LinksFrame(top, w) /\ FrameShape(top) /\ top.do = "links" /\ top.rest # <<>>
          /\ top.want = <<>>
      BY <1>1, <1>2, Zenon
    <2> QED
      BY <1>14, <2>1, NextPlace DEF f, x
  <1>16. ASSUME ~structureChanged, NEW p, Open(p, v)
         PROVE  p[1] \in f.of \/ \E i \in 1..Len(f.rest) : f.rest[i] = p
    <2>1. p # x
      BY <1>12, <1>16 DEF Open, Unlinked
    <2>2. Open(p, w)
      BY <1>7, <1>12, <1>16, <2>1 DEF Open, Done
    <2> QED
      BY <1>2, <1>15, <1>16, <2>1, <2>2
  <1>17. Loading(Append(Front(stack), f), parseType, mode, structureChanged, updateStarted, v)
    BY <1>2, <1>8, <1>13, <1>15, <1>16, LinksStep DEF top
  <1>18. Loading(stack', parseType', mode', structureChanged', updateStarted', v)
    BY <1>1, <1>17
  <1> QED
    BY <1>9, <1>18 DEF LoadInv, v

-----------------------------------------------------------------------------
(* The places of a scheme's links. *)

LEMMA Induction ==
  ASSUME NEW S, 0 \in S, \A n \in Nat : n \in S => n + 1 \in S
  PROVE  Nat \subseteq S
  <1> DEFINE T == Nat \ S
  <1>1. ASSUME T # {} PROVE FALSE
    <2>1. PICK m \in T : \A k \in T : ~ (<<k, m>> \in OpToRel(<, Nat))
      BY <1>1, WFMin, NatLessThanWellFounded, Zenon
    <2>2. \A k \in T : <<k, m>> \in OpToRel(<, Nat) <=> k < m
      BY DEF OpToRel
    <2>3. \A k \in T : ~ (k < m)
      BY <2>1, <2>2, Zenon
    <2>4. m \in Nat /\ m # 0
      OBVIOUS
    <2>5. m - 1 \in Nat /\ m - 1 < m /\ (m - 1) + 1 = m
      BY <2>4
    <2>6. m - 1 \in S
      BY <2>3, <2>5
    <2> QED
      BY <2>5, <2>6
  <1> QED
    BY <1>1

(* The lists up to each one put together exist.                            *)
Joins(g, s, n) == g = [i \in 1..n |-> IF i = 1 THEN s[i] ELSE g[i - 1] \o s[i]]

LEMMA JoinsExist == ASSUME NEW s, NEW n \in Nat PROVE \E g : Joins(g, s, n)
  <1> DEFINE S == {m \in Nat : \E g : Joins(g, s, m)}
  <1>1. 0 \in S
    <2> DEFINE g == [i \in 1..0 |-> s[i]]
    <2>1. Joins(g, s, 0)
      BY DEF Joins
    <2> HIDE DEF g
    <2> QED
      BY <2>1
  <1>2. ASSUME NEW m \in Nat, m \in S PROVE m + 1 \in S
    <2>1. PICK g : Joins(g, s, m)
      BY <1>2
    <2> DEFINE h == [i \in 1..m + 1 |-> IF i = m + 1
                       THEN IF i = 1 THEN s[i] ELSE g[i - 1] \o s[i] ELSE g[i]]
    <2>2. /\ \A i \in 1..m : h[i] = g[i]
          /\ h[m + 1] = IF m + 1 = 1 THEN s[m + 1] ELSE g[(m + 1) - 1] \o s[m + 1]
      <3>1. m + 1 \in 1..m + 1 /\ \A i \in 1..m : i \in 1..m + 1 /\ i # m + 1
        OBVIOUS
      <3> QED
        BY <3>1
    <2>3. \A i \in 1..m + 1 : h[i] = IF i = 1 THEN s[i] ELSE h[i - 1] \o s[i]
      <3> TAKE i \in 1..m + 1
      <3>1. CASE i = m + 1
        <4>1. i # 1 => i - 1 \in 1..m
          BY <3>1
        <4> HIDE DEF h
        <4> QED
          BY <2>2, <3>1, <4>1
      <3>2. CASE i \in 1..m
        <4>1. g[i] = IF i = 1 THEN s[i] ELSE g[i - 1] \o s[i]
          BY <2>1, <3>2 DEF Joins
        <4>2. i # 1 => i - 1 \in 1..m
          BY <3>2
        <4> HIDE DEF h
        <4> QED
          BY <2>2, <3>2, <4>1, <4>2
      <3> QED
        BY <3>1, <3>2
    <2>4. h = [i \in 1..m + 1 |-> h[i]]
      OBVIOUS
    <2> HIDE DEF h
    <2>5. Joins(h, s, m + 1)
      BY <2>3, <2>4 DEF Joins
    <2> QED
      BY <2>5
  <1> HIDE DEF S
  <1>3. n \in S
    BY <1>1, <1>2, Induction
  <1> QED
    BY <1>3 DEF S

(* What is put together has the elements of all the lists.                 *)
Occurs(x, t) == \E k \in 1..Len(t) : t[k] = x

LEMMA JoinedHas ==
  ASSUME NEW S, NEW a \in Seq(S), NEW b \in Seq(S), NEW x
  PROVE  Occurs(x, a \o b) <=> Occurs(x, a) \/ Occurs(x, b)
  <1>1. /\ Len(a) \in Nat /\ Len(b) \in Nat /\ Len(a \o b) = Len(a) + Len(b)
        /\ \A k \in 1..Len(a) : (a \o b)[k] = a[k]
        /\ \A k \in 1..Len(b) : (a \o b)[Len(a) + k] = b[k]
    OBVIOUS
  <1> DEFINE c == a \o b
  <1> HIDE DEF c
  <1>2. ASSUME Occurs(x, c) PROVE Occurs(x, a) \/ Occurs(x, b)
    <2>1. PICK k \in 1..Len(c) : c[k] = x
      BY <1>2 DEF Occurs
    <2>2. k \in 1..Len(a) \/ (k - Len(a) \in 1..Len(b) /\ Len(a) + (k - Len(a)) = k)
      BY <1>1, <2>1 DEF c
    <2> QED
      BY <1>1, <2>1, <2>2 DEF Occurs, c
  <1>3. ASSUME Occurs(x, a) PROVE Occurs(x, c)
    <2>1. PICK k \in 1..Len(a) : a[k] = x
      BY <1>3 DEF Occurs
    <2>2. k \in 1..Len(c) /\ c[k] = x
      BY <1>1, <2>1 DEF c
    <2> QED
      BY <2>2 DEF Occurs
  <1>4. ASSUME Occurs(x, b) PROVE Occurs(x, c)
    <2>1. PICK k \in 1..Len(b) : b[k] = x
      BY <1>4 DEF Occurs
    <2>2. Len(a) + k \in 1..Len(c) /\ c[Len(a) + k] = x
      BY <1>1, <2>1 DEF c
    <2> QED
      BY <2>2 DEF Occurs
  <1> QED
    BY <1>2, <1>3, <1>4 DEF c

LEMMA FlatIs ==
  ASSUME NEW S, NEW n \in Nat, NEW s, s \in [1..n -> Seq(S)]
  PROVE  /\ FlattenSeq(s) \in Seq(S)
         /\ \A x : Occurs(x, FlattenSeq(s)) <=> \E i \in 1..n : Occurs(x, s[i])
  <1>1. Len(s) = n
    <2>1. s \in Seq(Seq(S)) /\ DOMAIN s = 1..n
      OBVIOUS
    <2> QED
      BY <2>1
  <1>2. CASE n = 0
    <2>1. FlattenSeq(s) = s /\ s = <<>> /\ Len(s) = 0
      BY <1>1, <1>2 DEF FlattenSeq
    <2> QED
      BY <1>2, <2>1 DEF Occurs
  <1>3. CASE n # 0
    <2> DEFINE g == CHOOSE g : Joins(g, s, n)
               K == {k \in Nat : k \in 1..n =>
                      /\ g[k] \in Seq(S)
                      /\ \A x : Occurs(x, g[k]) <=> \E i \in 1..k : Occurs(x, s[i])}
    <2>1. Joins(g, s, n)
      BY JoinsExist
    <2>2. FlattenSeq(s) = g[n]
      BY <1>1, <1>3 DEF FlattenSeq, Joins
    <2> HIDE DEF g
    <2>3. \A i \in 1..n : g[i] = IF i = 1 THEN s[i] ELSE g[i - 1] \o s[i]
      BY <2>1 DEF Joins
    <2>4. 0 \in K
      OBVIOUS
    <2>5. ASSUME NEW k \in Nat, k \in K, k + 1 \in 1..n
          PROVE  /\ g[k + 1] \in Seq(S)
                 /\ \A x : Occurs(x, g[k + 1]) <=> \E i \in 1..k + 1 : Occurs(x, s[i])
      <3>1. CASE k = 0
        <4>1. 1 \in 1..n /\ k + 1 = 1
          BY <2>5, <3>1
        <4>2. g[1] = s[1] /\ s[1] \in Seq(S)
          BY <2>3, <4>1
        <4>3. \A i \in 1..k + 1 : i = 1
          BY <4>1
        <4>4. 1 \in 1..k + 1
          BY <4>1
        <4> QED
          BY <4>1, <4>2, <4>3, <4>4
      <3>2. CASE k # 0
        <4>1. k \in 1..n /\ k + 1 # 1 /\ (k + 1) - 1 = k
          BY <2>5, <3>2
        <4>2. g[k + 1] = g[k] \o s[k + 1] /\ s[k + 1] \in Seq(S)
          BY <2>3, <2>5, <4>1
        <4>3. /\ g[k] \in Seq(S)
              /\ \A x : Occurs(x, g[k]) <=> \E i \in 1..k : Occurs(x, s[i])
          BY <2>5, <4>1
        <4>4. /\ k + 1 \in 1..k + 1 /\ \A i \in 1..k : i \in 1..k + 1
              /\ \A i \in 1..k + 1 : i \in 1..k \/ i = k + 1
          OBVIOUS
        <4>5. \A x : Occurs(x, g[k + 1]) <=> Occurs(x, g[k]) \/ Occurs(x, s[k + 1])
          BY <4>2, <4>3, JoinedHas
        <4>6. g[k + 1] \in Seq(S)
          BY <4>2, <4>3
        <4> HIDE DEF K
        <4> QED
          BY <4>3, <4>4, <4>5, <4>6
      <3> QED
        BY <3>1, <3>2
    <2>6. ASSUME NEW k \in Nat, k \in K PROVE k + 1 \in K
      <3>1. k + 1 \in Nat
        OBVIOUS
      <3>2. k + 1 \in 1..n => /\ g[k + 1] \in Seq(S)
                              /\ \A x : Occurs(x, g[k + 1]) <=> \E i \in 1..k + 1 : Occurs(x, s[i])
        <4> HIDE DEF K
        <4> QED
          BY <2>5, <2>6
      <3> QED
        BY <3>1, <3>2
    <2>7. n \in K
      <3> HIDE DEF K
      <3> QED
        BY <2>4, <2>6, Induction
    <2>8. n \in 1..n
      BY <1>3
    <2> QED
      BY <2>2, <2>7, <2>8
  <1> QED
    BY <1>2, <1>3

-----------------------------------------------------------------------------
LEMMA PlacesAre ==
  ASSUME NEW key \in DOMAIN schemes, SchemeOK(key, World)
  PROVE  /\ IsStack(Places(key))
         /\ \A i \in 1..Len(Places(key)) :
              Places(key)[i][1] = key /\ Place(Places(key)[i], World)
         /\ \A p : Place(p, World) /\ p[1] = key => Occurs(p, Places(key))
  <1> DEFINE a == schemes[key].nodes
             n == Len(a)
             S == {key} \X Nat \X Nat
             row(i) == [j \in DOMAIN a[i].links |-> <<key, i, j>>]
             s == [i \in DOMAIN a |-> row(i)]
  <1>1. SchemeParts(key, a, World)
    BY SchemeHas, WorldIs
  <1>2. n \in Nat /\ DOMAIN a = 1..n
    BY <1>1, StackLen DEF SchemeParts
  <1>3. \A i \in 1..n : Len(a[i].links) \in Nat /\ DOMAIN a[i].links = 1..Len(a[i].links)
    BY <1>1, StackLen DEF SchemeParts
  <1>4. Places(key) = FlattenSeq(s)
    BY DEF Places
  <1> HIDE DEF a, n
  <1>5. \A i \in 1..n : row(i) = [j \in 1..Len(a[i].links) |-> <<key, i, j>>]
    BY <1>3
  <1>6. s = [i \in 1..n |-> row(i)]
    BY <1>2
  <1>7. ASSUME NEW i \in 1..n
        PROVE  /\ row(i) \in Seq(S) /\ Len(row(i)) = Len(a[i].links)
               /\ \A j \in 1..Len(a[i].links) : row(i)[j] = <<key, i, j>>
    <2>1. PICK m \in Nat : m = Len(a[i].links)
      BY <1>3
    <2>2. row(i) = [j \in 1..m |-> <<key, i, j>>]
      BY <1>5, <2>1
    <2>3. \A j \in 1..m : <<key, i, j>> \in S
      BY <1>2
    <2> HIDE DEF S, row
    <2>4. row(i) \in [1..m -> S]
      BY <2>2, <2>3
    <2>5. row(i) \in Seq(S) /\ Len(row(i)) = m
      BY <2>2, <2>4
    <2> QED
      BY <2>1, <2>2, <2>5
  <1> HIDE DEF row, s, S
  <1>8. s \in [1..n -> Seq(S)] /\ \A i \in 1..n : s[i] = row(i)
    BY <1>6, <1>7
  <1>9. /\ Places(key) \in Seq(S)
        /\ \A x : Occurs(x, Places(key)) <=> \E i \in 1..n : Occurs(x, s[i])
    BY <1>2, <1>4, <1>8, FlatIs
  <1>10. ASSUME NEW k \in 1..Len(Places(key))
         PROVE  Places(key)[k][1] = key /\ Place(Places(key)[k], World)
    <2> DEFINE x == Places(key)[k]
    <2>1. Occurs(x, Places(key))
      BY DEF Occurs
    <2>2. PICK i \in 1..n : Occurs(x, s[i])
      BY <1>9, <2>1
    <2>3. PICK j \in 1..Len(a[i].links) : x = <<key, i, j>>
      BY <1>7, <1>8, <2>2 DEF Occurs
    <2>4. x[1] = key /\ x[2] = i /\ x[3] = j
      BY <2>3
    <2> HIDE DEF x
    <2>5. Place(x, World)
      BY <2>3, <2>4, WorldIs DEF Place, a, n
    <2> QED
      BY <2>4, <2>5 DEF x
  <1>11. ASSUME NEW p, Place(p, World), p[1] = key PROVE Occurs(p, Places(key))
    <2>1. p = <<key, p[2], p[3]>> /\ p[2] \in 1..n /\ p[3] \in 1..Len(a[p[2]].links)
      BY <1>11, WorldIs DEF Place, a, n
    <2>2. s[p[2]][p[3]] = p /\ Len(s[p[2]]) = Len(a[p[2]].links)
      BY <1>7, <1>8, <2>1
    <2>3. Occurs(p, s[p[2]])
      BY <2>1, <2>2 DEF Occurs
    <2> QED
      BY <1>9, <2>1, <2>3
  <1> QED
    BY <1>9, <1>10, <1>11 DEF IsStack

LEMMA VisitSchemeLoads == ASSUME LoadInv, lib' = lib, VisitScheme PROVE LoadInv'
  <1> DEFINE w == World
  <1>1. PICK key \in top.of :
          LET next == [top EXCEPT !.of = @ \ {key}]
          IN  IF types[schemes[key].owner].done
              THEN /\ stack' = Append(below, [next EXCEPT !.rest = Places(key)])
                   /\ parseType' = schemes[key].owner
              ELSE stack' = Append(below, next) /\ UNCHANGED parseType
    BY Zenon DEF VisitScheme
  <1>2. /\ Running("links") /\ top.rest = <<>> /\ ~structureChanged
        /\ UNCHANGED <<types, schemes, mode, structureChanged, updateStarted>>
    BY DEF VisitScheme, library
  <1>3. /\ stack # <<>> /\ top.do = "links" /\ FrameShape(top) /\ LinksFrame(top, w)
        /\ SchemesOK(stack, w) /\ Later(w, w) /\ top.saved = None
        /\ Loading(stack, parseType, mode, structureChanged, updateStarted, w)
        /\ \A p : Open(p, w) => p[1] \in top.of \/ \E i \in 1..Len(top.rest) : top.rest[i] = p
    BY <1>2, LinksHas
  <1>4. key \in DOMAIN schemes /\ SchemeOK(key, w)
    BY <1>3, WorldIs DEF LinksFrame, SchemesOK
  <1>5. SchemeParts(key, schemes[key].nodes, w) /\ schemes[key].owner = key[1]
    <2>1. SchemeParts(key, schemes[key].nodes, w)
      BY <1>4, SchemeHas, WorldIs
    <2> QED
      BY <2>1, WorldIs DEF SchemeParts
  <1>6. key[1] \in DOMAIN types
    BY <1>5, WorldIs DEF SchemeParts
  <1>7. ~top.asked /\ top.want = <<>> /\ top.got = <<>>
    BY <1>2, <1>3 DEF LinksFrame, Resolved
  <1>8. \A p : ~ \E i \in 1..Len(top.rest) : top.rest[i] = p
    BY <1>2
  <1>9. CASE types[schemes[key].owner].done
    <2> DEFINE f == [[top EXCEPT !.of = @ \ {key}] EXCEPT !.rest = Places(key)]
    <2>1. /\ FrameFields \subseteq DOMAIN f /\ f.do = top.do /\ f.of = top.of \ {key}
          /\ f.rest = Places(key) /\ f.saved = top.saved /\ f.outer = top.outer
          /\ f.asked = top.asked /\ f.want = top.want /\ f.got = top.got
      BY <1>3 DEF FrameShape, FrameFields
    <2>2. stack' = Append(Front(stack), f) /\ parseType' = key[1]
      BY <1>1, <1>5, <1>9 DEF below
    <2> HIDE DEF f
    <2>3. /\ IsStack(f.rest)
          /\ \A i \in 1..Len(f.rest) : f.rest[i][1] = key /\ Place(f.rest[i], w)
          /\ \A p : Place(p, w) /\ p[1] = key => Occurs(p, f.rest)
      BY <1>4, <2>1, PlacesAre
    <2>4. Done(key[1], w)
      BY <1>5, <1>6, <1>9, WorldIs DEF Done
    <2>5. FrameShape(f)
      BY <1>2, <1>3, <1>7, <2>1 DEF FrameShape
    <2>6. f.rest # <<>> => 1 \in 1..Len(f.rest) /\ Head(f.rest) = f.rest[1]
      BY <2>3, TailIs
    <2>7. LinksFrame(f, w)
      <3>1. \A i \in 1..Len(f.rest) : 1 \in 1..Len(f.rest)
        <4>1. Len(f.rest) \in Nat
          BY <2>3, StackLen
        <4> QED
          BY <4>1
      <3>2. \A i \in 1..Len(f.rest) : /\ Place(f.rest[i], w) /\ f.rest[i][1] = f.rest[1][1]
                                      /\ Done(f.rest[i][1][1], w)
        BY <2>3, <2>4, <3>1
      <3>3. f.of \subseteq DOMAIN w.schemes
        BY <1>3, <2>1 DEF LinksFrame
      <3> QED
        BY <1>7, <2>1, <2>3, <3>2, <3>3 DEF LinksFrame, Resolved
    <2>8. f.rest # <<>> => key[1] = Head(f.rest)[1][1]
      BY <2>3, <2>6
    <2>9. ASSUME NEW p, Open(p, w) PROVE p[1] \in f.of \/ \E i \in 1..Len(f.rest) : f.rest[i] = p
      <3>1. CASE p[1] = key
        BY <2>3, <2>9, <3>1 DEF Open, Occurs
      <3>2. CASE p[1] # key
        BY <1>3, <1>8, <2>1, <2>9, <3>2
      <3> QED
        BY <3>1, <3>2
    <2>10. f.do = "links" /\ f.saved = Last(stack).saved /\ f.outer = Last(stack).outer
      BY <1>3, <2>1 DEF top
    <2> HIDE DEF w
    <2>11. Loading(Append(Front(stack), f), key[1], mode, structureChanged, updateStarted, w)
      BY <1>3, <2>5, <2>7, <2>8, <2>9, <2>10, LinksStep DEF top
    <2>12. Loading(stack', parseType', mode', structureChanged', updateStarted', w)
      BY <1>2, <2>2, <2>11
    <2> QED
      BY <1>2, <2>12, WorldStays DEF w
  <1>10. CASE ~types[schemes[key].owner].done
    <2> DEFINE f == [top EXCEPT !.of = @ \ {key}]
    <2>1. /\ FrameFields \subseteq DOMAIN f /\ f.do = top.do /\ f.of = top.of \ {key}
          /\ f.rest = top.rest /\ f.saved = top.saved /\ f.outer = top.outer
          /\ f.asked = top.asked /\ f.want = top.want /\ f.got = top.got
      BY <1>3 DEF FrameShape, FrameFields
    <2>2. stack' = Append(Front(stack), f) /\ parseType' = parseType
      BY <1>1, <1>10 DEF below
    <2> HIDE DEF f
    <2>3. FrameShape(f)
      BY <1>3, <2>1 DEF FrameShape
    <2>4. LinksFrame(f, w)
      BY <1>2, <1>3, <1>7, <2>1 DEF LinksFrame, Resolved
    <2>5. ~Done(key[1], w)
      BY <1>5, <1>10, WorldIs DEF Done
    <2>6. \A p : Open(p, w) => p[1] \in f.of
      BY <1>3, <1>8, <2>1, <2>5 DEF Open
    <2>7. /\ f.do = "links" /\ f.saved = Last(stack).saved /\ f.outer = Last(stack).outer
          /\ f.rest = <<>>
      BY <1>2, <1>3, <2>1 DEF top
    <2> HIDE DEF w
    <2>8. Loading(Append(Front(stack), f), parseType, mode, structureChanged, updateStarted, w)
      BY <1>3, <2>3, <2>4, <2>6, <2>7, LinksStep DEF top
    <2>9. Loading(stack', parseType', mode', structureChanged', updateStarted', w)
      BY <1>2, <2>2, <2>8
    <2> QED
      BY <1>2, <2>9, WorldStays DEF w
  <1> QED
    BY <1>9, <1>10

-----------------------------------------------------------------------------
(* Whatever the loader does next.                                          *)
LEMMA StepLoads == ASSUME LoadInv, ContextInv, lib' = lib, Step PROVE LoadInv'
  <1>1. CASE AddPrototype
    BY <1>1, AddPrototypeLoads
  <1>2. CASE AddType
    BY <1>2, AddTypeLoads
  <1>3. CASE EndType
    BY <1>3, EndTypeLoads
  <1>4. CASE EndHRC
    BY <1>4, EndHRCLoads
  <1>5. CASE Qualify
    BY <1>5, QualifyLoads
  <1>6. CASE LookIn
    BY <1>6, LookInLoads
  <1>7. CASE NotFound
    BY <1>7, NotFoundLoads
  <1>8. CASE Asks
    BY <1>8, AsksLoads
  <1>9. CASE AddItem
    BY <1>9, AddItemLoads
  <1>10. CASE AddNode
    BY <1>10, AddNodeLoads
  <1>11. CASE EndScheme \/ EndLookup
    BY <1>11, EndSchemeLoads
  <1>12. CASE NextPass
    BY <1>12, NextPassLoads
  <1>13. CASE VisitScheme
    BY <1>13, VisitSchemeLoads
  <1>14. CASE PassLink
    BY <1>14, PassLinkLoads
  <1>15. CASE AskLink
    BY <1>15, AskLinkLoads
  <1>16. CASE UpdateSchemeLink
    BY <1>16, UpdateLinkLoads
  <1>17. CASE EndVisit
    BY <1>17, EndVisitLoads
  <1>18. CASE EndLinks
    BY <1>18, EndLinksLoads
  <1> QED
    BY ONLY <1>1, <1>2, <1>3, <1>4, <1>5, <1>6, <1>7, <1>8, <1>9, <1>10, <1>11, <1>12, <1>13,
            <1>14, <1>15, <1>16, <1>17, <1>18, Step DEF Step

(* Nothing is loaded yet.                                                  *)
LEMMA NothingLoading ==
  ASSUME NEW pt, NEW m, NEW ch, NEW us, NEW w, DOMAIN w.schemes = {}
  PROVE  Loading(<<>>, pt, m, ch, us, w)
  <1>1. IsStack(<<>>) /\ Len(<<>>) = 0 /\ 1..0 = {}
    BY DEF IsStack
  <1>2. \A p : ~Open(p, w)
    BY DEF Open, Place
  <1>3. Shape(<<>>, pt, m)
    <2>1. StackShape(<<>>)
      BY <1>1 DEF StackShape
    <2>2. ParseTypes(<<>>, pt) /\ Modes(<<>>, m)
      BY <1>1 DEF ParseTypes, Modes
    <2> QED
      BY <2>1, <2>2 DEF Shape
  <1>4. StackData(<<>>, w) /\ TopData(<<>>, w) /\ SchemesOK(<<>>, w) /\ Linking(<<>>, ch, w)
    BY <1>1 DEF StackData, TopData, SchemesOK, Linking
  <1>5. Idle(<<>>, us, w)
    BY <1>1, <1>2 DEF Idle, Reads
  <1> QED
    BY <1>3, <1>4, <1>5 DEF Loading

(* The first call: it reads a file, or looks a region up.                  *)
LEMMA LoadingBegins ==
  ASSUME NEW pt, NEW m, NEW mu, NEW ch, NEW us, NEW uu, NEW w, Loading(<<>>, pt, m, ch, us, w),
         NEW f, FrameShape(f), f.do \in {"lookup", "hrc"}, FrameData(f, w),
         IF f.do = "hrc" THEN f.saved = m /\ mu = "TYPE" /\ uu ELSE mu = m /\ uu = us
  PROVE  Loading(<<f>>, pt, mu, ch, uu, w)
  <1>1. IsStack(<<>>) /\ Len(<<>>) = 0 /\ 1..0 = {} /\ Append(<<>>, f) = <<f>>
    BY DEF IsStack
  <1>2. Len(<<f>>) = 1 /\ <<f>>[1] = f /\ \A k \in 1..1 : k = 1
    OBVIOUS
  <1>3. Shape(<<f>>, pt, mu)
    <2>1. Shape(<<>>, pt, m)
      BY DEF Loading
    <2>2. f.do # "links" /\ f.do # "type"
      OBVIOUS
    <2>3. \A k \in 1..Len(<<>>) : <<>>[k].do # "hrc"
      BY <1>1
    <2>4. IF f.do = "hrc"
          THEN /\ f.outer => \A k \in 1..Len(<<>>) : <<>>[k].do # "hrc"
               /\ f.saved = m /\ mu = "TYPE"
          ELSE mu = m
      BY <2>3
    <2>5. Shape(Append(<<>>, f), pt, mu)
      BY <2>1, <2>2, <2>4, PushShape
    <2> QED
      BY <1>1, <2>5
  <1>4. StackData(<<f>>, w)
    <2>1. \A j, k \in 1..1 : k # j + 1
      OBVIOUS
    <2> QED
      BY <1>2, <2>1 DEF StackData
  <1>5. TopData(<<f>>, w) /\ Linking(<<f>>, ch, w)
    BY <1>2 DEF TopData, Linking
  <1>6. SchemesOK(<<f>>, w)
    BY <1>1, <1>2 DEF Loading, SchemesOK
  <1>7. Idle(<<f>>, uu, w)
    BY <1>1, <1>2 DEF Loading, Idle, Reads
  <1> QED
    BY <1>3, <1>4, <1>5, <1>6, <1>7 DEF Loading

LEMMA OpenFileLoads ==
  ASSUME LoadInv, lib' = lib, stack = <<>>, NEW t \in DOMAIN types, LoadFileType(t, <<>>),
         UNCHANGED <<schemes, parseType, structureChanged>>
  PROVE  LoadInv'
  <1> DEFINE w == World
             v == World'
             e == [Frame("hrc", t, lib.files[types[t].file], mode) EXCEPT !.outer = ~updateStarted]
  <1>1. /\ LibraryOK(w) /\ TypesOK(w)
        /\ Loading(<<>>, parseType, mode, structureChanged, updateStarted, w)
    BY DEF LoadInv
  <1>2. File(t, w) = lib.files[types[t].file]
    BY WorldIs DEF File
  <1>3. TypeFields \subseteq DOMAIN types[t] /\ "file" \in DOMAIN types[t]
    BY <1>1, WorldIs DEF TypesOK
  <1>4. CASE types[t].loading \/ types[t].source \/ types[t].broken
    <2>1. stack' = <<>> /\ UNCHANGED <<types, mode, updateStarted>>
      BY <1>4 DEF LoadFileType
    <2>2. Loading(stack', parseType', mode', structureChanged', updateStarted', w)
      BY <1>1, <2>1
    <2> QED
      BY <2>1, <2>2, WorldStays
  <1>5. CASE /\ ~(types[t].loading \/ types[t].source \/ types[t].broken)
             /\ lib.files[types[t].file] = Bad
    <2>1. /\ stack' = <<>> /\ UNCHANGED <<mode, updateStarted>>
          /\ types' = [types EXCEPT ![t].broken = TRUE]
      BY <1>5 DEF LoadFileType
    <2>2. OnlyMarks(types, types', t)
      BY <1>3, <2>1, MarksAre
    <2>3. SameReading(w, v)
      BY <1>1, <1>2, <1>5, <2>2, MarksReading, WorldIs
    <2> HIDE DEF v, w
    <2>4. /\ LibraryOK(v) /\ TypesOK(v)
          /\ Loading(<<>>, parseType, mode, structureChanged, updateStarted, v)
      BY <1>1, <2>3, SameLoading
    <2>5. Loading(stack', parseType', mode', structureChanged', updateStarted', v)
      BY <2>1, <2>4
    <2> QED
      BY <2>4, <2>5 DEF LoadInv, v
  <1>6. CASE /\ ~(types[t].loading \/ types[t].source \/ types[t].broken)
             /\ lib.files[types[t].file] # Bad
    <2>1. /\ stack' = Append(<<>>, e) /\ mode' = "TYPE" /\ updateStarted' = TRUE
          /\ types' = [types EXCEPT ![t].source = TRUE]
      BY <1>6 DEF LoadFileType, ParseHRC
    <2>2. OnlyMarks(types, types', t) /\ types'[t].broken = types[t].broken
      BY <1>3, <2>1, MarksAre
    <2>3. SameReading(w, v)
      BY <1>1, <2>2, MarksReading, WorldIs
    <2>4. e = [Frame("hrc", t, File(t, w), mode) EXCEPT !.outer = ~updateStarted]
      BY <1>2
    <2>5. v.lib = lib /\ v.types = types' /\ w.lib = lib /\ w.types = types
      BY WorldIs
    <2> HIDE DEF v, w, e
    <2>6. /\ LibraryOK(v) /\ TypesOK(v) /\ Later(w, v)
          /\ Loading(<<>>, parseType, mode, structureChanged, updateStarted, v)
      BY <1>1, <2>3, SameLoading
    <2>7. File(t, v) = File(t, w) /\ File(t, v) # Bad /\ t \in DOMAIN v.types
      BY <1>2, <1>6, <2>5, <2>6, FilesLater DEF Later
    <2>8. e = [Frame("hrc", t, File(t, v), mode) EXCEPT !.outer = ~updateStarted]
      BY <2>4, <2>7
    <2>9. FrameShape(e) /\ e.do = "hrc" /\ e.saved = mode /\ FrameData(e, v)
      BY <2>6, <2>7, <2>8, ReadsFile
    <2>10. Loading(<<e>>, parseType, "TYPE", structureChanged, TRUE, v)
      BY <2>6, <2>9, LoadingBegins
    <2>11. Append(<<>>, e) = <<e>>
      OBVIOUS
    <2>12. Loading(stack', parseType', mode', structureChanged', updateStarted', v)
      BY <2>1, <2>10, <2>11
    <2> QED
      BY <2>6, <2>12 DEF LoadInv, v
  <1> QED
    BY <1>4, <1>5, <1>6

LEMMA ResolveLoads ==
  ASSUME LoadInv, lib' = lib, stack = <<>>, NEW s,
         stack' = <<[Frame("lookup", s, <<>>, None) EXCEPT !.want = <<Wanted>>]>>,
         UNCHANGED <<types, schemes, parseType, mode, structureChanged, updateStarted>>
  PROVE  LoadInv'
  <1> DEFINE f == [Frame("lookup", s, <<>>, None) EXCEPT !.want = <<Wanted>>]
  <1>1. FrameFields \subseteq DOMAIN f /\ f.do = "lookup"
    BY DEF Frame, FrameFields
  <1> HIDE DEF f
  <1>2. FrameShape(f) /\ FrameData(f, World)
    BY <1>1 DEF FrameShape, CallKinds, FrameData
  <1>3. Loading(<<>>, parseType, mode, structureChanged, updateStarted, World)
    BY DEF LoadInv
  <1>4. Loading(<<f>>, parseType, mode, structureChanged, updateStarted, World)
    BY <1>1, <1>2, <1>3, LoadingBegins
  <1>5. Loading(stack', parseType', mode', structureChanged', updateStarted', World)
    BY <1>4 DEF f
  <1> QED
    BY <1>5, WorldStays

-----------------------------------------------------------------------------
(* The files of prototypes come first, when there are no schemes.          *)
Cataloguing == catalog # <<>> \/ mode = "PROTOTYPE"

(* A file of the catalog is read, up to what is left of it.                *)
CatalogHrc(f, l) ==
  /\ f.do = "hrc" /\ f.of = None /\ f.want = <<>> /\ IsStack(f.rest)
  /\ \A i \in 1..Len(f.rest) : \E g \in Contents(l) : \E j \in DOMAIN l.files[g] :
       f.rest[i] = l.files[g][j]

CatalogLinks(f) ==
  f.do = "links" /\ f.rest = <<>> /\ f.of = {} /\ f.saved = None /\ f.want = <<>>

CatalogStack(s, m, l) ==
  /\ Len(s) <= 2
  /\ s # <<>> => m = "PROTOTYPE" /\ CatalogHrc(s[1], l)
  /\ Len(s) = 2 => CatalogLinks(s[2])

(* No type has been read.                                                  *)
Unread(ts) ==
  \A t \in DOMAIN ts : ~ts[t].loading /\ ~ts[t].done /\ ~ts[t].broken /\ ts[t].imports = <<>>

CatalogOK ==
  /\ DOMAIN schemes = {} /\ Unread(types) /\ CatalogStack(stack, mode, lib)
  /\ \A i \in 1..Len(catalog) : catalog[i] \in DOMAIN lib.files
  /\ catalog # <<>> => pc \in [Sessions -> {"idle", "resolved", "parsing"}]

LinksInv ==
  /\ LibraryOK(World) /\ TypesOK(World) /\ IsStack(catalog)
  /\ Cataloguing => CatalogOK
  /\ ~Cataloguing => LoadInv

LEMMA InitLinks == Init /\ Tidy(lib) => LinksInv
  <1> SUFFICES ASSUME Init, Tidy(lib) PROVE LinksInv
    OBVIOUS
  <1>1. /\ lib \in Libraries /\ catalog = lib.catalog /\ stack = <<>>
        /\ DOMAIN types = {} /\ DOMAIN schemes = {} /\ pc = [s \in Sessions |-> "idle"]
    BY DEF Init
  <1>2. IsLibrary(lib)
    BY <1>1, LibraryAssumption
  <1>3. LibraryOK(World) /\ TypesOK(World)
    BY <1>1, <1>2, WorldIs DEF LibraryOK, TypesOK
  <1>4. IsStack(catalog) /\ \A i \in 1..Len(catalog) : catalog[i] \in DOMAIN lib.files
    <2>1. IsStack(catalog)
      BY <1>1, <1>2, ListIsStack DEF IsLibrary
    <2> QED
      BY <1>1, <1>2, <2>1, StackLen DEF IsLibrary
  <1>5. CatalogOK
    BY <1>1, <1>4 DEF CatalogOK, CatalogStack, Unread
  <1>6. LoadInv
    BY <1>1, <1>3, NothingLoading, WorldIs DEF LoadInv
  <1> QED
    BY <1>3, <1>4, <1>5, <1>6 DEF LinksInv

-----------------------------------------------------------------------------
(* The mode is the one for prototypes only while the catalog is read.      *)
LEMMA ModeIs ==
  ASSUME NEW s, NEW pt, NEW m, NEW ts, Context(s, pt, m, ts), Modes(s, m)
  PROVE  m # "PROTOTYPE"
  <1>1. CASE \E k \in 1..Len(s) : s[k].do = "hrc"
    BY <1>1 DEF Modes
  <1>2. CASE \A k \in 1..Len(s) : s[k].do # "hrc"
    BY <1>2 DEF Context, Restores, OfMode
  <1> QED
    BY <1>1, <1>2

LEMMA RestingMode == ASSUME ContextInv, stack = <<>> PROVE mode = "FULL"
  <1>1. Len(stack) = 0 /\ 1..0 = {}
    OBVIOUS
  <1> QED
    BY <1>1 DEF ContextInv, Context, Restores

(* The frames while the catalog is read.                                   *)
LEMMA CatalogFrames ==
  ASSUME CatalogOK, ContextInv, stack # <<>>
  PROVE  /\ IsStack(stack) /\ mode = "PROTOTYPE" /\ FrameFields \subseteq DOMAIN top
         /\ \/ Len(stack) = 1 /\ below = <<>> /\ CatalogHrc(top, lib) /\ top = stack[1]
            \/ /\ Len(stack) = 2 /\ below # <<>> /\ CatalogLinks(top) /\ Front(below) = <<>>
               /\ CatalogHrc(Last(below), lib) /\ Len(below) = 1
  <1>1. IsStack(stack) /\ \A k \in 1..Len(stack) : FrameFields \subseteq DOMAIN stack[k]
    BY DEF ContextInv, Context, Frames
  <1>2. /\ IsStack(below) /\ Len(stack) \in Nat /\ Len(stack) > 0 /\ Len(stack) \in 1..Len(stack)
        /\ Len(below) = Len(stack) - 1 /\ top = stack[Len(stack)]
        /\ \A k \in 1..Len(below) : below[k] = stack[k]
    BY <1>1, PoppedIs DEF below, top
  <1>3. Len(stack) = 1 \/ Len(stack) = 2
    BY <1>2 DEF CatalogOK, CatalogStack
  <1>4. CASE Len(stack) = 1
    <2>1. Len(below) = 0
      BY <1>2, <1>4
    <2>2. below = <<>>
      BY <1>2, <2>1, StackLen
    <2> QED
      BY <1>1, <1>2, <1>4, <2>2 DEF CatalogOK, CatalogStack
  <1>5. CASE Len(stack) = 2
    <2>1. Len(below) = 1 /\ below # <<>>
      BY <1>2, <1>5
    <2>2. Last(below) = stack[1] /\ IsStack(Front(below)) /\ Len(Front(below)) = 0
      <3>1. Last(below) = below[Len(below)] /\ 1 \in 1..Len(below)
            /\ IsStack(Front(below)) /\ Len(Front(below)) = Len(below) - 1
        BY <1>2, <2>1, PoppedIs
      <3> QED
        BY <1>2, <2>1, <3>1
    <2>3. Front(below) = <<>>
      BY <2>2, StackLen
    <2> QED
      BY <1>1, <1>2, <1>5, <2>1, <2>2, <2>3 DEF CatalogOK, CatalogStack
  <1> QED
    BY <1>3, <1>4, <1>5

(* The next step of it.                                                    *)
LEMMA CatalogSteps ==
  ASSUME LinksInv, Cataloguing, UNCHANGED lib, ContextInv',
         catalog' = catalog \/ (catalog # <<>> /\ catalog' = Tail(catalog)),
         catalog' # <<>> => pc' \in [Sessions -> {"idle", "resolved", "parsing"}],
         DOMAIN schemes' = {}, Unread(types'), CatalogStack(stack', mode', lib), TypesOK(World')
  PROVE  LinksInv'
  <1>1. LibraryOK(World') /\ IsStack(catalog)
    BY WorldIs DEF LinksInv, LibraryOK
  <1>2. IsStack(catalog') /\ \A i \in 1..Len(catalog') : catalog'[i] \in DOMAIN lib.files
    <2>1. CatalogOK
      BY DEF LinksInv
    <2>2. CASE catalog' = catalog
      BY <1>1, <2>1, <2>2 DEF CatalogOK
    <2>3. CASE catalog # <<>> /\ catalog' = Tail(catalog)
      <3>1. /\ IsStack(catalog')
            /\ \A i \in 1..Len(catalog') : i + 1 \in 1..Len(catalog) /\ catalog'[i] = catalog[i + 1]
        BY <1>1, <2>3, TailIs
      <3> QED
        BY <2>1, <3>1 DEF CatalogOK
    <2> QED
      BY <2>2, <2>3
  <1>3. CatalogOK'
    BY <1>2 DEF CatalogOK
  <1>4. ASSUME ~Cataloguing' PROVE LoadInv'
    <2>1. stack' = <<>>
      BY <1>4 DEF Cataloguing, CatalogStack
    <2>2. DOMAIN World'.schemes = {}
      BY WorldIs
    <2>3. Loading(<<>>, parseType', mode', structureChanged', updateStarted', World')
      BY <2>2, NothingLoading
    <2> QED
      BY <1>1, <2>1, <2>3 DEF LoadInv
  <1> QED
    BY <1>1, <1>2, <1>3, <1>4 DEF LinksInv

-----------------------------------------------------------------------------
(* The next element of a file of the catalog.                              *)
LEMMA CatalogElement ==
  ASSUME NEW l, IsLibrary(l), Tidy(l), NEW f, CatalogHrc(f, l), f.rest # <<>>,
         FrameFields \subseteq DOMAIN f
  PROVE  /\ CatalogStack(Append(<<>>, Advance(f)), "PROTOTYPE", l)
         /\ IsElement(l, Head(f.rest))
         /\ Head(f.rest).tag = "prototype" =>
              /\ Head(f.rest).global
              /\ \A h \in Contents(l) : \A i \in DOMAIN l.files[h] :
                   l.files[h][i].tag = "type" /\ l.files[h][i].type = Head(f.rest).type =>
                     h = Head(f.rest).file
  <1> DEFINE e == Head(f.rest)
  <1>1. /\ IsStack(Tail(f.rest)) /\ 1 \in 1..Len(f.rest) /\ e = f.rest[1]
        /\ \A i \in 1..Len(Tail(f.rest)) : i + 1 \in 1..Len(f.rest) /\ Tail(f.rest)[i] = f.rest[i + 1]
    BY TailIs DEF CatalogHrc
  <1>2. PICK g \in Contents(l) : \E j \in DOMAIN l.files[g] : e = l.files[g][j]
    BY <1>1 DEF CatalogHrc
  <1>3. IsElement(l, e)
    BY <1>2 DEF IsLibrary
  <1>4. /\ Advance(f).do = "hrc" /\ Advance(f).of = None /\ Advance(f).want = <<>>
        /\ Advance(f).rest = Tail(f.rest)
    BY AdvanceIs DEF CatalogHrc
  <1>5. CatalogHrc(Advance(f), l)
    BY <1>1, <1>4 DEF CatalogHrc
  <1>6. CatalogStack(Append(<<>>, Advance(f)), "PROTOTYPE", l)
    <2> DEFINE a == Advance(f)
    <2>1. Append(<<>>, a) = <<a>> /\ Len(<<a>>) = 1 /\ <<a>>[1] = a
      OBVIOUS
    <2> HIDE DEF a
    <2>2. CatalogHrc(a, l)
      BY <1>5 DEF a
    <2>3. CatalogStack(<<a>>, "PROTOTYPE", l)
      BY <2>1, <2>2 DEF CatalogStack
    <2> QED
      BY <2>1, <2>3 DEF a
  <1>7. ASSUME e.tag = "prototype"
        PROVE  /\ e.global
               /\ \A h \in Contents(l) : \A i \in DOMAIN l.files[h] :
                    l.files[h][i].tag = "type" /\ l.files[h][i].type = e.type => h = e.file
    <2>1. \A h \in Contents(l) : \A i \in DOMAIN l.files[h] :
            /\ e.global
            /\ l.files[h][i].tag = "type" /\ l.files[h][i].type = e.type => e.file = h
      BY <1>2, <1>7 DEF Tidy
    <2> QED
      BY <1>2, <2>1
  <1> QED
    BY <1>3, <1>6, <1>7

(* The types of the library, with one more or without one.                 *)
LEMMA FewerTypes ==
  ASSUME NEW w, TypesOK(w), NEW v, v.lib = w.lib,
         NEW S \in SUBSET DOMAIN w.types, DOMAIN v.types = S,
         \A t \in S : v.types[t] = w.types[t]
  PROVE  TypesOK(v)
  <1>1. \A t \in S : File(t, v) = File(t, w)
    BY DEF File
  <1> QED
    BY <1>1 DEF TypesOK

LEMMA OneMoreType ==
  ASSUME NEW w, TypesOK(w), NEW v, v.lib = w.lib, NEW t \in Types, NEW file \in DOMAIN w.lib.files,
         NEW S \in SUBSET DOMAIN w.types, DOMAIN v.types = S \cup {t}, t \notin S,
         \A u \in S : v.types[u] = w.types[u], v.types[t] = NewType(file),
         \A h \in Contents(w.lib) : \A i \in DOMAIN w.lib.files[h] :
           w.lib.files[h][i].tag = "type" /\ w.lib.files[h][i].type = t => h = file
  PROVE  TypesOK(v)
  <1>1. \A u \in S : File(u, v) = File(u, w)
    BY DEF File
  <1>2. /\ v.types[t].file = file /\ v.types[t].imports = <<>> /\ ~v.types[t].broken
        /\ ~v.types[t].done /\ ~v.types[t].loading
        /\ "file" \in DOMAIN v.types[t] /\ TypeFields \subseteq DOMAIN v.types[t]
    BY DEF NewType, TypeFields
  <1>3. IsStack(<<>>)
    BY DEF IsStack
  <1> QED
    BY <1>1, <1>2, <1>3 DEF TypesOK

-----------------------------------------------------------------------------
(* While the catalog is read, nothing is loaded: only prototypes are.      *)
LEMMA CatalogHas ==
  ASSUME LinksInv, ContextInv, Cataloguing, Load
  PROVE  /\ LibraryOK(World) /\ IsLibrary(lib) /\ Tidy(lib) /\ TypesOK(World)
         /\ stack # <<>> /\ Step /\ UNCHANGED <<lib, catalog, pc>> /\ mode = "PROTOTYPE"
         /\ FrameFields \subseteq DOMAIN top
         /\ DOMAIN schemes = {} /\ Unread(types) /\ CatalogStack(stack, mode, lib)
         /\ catalog # <<>> => pc \in [Sessions -> {"idle", "resolved", "parsing"}]
         /\ None \notin DOMAIN types
         /\ \/ CatalogHrc(top, lib) /\ below = <<>> /\ Len(stack) = 1 /\ top = stack[1]
            \/ CatalogLinks(top) /\ Front(below) = <<>> /\ CatalogHrc(Last(below), lib)
               /\ below # <<>> /\ Len(below) = 1
  <1>1. CatalogOK /\ LibraryOK(World) /\ TypesOK(World)
    BY DEF LinksInv
  <1>2. stack # <<>> /\ Step /\ UNCHANGED <<lib, catalog, pc>>
    BY DEF Load, sessions
  <1>3. IsLibrary(lib) /\ Tidy(lib)
    BY <1>1, WorldIs DEF LibraryOK
  <1>4. None \notin DOMAIN types
    BY <1>1, LibraryAssumption, WorldIs DEF TypesOK
  <1>5. /\ mode = "PROTOTYPE" /\ FrameFields \subseteq DOMAIN top
        /\ \/ CatalogHrc(top, lib) /\ below = <<>> /\ Len(stack) = 1 /\ top = stack[1]
           \/ CatalogLinks(top) /\ Front(below) = <<>> /\ CatalogHrc(Last(below), lib)
              /\ below # <<>> /\ Len(below) = 1
    BY <1>1, <1>2, CatalogFrames
  <1> QED
    BY <1>1, <1>2, <1>3, <1>4, <1>5 DEF CatalogOK

LEMMA CatalogGoesOn ==
  ASSUME LinksInv, ContextInv, Cataloguing, ContextInv', Load, DOMAIN schemes' = {},
         Unread(types'), TypesOK(World'), CatalogStack(stack', mode', lib)
  PROVE  LinksInv'
  <1>1. /\ UNCHANGED <<lib, catalog, pc>>
        /\ catalog # <<>> => pc \in [Sessions -> {"idle", "resolved", "parsing"}]
    BY CatalogHas
  <1> QED
    BY <1>1, CatalogSteps

LEMMA CatalogIdle ==
  ASSUME LinksInv, ContextInv, Cataloguing, ContextInv', Load, UNCHANGED <<types, schemes>>,
         CatalogStack(stack', mode', lib)
  PROVE  LinksInv'
  <1>1. DOMAIN schemes' = {} /\ Unread(types') /\ TypesOK(World) /\ lib' = lib
    BY CatalogHas
  <1>2. World' = World
    BY <1>1 DEF World
  <1> QED
    BY <1>1, <1>2, CatalogGoesOn

LEMMA CatalogPrototype ==
  ASSUME LinksInv, ContextInv, Cataloguing, ContextInv', Load, AddPrototype
  PROVE  LinksInv'
  <1> DEFINE elem == Head(top.rest)
             kept == DOMAIN types \ {elem.type}
             fts == [t \in kept |-> types[t]]
  <1>1. /\ Running("hrc") /\ top.rest # <<>> /\ elem.tag = "prototype"
    BY DEF AddPrototype
  <1>2. /\ IsLibrary(lib) /\ Tidy(lib) /\ TypesOK(World) /\ lib' = lib /\ mode = "PROTOTYPE"
        /\ FrameFields \subseteq DOMAIN top /\ DOMAIN schemes = {} /\ Unread(types)
        /\ None \notin DOMAIN types /\ CatalogHrc(top, lib) /\ below = <<>>
    BY <1>1, CatalogHas DEF Running, CatalogLinks
  <1>3. /\ CatalogStack(Append(<<>>, Advance(top)), "PROTOTYPE", lib)
        /\ IsElement(lib, elem) /\ elem.global
        /\ \A h \in Contents(lib) : \A i \in DOMAIN lib.files[h] :
             lib.files[h][i].tag = "type" /\ lib.files[h][i].type = elem.type => h = elem.file
    BY <1>1, <1>2, CatalogElement
  <1>4. elem.type \in Types /\ elem.file \in DOMAIN lib.files \cup {Missing}
    BY <1>1, <1>3 DEF IsElement
  <1>5. ~Skipped(elem)
    BY <1>2, <1>3 DEF Skipped
  <1>6. DOMAIN schemes' = {}
    BY <1>2, <1>5 DEF AddPrototype
  <1>7. CASE elem.file = Missing
    <2>1. stack' = <<>> /\ types' = Closed(None, TRUE, fts)
      BY <1>2, <1>5, <1>7 DEF AddPrototype, Throw, CatalogHrc
    <2>2. DOMAIN fts = kept /\ \A t \in kept : fts[t] = types[t]
      OBVIOUS
    <2> HIDE DEF fts
    <2>3. types' = fts
      BY <1>2, <2>1, <2>2 DEF Closed
    <2>4. TypesOK(World')
      <3>1. kept \in SUBSET DOMAIN World.types /\ World'.lib = World.lib
        BY <1>2, WorldIs
      <3>2. DOMAIN World'.types = kept /\ \A t \in kept : World'.types[t] = World.types[t]
        BY <2>2, <2>3, WorldIs
      <3> HIDE DEF kept
      <3> QED
        BY <1>2, <3>1, <3>2, FewerTypes
    <2>5. Unread(types')
      BY <1>2, <2>2, <2>3 DEF Unread
    <2>6. CatalogStack(stack', mode', lib)
      BY <2>1 DEF CatalogStack
    <2> QED
      BY <1>6, <2>4, <2>5, <2>6, CatalogGoesOn
  <1>8. CASE elem.file # Missing
    <2>1. /\ types' = [t \in kept \cup {elem.type} |->
                         IF t = elem.type THEN NewType(elem.file) ELSE types[t]]
          /\ stack' = Append(<<>>, Advance(top)) /\ mode' = mode
      BY <1>2, <1>5, <1>8 DEF AddPrototype
    <2>2. /\ DOMAIN types' = kept \cup {elem.type} /\ elem.type \notin kept
          /\ types'[elem.type] = NewType(elem.file) /\ \A t \in kept : types'[t] = types[t]
      BY <2>1
    <2>3. TypesOK(World')
      <3>1. kept \in SUBSET DOMAIN World.types /\ World'.lib = World.lib
        BY <1>2, WorldIs
      <3>2. /\ World'.types = types' /\ World.types = types /\ World.lib = lib
            /\ elem.file \in DOMAIN lib.files
        BY <1>4, <1>8, WorldIs
      <3> HIDE DEF kept, elem
      <3> QED
        BY <1>2, <1>3, <1>4, <2>2, <3>1, <3>2, OneMoreType
    <2>4. Unread(types')
      <3>1. /\ ~NewType(elem.file).loading /\ ~NewType(elem.file).done
            /\ ~NewType(elem.file).broken /\ NewType(elem.file).imports = <<>>
        BY DEF NewType
      <3>2. \A t \in kept : t \in DOMAIN types
        OBVIOUS
      <3> HIDE DEF kept, elem
      <3> QED
        BY <1>2, <2>2, <3>1, <3>2 DEF Unread
    <2>5. CatalogStack(stack', mode', lib)
      BY <1>2, <1>3, <2>1
    <2> QED
      BY <1>6, <2>3, <2>4, <2>5, CatalogGoesOn
  <1> QED
    BY <1>7, <1>8

LEMMA CatalogLoads ==
  ASSUME LinksInv, ContextInv, Cataloguing, ContextInv', Load
  PROVE  LinksInv'
  <1>1. /\ IsLibrary(lib) /\ Tidy(lib) /\ TypesOK(World) /\ lib' = lib /\ mode = "PROTOTYPE"
        /\ FrameFields \subseteq DOMAIN top /\ DOMAIN schemes = {} /\ stack # <<>> /\ Step
        /\ None \notin DOMAIN types /\ CatalogStack(stack, mode, lib)
        /\ \/ CatalogHrc(top, lib) /\ below = <<>> /\ Len(stack) = 1 /\ top = stack[1]
           \/ CatalogLinks(top) /\ Front(below) = <<>> /\ CatalogHrc(Last(below), lib)
              /\ below # <<>> /\ Len(below) = 1
    BY CatalogHas
  <1>2. top.do \in {"hrc", "links"} /\ top.want = <<>>
    BY <1>1 DEF CatalogHrc, CatalogLinks
  <1>3. top.do = "links" => top.rest = <<>> /\ top.of = {}
    BY <1>1 DEF CatalogHrc, CatalogLinks
  <1>4. \A fts : None \notin DOMAIN fts => \A b : Closed(None, b, fts) = fts
    BY DEF Closed
  <1>5. CASE AddPrototype
    BY <1>5, CatalogPrototype
  <1>6. CASE AddType
    <2>1. CatalogHrc(top, lib) /\ below = <<>> /\ top.rest # <<>>
      BY <1>1, <1>6 DEF AddType, Running, CatalogLinks
    <2>2. stack' = Append(below, Advance(top)) /\ UNCHANGED <<types, schemes, mode>>
      BY <1>1, <1>6 DEF AddType
    <2>3. CatalogStack(stack', mode', lib)
      BY <1>1, <2>1, <2>2, CatalogElement
    <2> QED
      BY <2>2, <2>3, CatalogIdle
  <1>7. CASE EndHRC
    <2>1. CatalogHrc(top, lib) /\ below = <<>> /\ Len(stack) = 1 /\ top = stack[1] /\ top.of = None
      BY <1>1, <1>7 DEF EndHRC, Running, CatalogLinks, CatalogHrc
    <2>2. CASE top.outer
      <3> DEFINE f == Frame("links", {}, <<>>, None)
      <3>1. stack' = Append(stack, f) /\ UNCHANGED <<types, schemes, mode>>
        BY <1>7, <2>2 DEF EndHRC
      <3>2. CatalogLinks(f)
        BY FrameIs DEF CatalogLinks
      <3> HIDE DEF f
      <3>3. IsStack(stack)
        BY <1>1 DEF LinksInv, ContextInv, Context, Frames
      <3>4. Len(stack') = 2 /\ stack'[1] = top /\ stack'[2] = f
        <4>1. Len(stack') = Len(stack) + 1 /\ stack'[Len(stack) + 1] = f
              /\ \A k \in 1..Len(stack) : stack'[k] = stack[k]
          BY <3>1, <3>3, PushedIs
        <4> QED
          BY <2>1, <4>1
      <3>5. CatalogStack(stack', mode', lib)
        BY <1>1, <2>1, <3>1, <3>2, <3>4 DEF CatalogStack
      <3> QED
        BY <3>1, <3>5, CatalogIdle
    <2>3. CASE ~top.outer
      <3>1. stack' = <<>> /\ types' = types /\ schemes' = schemes
        BY <1>1, <1>4, <1>7, <2>1, <2>3 DEF EndHRC
      <3>2. CatalogStack(stack', mode', lib)
        BY <3>1 DEF CatalogStack
      <3> QED
        BY <3>1, <3>2, CatalogIdle
    <2> QED
      BY <2>2, <2>3
  <1>8. CASE NextPass
    <2> DEFINE f == [top EXCEPT !.of = DOMAIN schemes]
    <2>1. /\ CatalogLinks(top) /\ Front(below) = <<>> /\ CatalogHrc(Last(below), lib)
          /\ below # <<>> /\ Len(below) = 1
      BY <1>1, <1>8 DEF NextPass, Running, CatalogHrc
    <2>2. stack' = Append(below, f) /\ UNCHANGED <<types, schemes, mode>>
      BY <1>8 DEF NextPass, library
    <2>3. CatalogLinks(f)
      BY <1>1, <2>1 DEF CatalogLinks, FrameFields
    <2> HIDE DEF f
    <2>4. IsStack(below) /\ Last(below) = below[1]
      <3>1. IsStack(stack)
        BY <1>1 DEF ContextInv, Context, Frames
      <3>2. IsStack(below)
        BY <1>1, <3>1, PoppedIs DEF below
      <3> QED
        BY <2>1, <3>2, PoppedIs
    <2>5. Len(stack') = 2 /\ stack'[1] = Last(below) /\ stack'[2] = f
      <3>1. Len(stack') = Len(below) + 1 /\ stack'[Len(below) + 1] = f
            /\ \A k \in 1..Len(below) : stack'[k] = below[k]
        BY <2>2, <2>4, PushedIs
      <3> QED
        BY <2>1, <2>4, <3>1
    <2>6. CatalogStack(stack', mode', lib)
      BY <1>1, <2>1, <2>2, <2>3, <2>5 DEF CatalogStack
    <2> QED
      BY <2>2, <2>6, CatalogIdle
  <1>9. CASE EndVisit
    <2>1. UNCHANGED <<stack, types, schemes, mode>>
      BY <1>9 DEF EndVisit, library
    <2> QED
      BY <1>1, <2>1, CatalogIdle
  <1>10. CASE EndLinks
    <2>1. CatalogHrc(Last(below), lib) /\ Front(below) = <<>>
      BY <1>1, <1>10 DEF EndLinks, Running, CatalogHrc
    <2>2. stack' = <<>> /\ types' = types /\ schemes' = schemes
      BY <1>1, <1>4, <1>10, <2>1 DEF EndLinks, CatalogHrc
    <2>3. CatalogStack(stack', mode', lib)
      BY <2>2 DEF CatalogStack
    <2> QED
      BY <2>2, <2>3, CatalogIdle
  <1>11. ~(EndType \/ Qualify \/ LookIn \/ NotFound \/ Asks \/ AddItem \/ AddNode \/ EndScheme
           \/ EndLookup)
    BY <1>2 DEF EndType, Qualify, LookIn, NotFound, Asks, AddItem, AddNode, EndScheme, EndLookup,
                Running
  <1>12. ~(VisitScheme \/ PassLink \/ AskLink \/ UpdateSchemeLink)
    <2>1. ~VisitScheme
      BY <1>3, Zenon DEF VisitScheme, Running
    <2>2. ~(PassLink \/ AskLink)
      BY <1>3 DEF PassLink, AskLink, Running
    <2>3. ~UpdateSchemeLink
      BY <1>3, Zenon DEF UpdateSchemeLink, Answered, Running
    <2> QED
      BY <2>1, <2>2, <2>3
  <1> QED
    BY <1>1, <1>5, <1>6, <1>7, <1>8, <1>9, <1>10, <1>11, <1>12 DEF Step

-----------------------------------------------------------------------------
LEMMA NextLinks ==
  ASSUME LinksInv, ContextInv, LockInv, ContextInv', [Next]_vars
  PROVE  LinksInv'
  <1>1. CASE LoadProtoTypes
    <2>1. /\ catalog # <<>> /\ catalog' = Tail(catalog) /\ stack = <<>> /\ lib' = lib
          /\ UNCHANGED <<types, schemes, pc>>
      BY <1>1 DEF LoadProtoTypes, Exclusive, LockInv, library, sessions
    <2>2. Cataloguing /\ CatalogOK /\ LibraryOK(World) /\ TypesOK(World) /\ IsStack(catalog)
      BY <2>1 DEF LinksInv, Cataloguing
    <2>3. World' = World
      BY <2>1 DEF World
    <2>4. /\ DOMAIN schemes' = {} /\ Unread(types') /\ TypesOK(World')
          /\ catalog' # <<>> => pc' \in [Sessions -> {"idle", "resolved", "parsing"}]
      BY <2>1, <2>2, <2>3 DEF CatalogOK
    <2>5. CatalogStack(stack', mode', lib)
      <3>1. CASE UNCHANGED <<stack, mode, updateStarted>>
        BY <2>1, <3>1 DEF CatalogStack
      <3>2. CASE /\ lib.files[Head(catalog)] # Bad
                 /\ ParseHRC(None, Head(catalog), "PROTOTYPE", <<>>)
        <4> DEFINE f == [Frame("hrc", None, lib.files[Head(catalog)], mode) EXCEPT
                           !.outer = ~updateStarted]
        <4>1. stack' = Append(<<>>, f) /\ mode' = "PROTOTYPE"
          BY <3>2 DEF ParseHRC
        <4>2. Head(catalog) \in DOMAIN lib.files
          BY <2>1, <2>2, TailIs DEF CatalogOK
        <4>3. Head(catalog) \in Contents(lib)
          BY <3>2, <4>2 DEF Contents
        <4>4. IsList(lib.files[Head(catalog)])
          BY <2>2, <4>3, WorldIs DEF LibraryOK, IsLibrary
        <4>5. /\ IsStack(lib.files[Head(catalog)])
              /\ DOMAIN lib.files[Head(catalog)] = 1..Len(lib.files[Head(catalog)])
          BY <4>4, ListIsStack, StackLen
        <4>6. f.do = "hrc" /\ f.of = None /\ f.want = <<>> /\ f.rest = lib.files[Head(catalog)]
          BY DEF Frame
        <4> HIDE DEF f
        <4>7. CatalogHrc(f, lib)
          BY <4>3, <4>5, <4>6 DEF CatalogHrc
        <4>8. Append(<<>>, f) = <<f>> /\ Len(<<f>>) = 1 /\ <<f>>[1] = f
          OBVIOUS
        <4> QED
          BY <4>1, <4>7, <4>8 DEF CatalogStack
      <3> QED
        BY <1>1, <3>1, <3>2 DEF LoadProtoTypes
    <2> QED
      BY <2>1, <2>2, <2>4, <2>5, CatalogSteps
  <1>2. CASE Load
    <2>1. CASE Cataloguing
      BY <1>2, <2>1, CatalogLoads
    <2>2. CASE ~Cataloguing
      <3>1. LoadInv'
        BY <1>2, <2>2, StepLoads DEF Load, LinksInv
      <3>2. catalog' = <<>> /\ mode' # "PROTOTYPE" /\ IsStack(catalog')
        <4>1. catalog' = catalog /\ catalog = <<>> /\ IsStack(catalog)
          BY <1>2, <2>2 DEF Load, Cataloguing, LinksInv
        <4>2. mode' # "PROTOTYPE"
          BY <3>1, ModeIs DEF LoadInv, Loading, Shape, ContextInv
        <4> QED
          BY <4>1, <4>2
      <3> QED
        BY <3>1, <3>2 DEF LinksInv, LoadInv, Cataloguing
    <2> QED
      BY <2>1, <2>2
  <1>3. ASSUME NEW t \in Types, OpenFile(t) PROVE LinksInv'
    <2>1. /\ stack = <<>> /\ catalog = <<>> /\ catalog' = catalog /\ lib' = lib
          /\ t \in DOMAIN types /\ LoadFileType(t, <<>>)
          /\ UNCHANGED <<schemes, parseType, structureChanged>>
      BY <1>3 DEF OpenFile, Exclusive, LockInv
    <2>2. ~Cataloguing
      BY <2>1, RestingMode DEF Cataloguing
    <2>3. LoadInv'
      BY <2>1, <2>2, OpenFileLoads DEF LinksInv
    <2>4. ~Cataloguing'
      <3>1. mode' # "PROTOTYPE"
        BY <2>3, ModeIs DEF LoadInv, Loading, Shape, ContextInv
      <3> QED
        BY <2>1, <3>1 DEF Cataloguing
    <2> QED
      BY <2>1, <2>3, <2>4 DEF LinksInv, LoadInv
  <1>4. ASSUME NEW s \in Sessions, ResolveRegions(s) PROVE LinksInv'
    <2>1. /\ stack = <<>> /\ catalog' = catalog /\ lib' = lib /\ pc[s] = "called" /\ pc' = pc
          /\ stack' = <<[Frame("lookup", s, <<>>, None) EXCEPT !.want = <<Wanted>>]>>
          /\ UNCHANGED <<types, schemes, parseType, mode, structureChanged, updateStarted>>
      BY <1>4 DEF ResolveRegions, Exclusive, LockInv, library, sessions
    <2>2. ~Cataloguing
      <3>1. mode = "FULL"
        BY <2>1, RestingMode
      <3>2. catalog = <<>>
        BY <1>4, <2>1 DEF LinksInv, Cataloguing, CatalogOK
      <3> QED
        BY <3>1, <3>2 DEF Cataloguing
    <2>3. LoadInv'
      BY <2>1, <2>2, ResolveLoads DEF LinksInv
    <2> QED
      BY <2>1, <2>2, <2>3 DEF LinksInv, LoadInv, Cataloguing
  <1>5. ASSUME UNCHANGED <<lib, catalog, types, schemes, loader>>,
               catalog # <<>> /\ pc \in [Sessions -> {"idle", "resolved", "parsing"}] =>
                 pc' \in [Sessions -> {"idle", "resolved", "parsing"}]
        PROVE  LinksInv'
    <2>1. World' = World /\ UNCHANGED <<stack, parseType, mode, structureChanged, updateStarted>>
      BY <1>5 DEF World, loader
    <2>2. Cataloguing' <=> Cataloguing
      BY <1>5, <2>1 DEF Cataloguing
    <2>3. LoadInv => LoadInv'
      BY <2>1 DEF LoadInv
    <2>4. CatalogOK => CatalogOK'
      BY <1>5, <2>1 DEF CatalogOK
    <2> QED
      BY <1>5, <2>1, <2>2, <2>3, <2>4 DEF LinksInv
  <1>6. CASE Return
    <2>1. UNCHANGED <<lib, catalog, types, schemes, loader>>
      BY <1>6 DEF Return, library
    <2>2. pc' = pc \/ pc' = [pc EXCEPT ![writer] = "resolved"]
      BY <1>6 DEF Return
    <2>3. pc \in [Sessions -> {"idle", "resolved", "parsing"}] =>
            pc' \in [Sessions -> {"idle", "resolved", "parsing"}]
      BY <2>2
    <2> QED
      BY <1>5, <2>1, <2>3
  <1>7. ASSUME NEW s \in Sessions, ParseLine(s) \/ BeginParse(s) \/ EndParse(s) PROVE LinksInv'
    <2>1. UNCHANGED <<lib, catalog, types, schemes, loader>>
      BY <1>7 DEF ParseLine, BeginParse, EndParse, library
    <2>2. catalog = <<>> \/ pc' = [pc EXCEPT ![s] = "parsing"] \/ pc' = [pc EXCEPT ![s] = "idle"]
      BY <1>7 DEF ParseLine, BeginParse, EndParse
    <2>3. catalog # <<>> /\ pc \in [Sessions -> {"idle", "resolved", "parsing"}] =>
            pc' \in [Sessions -> {"idle", "resolved", "parsing"}]
      BY <2>2
    <2> QED
      BY <1>5, <2>1, <2>3
  <1>8. CASE UNCHANGED vars
    BY <1>5, <1>8 DEF vars, library, sessions
  <1> QED
    BY <1>1, <1>2, <1>3, <1>4, <1>6, <1>7, <1>8 DEF Next

-----------------------------------------------------------------------------
(* The least of some numbers.                                              *)
LEMMA LeastOf ==
  ASSUME NEW S, S \subseteq Nat, S # {}
  PROVE  Min(S) \in S
  <1>1. PICK m \in S : \A k \in S : ~ (<<k, m>> \in OpToRel(<, Nat))
    BY WFMin, NatLessThanWellFounded, Zenon
  <1>2. \A k \in S : <<k, m>> \in OpToRel(<, Nat) <=> k < m
    BY DEF OpToRel
  <1>3. \A k \in S : ~ (k < m)
    BY <1>1, <1>2, Zenon
  <1>4. \A k \in S : m <= k
    BY <1>3
  <1> QED
    BY <1>1, <1>4, LeastIs, Zenon

(* What has been found for a name is what it stands for.                   *)
LEMMA TargetIs ==
  ASSUME LoadInv, NEW t \in DOMAIN types, NEW n, n.name \in Names, NEW r
  PROVE  /\ Settled(t, n, r, World) => r = Target(t, n)
         /\ Glimpsed(t, n, r, World) /\ r # None => Target(t, n) # None
  <1> DEFINE from == Candidates(t, n)
             knows == {i \in DOMAIN from : Known("scheme", from[i], n.name)}
  <1>1. TypesOK(World) /\ LibraryOK(World) /\ SchemesOK(stack, World) /\ t # None
    BY LibraryAssumption, WorldIs DEF LoadInv, Loading, TypesOK
  <1>2. from = CandidatesIn(t, n, World)
    BY WorldIs DEF Candidates, CandidatesIn
  <1>3. IsStack(from) /\ Len(from) \in Nat /\ DOMAIN from = 1..Len(from)
    BY <1>1, <1>2, CandidatesAre, StackLen, WorldIs
  <1>4. Target(t, n) = IF knows = {} THEN None ELSE <<from[Min(knows)], n.name>>
    BY DEF Target
  <1>5. \A i : i \in knows <=> i \in 1..Len(from) /\ <<from[i], n.name>> \in DOMAIN schemes
    BY <1>3 DEF Known
  <1>6. ASSUME NEW c, <<c, n.name>> \in DOMAIN schemes PROVE <<c, n.name>> # None
    <2>1. SchemeOK(<<c, n.name>>, World)
      BY <1>1, <1>6, WorldIs DEF SchemesOK
    <2>2. c \in Types
      BY <1>1, <2>1, WorldIs DEF SchemeOK, TypesOK
    <2> QED
      BY <2>2, LibraryAssumption
  <1> HIDE DEF from, knows
  <1>7. knows \subseteq Nat
    <2>1. ASSUME NEW i \in knows PROVE i \in Nat
      <3>1. i \in 1..Len(from)
        BY <1>5
      <3> QED
        BY <1>3, <3>1
    <2> QED
      BY <2>1
  <1>8. ASSUME knows # {} PROVE Target(t, n) # None
    <2>1. Min(knows) \in knows
      BY <1>7, <1>8, LeastOf
    <2> QED
      BY <1>4, <1>5, <1>6, <1>8, <2>1
  <1>9. ASSUME Settled(t, n, r, World) PROVE r = Target(t, n)
    <2>1. CASE r = None /\ NoneOf(from, n, Len(from) + 1, World)
      <3>1. \A q \in 1..Len(from) : q \in 1..(Len(from) + 1) - 1
        BY <1>3
      <3>2. \A q \in 1..Len(from) : <<from[q], n.name>> \notin DOMAIN schemes
        BY <2>1, <3>1, WorldIs DEF NoneOf, Unknown
      <3>3. knows = {}
        BY <1>5, <3>2
      <3> QED
        BY <1>4, <2>1, <3>3
    <2>2. ASSUME NEW p \in 1..Len(from), r = <<from[p], n.name>>, r \in DOMAIN schemes,
                 NoneOf(from, n, p, World)
          PROVE  r = Target(t, n)
      <3>1. p \in knows
        BY <1>5, <2>2
      <3>2. \A q \in 1..p - 1 : <<from[q], n.name>> \notin DOMAIN schemes
        BY <2>2, WorldIs DEF NoneOf, Unknown
      <3>3. \A q \in knows : p <= q
        <4> TAKE q \in knows
        <4>1. q \in 1..Len(from) /\ q \notin 1..p - 1
          BY <1>5, <3>2
        <4> QED
          BY <1>3, <2>2, <4>1
      <3>4. Min(knows) = p
        BY <1>7, <3>1, <3>3, LeastIs
      <3> QED
        BY <1>4, <2>2, <3>1, <3>4
    <2> QED
      BY <1>2, <1>9, <2>1, <2>2, WorldIs DEF Settled
  <1>10. ASSUME Glimpsed(t, n, r, World), r # None PROVE Target(t, n) # None
    <2>1. r \in DOMAIN schemes /\ r = <<r[1], n.name>> /\ Among(t, n, r[1], World)
      BY <1>10, WorldIs DEF Glimpsed
    <2>2. \E i \in 1..Len(from) : from[i] = r[1]
      <3>1. CASE n.type # None
        BY <1>2, <2>1, <3>1 DEF CandidatesIn, Among
      <3>2. CASE n.type = None
        <4> DEFINE im == types[t].imports
        <4>1. from = <<t>> \o im /\ IsStack(im)
          BY <1>1, <1>2, <3>2, WorldIs DEF CandidatesIn, TypesOK
        <4> HIDE DEF im
        <4>2. /\ Len(im) \in Nat /\ DOMAIN im = 1..Len(im) /\ Len(from) = Len(im) + 1 /\ from[1] = t
              /\ \A i \in 1..Len(im) : from[i + 1] = im[i]
          BY <4>1 DEF IsStack
        <4>3. r[1] = t \/ \E i \in 1..Len(im) : im[i] = r[1]
          BY <2>1, <3>2, <4>2, WorldIs DEF Among, im
        <4>4. 1 \in 1..Len(from) /\ \A i \in 1..Len(im) : i + 1 \in 1..Len(from)
          BY <4>2
        <4> QED
          BY <4>2, <4>3, <4>4
      <3> QED
        BY <3>1, <3>2
    <2>3. knows # {}
      BY <1>5, <2>1, <2>2
    <2> QED
      BY <1>8, <2>3
  <1> QED
    BY <1>9, <1>10

-----------------------------------------------------------------------------
(* What the invariant says of a scheme of a type that has been read.       *)
LEMMA LinkIsRight ==
  ASSUME LoadInv, \A p : ~Open(p, World), NEW t \in DOMAIN types, types[t].done,
         NEW n, IsName(n), NEW early, NEW node, early => node.tag = "inherit",
         NEW link, NEW p, Place(p, World), p[1][1] = t, LinkIn(p, World) = link,
         LinkOK(t, early, n, link, World)
  PROVE  LinkRight(t, node, n, link)
  <1>1. n.name \in Names /\ n # None
    BY DEF IsName
  <1>2. link # [name |-> n, to |-> None]
    <2>1. Done(t, World)
      BY WorldIs DEF Done
    <2>2. ~Unlinked(link)
      BY <2>1 DEF Open
    <2> QED
      BY <1>1, <2>2 DEF Unlinked
  <1>3. CASE early /\ link.to # None /\ Glimpsed(t, n, link.to, World)
    BY <1>1, <1>3, TargetIs DEF LinkRight
  <1>4. CASE Settled(t, n, link.to, World)
    BY <1>1, <1>4, TargetIs DEF LinkRight
  <1> QED
    BY <1>2, <1>3, <1>4 DEF LinkOK

LEMMA SchemeIsRight ==
  ASSUME LoadInv, \A p : ~Open(p, World), NEW key \in DOMAIN schemes,
         types[schemes[key].owner].done,
         NodesRead(key, Len(NodesOf(key, World)) + 1, World)
  PROVE  LET nodes == schemes[key].nodes
             written == Written(key)
         IN  \E at \in [DOMAIN nodes -> DOMAIN written] :
               /\ ReadFrom(nodes, written, at)
               /\ \A i \in DOMAIN nodes : \A j \in DOMAIN nodes[i].links :
                    LinkRight(key[1], nodes[i], written[at[i]].links[j], nodes[i].links[j])
  <1> DEFINE nodes == schemes[key].nodes
             all == NodesOf(key, World)
             q == Len(all) + 1
  <1>1. LibraryOK(World) /\ TypesOK(World) /\ SchemeOK(key, World)
    BY WorldIs DEF LoadInv, Loading, SchemesOK
  <1>2. SchemeParts(key, nodes, World)
    BY <1>1, SchemeHas, WorldIs
  <1>3. key[1] \in DOMAIN types /\ types[key[1]].done /\ IsStack(nodes)
        /\ \A i \in 1..Len(nodes) : IsStack(nodes[i].links)
    BY <1>2, WorldIs, Zenon DEF SchemeParts
  <1>4. /\ IsStack(all) /\ Len(all) \in Nat /\ DOMAIN all = 1..Len(all)
        /\ \A i \in 1..Len(all) : IsNode(all[i])
    BY <1>1, NodesAre
  <1>5. Written(key) = all
    BY WorldIs, Zenon DEF Written, ItemsWritten, NodesOf, ItemsOf, File
  <1>6. PICK at \in [1..Len(nodes) -> 1..q - 1] :
          ReadAt(nodes, all, q, at) /\ LinksOK(key[1], nodes, all, at, World)
    BY WorldIs DEF NodesRead
  <1> HIDE DEF nodes, all
  <1>7. DOMAIN nodes = 1..Len(nodes) /\ Len(nodes) \in Nat /\ 1..q - 1 = DOMAIN all /\ q - 1 = Len(all)
    BY <1>3, <1>4, StackLen
  <1>8. at \in [DOMAIN nodes -> DOMAIN all]
    BY <1>6, <1>7
  <1>9. \A i \in 1..Len(nodes) :
          /\ at[i] \in 1..Len(all) /\ IsNode(all[at[i]])
          /\ DOMAIN nodes[i].links = 1..Len(nodes[i].links)
          /\ DOMAIN all[at[i]].links = 1..Len(all[at[i]].links)
          /\ Len(nodes[i].links) = Len(all[at[i]].links) /\ nodes[i].tag = all[at[i]].tag
    <2> TAKE i \in 1..Len(nodes)
    <2>1. at[i] \in 1..Len(all) /\ IsNode(all[at[i]])
      BY <1>4, <1>6, <1>7
    <2>2. IsStack(all[at[i]].links)
      BY <2>1, ListIsStack DEF IsNode
    <2>3. Len(nodes[i].links) = Len(all[at[i]].links) /\ nodes[i].tag = all[at[i]].tag
      BY <1>6 DEF ReadAt
    <2> QED
      BY <1>3, <2>1, <2>2, <2>3, StackLen
  <1>10. ReadFrom(nodes, all, at)
    <2>1. \A i, j \in 1..Len(nodes) : i < j => at[i] < at[j]
      BY <1>6 DEF ReadAt
    <2>2. \A k \in 1..Len(all) : all[k].tag # "keywords" => \E i \in 1..Len(nodes) : at[i] = k
      BY <1>6, <1>7 DEF ReadAt
    <2> HIDE DEF q
    <2> QED
      BY <1>4, <1>7, <1>9, <2>1, <2>2 DEF ReadFrom
  <1>11. ASSUME NEW i \in DOMAIN nodes, NEW j \in DOMAIN nodes[i].links
         PROVE  LinkRight(key[1], nodes[i], all[at[i]].links[j], nodes[i].links[j])
    <2> DEFINE p == <<key, i, j>>
               n == all[at[i]].links[j]
               early == nodes[i].tag = "inherit" /\ j = 1
    <2>1. i \in 1..Len(nodes) /\ j \in 1..Len(nodes[i].links)
      BY <1>7, <1>9
    <2>2. LinkOK(key[1], early, n, nodes[i].links[j], World)
      BY <1>6, <2>1 DEF LinksOK
    <2>3. IsName(n)
      BY <1>9, <2>1 DEF IsNode
    <2>4. Place(p, World) /\ LinkIn(p, World) = nodes[i].links[j] /\ p[1][1] = key[1]
      BY <2>1, WorldIs DEF Place, LinkIn, nodes
    <2>5. early => nodes[i].tag = "inherit"
      OBVIOUS
    <2> HIDE DEF p, n, early
    <2>6. LinkRight(key[1], nodes[i], n, nodes[i].links[j])
      BY <1>3, <2>2, <2>3, <2>4, <2>5, LinkIsRight
    <2> QED
      BY <2>6 DEF n
  <1> QED
    BY <1>5, <1>8, <1>10, <1>11 DEF nodes

LEMMA LinksHold ==
  ASSUME LinksInv, ContextInv, LockInv
  PROVE  LinksResolved
  <1> SUFFICES ASSUME Quiet, ~updateStarted PROVE LinksRight
    BY DEF LinksResolved
  <1>1. stack = <<>> /\ Len(stack) = 0
    BY DEF Quiet, LockInv
  <1>2. CASE Cataloguing
    BY <1>2 DEF LinksInv, CatalogOK, LinksRight
  <1>3. CASE ~Cataloguing
    <2>1. LoadInv /\ SchemesOK(stack, World) /\ \A p : ~Open(p, World)
      BY <1>3 DEF LinksInv, LoadInv, Loading, Idle
    <2>2. \A key \in DOMAIN schemes : NodesRead(key, Len(NodesOf(key, World)) + 1, World)
      BY <1>1, <2>1, WorldIs DEF SchemesOK
    <2> QED
      BY <2>1, <2>2, SchemeIsRight DEF LinksRight
  <1> QED
    BY <1>2, <1>3

(* In a tidy library every scheme of a type that has been read leads where *)
(* the file of the type says, whenever somebody may parse: whatever order  *)
(* the types are loaded in while others are read, however they import and  *)
(* inherit each other, and whichever files are broken.                     *)
THEOREM LinksAreResolved == Spec => [](Tidy(lib) => LinksResolved)
  <1> DEFINE Inv == ContextInv /\ LockInv /\ (Tidy(lib) => LinksInv)
  <1>1. Init => Inv
    BY InitContext, InitLinks
  <1>2. Inv /\ [Next]_vars => Inv'
    <2> SUFFICES ASSUME Inv, [Next]_vars PROVE Inv'
      OBVIOUS
    <2>1. ContextInv' /\ LockInv'
      BY NextContext, NextLock
    <2>2. lib' = lib
      BY DEF Next, LoadProtoTypes, Load, Return, OpenFile, ParseLine, ResolveRegions, BeginParse,
             EndParse, vars
    <2>3. Tidy(lib)' <=> Tidy(lib)
      BY <2>2
    <2> QED
      BY <2>1, <2>3, NextLinks
  <1>3. Inv => (Tidy(lib) => LinksResolved)
    BY LinksHold
  <1> QED
    BY <1>1, <1>2, <1>3, PTL DEF Spec
=============================================================================
