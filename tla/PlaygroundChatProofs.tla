------------------------- MODULE PlaygroundChatProofs -------------------------
(***************************************************************************)
(* Proofs about the chat playground: its state keeps its types, the user is *)
(* never left with an answer that nothing can finish, and an answer is what *)
(* its own request was sent.  For any number of requests, any scripts a     *)
(* provider may follow and any number of reloads.                          *)
(*                                                                         *)
(* The first two need only the status of messages (Inv).  The third is      *)
(* about their text: what parseThinkTags, a fold, makes of a text and of    *)
(* the same text with one chunk more, what each handler makes of an answer  *)
(* (Raw while it is written, Whole once it is finished), and a second       *)
(* invariant on top of Inv (Faith).                                        *)
(***************************************************************************)
EXTENDS PlaygroundChat, SequenceTheorems, FiniteSetTheorems, TLAPS

-----------------------------------------------------------------------------
(* The invariant *)

Statuses == {"none", "loading", "streaming", "complete", "error"}

\* A message; only an answer can be unfinished.
Msg(m) ==
    /\ DOMAIN m = {"key", "status", "content", "reasoning"}
    /\ m.key \in {"user", "assistant"} \X Requests
    /\ m.status \in Statuses
    /\ Unfinished(m) => From(m) = "assistant"

\* A conversation is a sequence of messages.
Talk(ms) == \E M : ms \in Seq(M) /\ \A m \in M : Msg(m)

\* Only its last message is unfinished, or none.
OnlyLast(ms) == \A i \in DOMAIN ms : Unfinished(ms[i]) => i = Len(ms)
Settled(ms) == \A i \in DOMAIN ms : ~Unfinished(ms[i])

Flags ==
    /\ stream \in BOOLEAN /\ dirty \in BOOLEAN /\ generating \in BOOLEAN
    /\ complete \in BOOLEAN /\ cut \in BOOLEAN /\ unguarded \in BOOLEAN

Links ==
    /\ source \in Requests \cup {None}
    /\ req \in [Requests -> {"new", "open", "closed", "detached"}]
    /\ mounts \in 0 .. MaxMounts

Talks == Talk(msgs) /\ Talk(shown) /\ Talk(saved)

\* The stream that is open is the one the page refers to.
Referred == \A r \in Requests : req[r] = "open" => source = r /\ ~complete

\* As long as no two requests overlapped: a reference is on the screen as
\* "generating", without one every answer is finished, and what is on the
\* screen when nothing is generated is finished too (so that a click, which
\* goes by what was rendered, extends a finished conversation).
Guarded ==
    stream /\ ~unguarded =>
        /\ Referred
        /\ source # None => generating
        /\ OnlyLast(msgs) /\ OnlyLast(saved)
        /\ source = None => Settled(msgs)
        /\ ~generating => Settled(shown)

-----------------------------------------------------------------------------
(* Messages *)

LEMMA NewMessages ==
    ASSUME NEW r \in Requests
    PROVE  /\ Msg(UserMessage(r)) /\ ~Unfinished(UserMessage(r))
           /\ Msg(LoadingMessage(r))
<1>1. PICK u : u = UserMessage(r)
  OBVIOUS
<1>2. /\ DOMAIN u = {"key", "status", "content", "reasoning"}
      /\ u.key = <<"user", r>> /\ u.status = "none"
  BY <1>1 DEF UserMessage
<1>3. PICK l : l = LoadingMessage(r)
  OBVIOUS
<1>4. /\ DOMAIN l = {"key", "status", "content", "reasoning"}
      /\ l.key = <<"assistant", r>> /\ l.status = "loading"
  BY <1>3 DEF LoadingMessage
<1>5. Msg(u) /\ ~Unfinished(u)
  BY <1>2 DEF Msg, Unfinished, Statuses
<1>6. Msg(l)
  BY <1>4 DEF Msg, Unfinished, Statuses, From
<1> QED
  BY <1>1, <1>3, <1>5, <1>6

\* What the program writes to a message keeps its key; completing it and
\* failing it finish it.
LEMMA Finished ==
    ASSUME NEW m, Msg(m)
    PROVE  /\ Msg(Completed(m)) /\ ~Unfinished(Completed(m))
           /\ Msg(Failed(m)) /\ ~Unfinished(Failed(m))
<1>1. PICK v, w : finalizeMessage(m) = [m EXCEPT !.content = v, !.reasoning = w]
  BY DEF finalizeMessage
<1>2. PICK c : c = Completed(m)
  OBVIOUS
<1>3. c = [[m EXCEPT !.content = v, !.reasoning = w] EXCEPT !.status = "complete"]
  BY <1>1, <1>2 DEF Completed
<1>4. /\ DOMAIN c = {"key", "status", "content", "reasoning"}
      /\ c.key = m.key /\ c.status = "complete"
  BY <1>3 DEF Msg
<1>5. PICK d : d = Failed(m)
  OBVIOUS
<1>6. /\ DOMAIN d = {"key", "status", "content", "reasoning"}
      /\ d.key = m.key /\ d.status = "error"
  BY <1>5 DEF Msg, Failed
<1>7. Msg(c) /\ ~Unfinished(c)
  BY <1>4 DEF Msg, Unfinished, Statuses
<1>8. Msg(d) /\ ~Unfinished(d)
  BY <1>6 DEF Msg, Unfinished, Statuses
<1> QED
  BY <1>2, <1>5, <1>7, <1>8

LEMMA Rewritten ==
    ASSUME NEW m, Msg(m), NEW x
    PROVE  /\ Msg([m EXCEPT !.content = x])
           /\ Unfinished([m EXCEPT !.content = x]) <=> Unfinished(m)
<1>1. PICK c : c = [m EXCEPT !.content = x]
  OBVIOUS
<1>2. /\ DOMAIN c = {"key", "status", "content", "reasoning"}
      /\ c.key = m.key /\ c.status = m.status
  BY <1>1 DEF Msg
<1>3. Msg(c) /\ (Unfinished(c) <=> Unfinished(m))
  BY <1>2 DEF Msg, Unfinished, From
<1> QED
  BY <1>1, <1>3

-----------------------------------------------------------------------------
(* Conversations *)

LEMMA TalkFacts ==
    ASSUME NEW ms, Talk(ms)
    PROVE  /\ Len(ms) \in Nat /\ DOMAIN ms = 1 .. Len(ms)
           /\ \A i \in DOMAIN ms : Msg(ms[i])
           /\ ms # <<>> => Len(ms) \in DOMAIN ms /\ Last(ms) = ms[Len(ms)] /\ Msg(Last(ms))
<1>1. PICK M : ms \in Seq(M) /\ \A m \in M : Msg(m)
  BY DEF Talk
<1>2. Len(ms) \in Nat /\ DOMAIN ms = 1 .. Len(ms) /\ \A i \in DOMAIN ms : ms[i] \in M
  BY <1>1, LenProperties, ElementOfSeq
<1>3. ms # <<>> => Len(ms) \in DOMAIN ms
  BY <1>1, <1>2, EmptySeq
<1> QED
  BY <1>1, <1>2, <1>3 DEF Last

LEMMA EmptyTalk == Talk(<<>>) /\ Settled(<<>>) /\ OnlyLast(<<>>)
<1>1. <<>> \in Seq({})
  BY EmptySeq
<1>2. DOMAIN <<>> = {}
  BY <1>1, LenProperties, EmptySeq
<1> QED
  BY <1>1, <1>2 DEF Talk, Settled, OnlyLast

LEMMA Appended ==
    ASSUME NEW ms, Talk(ms), NEW m, Msg(m)
    PROVE  /\ Talk(Append(ms, m)) /\ Append(ms, m) # <<>>
           /\ Settled(ms) => OnlyLast(Append(ms, m))
           /\ Settled(ms) /\ ~Unfinished(m) => Settled(Append(ms, m))
<1>1. PICK M : ms \in Seq(M) /\ \A x \in M : Msg(x)
  BY DEF Talk
<1>2. PICK N : N = M \cup {m}
  OBVIOUS
<1>3. ms \in Seq(N) /\ m \in N /\ \A x \in N : Msg(x)
  BY <1>1, <1>2, SeqMonotonic
<1>4. PICK t : t = Append(ms, m)
  OBVIOUS
<1>5. /\ t \in Seq(N) /\ t # <<>> /\ Len(t) = Len(ms) + 1
      /\ \A i \in 1 .. Len(ms) : t[i] = ms[i]
      /\ t[Len(ms) + 1] = m
  BY <1>3, <1>4, AppendProperties
<1>6. Talk(t)
  BY <1>3, <1>5 DEF Talk
<1>7. /\ DOMAIN t = 1 .. Len(ms) + 1 /\ Len(ms) \in Nat /\ DOMAIN ms = 1 .. Len(ms)
  BY <1>5, <1>6, TalkFacts
<1>8. ASSUME Settled(ms) PROVE OnlyLast(t) /\ (~Unfinished(m) => Settled(t))
  BY <1>5, <1>7, <1>8 DEF Settled, OnlyLast
<1> QED
  BY <1>4, <1>5, <1>6, <1>8

LEMMA Prefix ==
    ASSUME NEW ms, Talk(ms), NEW n \in 0 .. Len(ms)
    PROVE  /\ Talk(SubSeq(ms, 1, n)) /\ ToSet(SubSeq(ms, 1, n)) \subseteq ToSet(ms)
           /\ Settled(ms) => Settled(SubSeq(ms, 1, n))
<1>1. PICK M : ms \in Seq(M) /\ \A x \in M : Msg(x)
  BY DEF Talk
<1>2. Len(ms) \in Nat /\ DOMAIN ms = 1 .. Len(ms) /\ \A i \in 1 .. Len(ms) : ms[i] \in M
  BY <1>1, LenProperties, ElementOfSeq
<1>3. PICK t : t = SubSeq(ms, 1, n)
  OBVIOUS
<1>4. n \in Int /\ 1 \in Int /\ \A i \in 1 .. n : ms[i] \in M
  BY <1>2
<1>5. /\ t \in Seq(M) /\ Len(t) = IF 1 <= n THEN n - 1 + 1 ELSE 0
      /\ \A i \in 1 .. n - 1 + 1 : t[i] = ms[1 + i - 1]
  BY <1>3, <1>4, SubSeqProperties
<1>6. Talk(t)
  BY <1>1, <1>5 DEF Talk
<1>7. DOMAIN t = 1 .. n /\ \A i \in 1 .. n : t[i] = ms[i]
  BY <1>4, <1>2, <1>5, <1>6, TalkFacts
<1>8. Settled(ms) => Settled(t)
  BY <1>2, <1>7 DEF Settled
<1>9. ToSet(t) \subseteq ToSet(ms)
  BY <1>2, <1>7 DEF ToSet
<1> QED
  BY <1>3, <1>6, <1>8, <1>9

LEMMA Removed ==
    ASSUME NEW ms, Talk(ms), NEW k \in DOMAIN ms
    PROVE  /\ Talk(RemoveAt(ms, k)) /\ ToSet(RemoveAt(ms, k)) \subseteq ToSet(ms)
           /\ Settled(ms) => Settled(RemoveAt(ms, k))
<1>1. PICK M : ms \in Seq(M) /\ \A x \in M : Msg(x)
  BY DEF Talk
<1>2. Len(ms) \in Nat /\ DOMAIN ms = 1 .. Len(ms) /\ \A i \in 1 .. Len(ms) : ms[i] \in M
  BY <1>1, LenProperties, ElementOfSeq
<1>3. PICK s : s = SubSeq(ms, 1, k - 1)
  OBVIOUS
<1>4. PICK t : t = SubSeq(ms, k + 1, Len(ms))
  OBVIOUS
<1>5. /\ s \in Seq(M) /\ Len(s) = IF 1 <= k - 1 THEN (k - 1) - 1 + 1 ELSE 0
      /\ \A i \in 1 .. (k - 1) - 1 + 1 : s[i] = ms[1 + i - 1]
  <2>1. k - 1 \in Int /\ 1 \in Int /\ \A i \in 1 .. k - 1 : ms[i] \in M
    BY <1>2
  <2> QED
    BY <1>3, <2>1, SubSeqProperties
<1>6. /\ t \in Seq(M) /\ Len(t) = IF k + 1 <= Len(ms) THEN Len(ms) - (k + 1) + 1 ELSE 0
      /\ \A i \in 1 .. Len(ms) - (k + 1) + 1 : t[i] = ms[(k + 1) + i - 1]
  <2>1. k + 1 \in Int /\ Len(ms) \in Int /\ \A i \in k + 1 .. Len(ms) : ms[i] \in M
    BY <1>2
  <2> QED
    BY <1>4, <2>1, SubSeqProperties
<1>7. PICK u : u = s \o t
  OBVIOUS
<1>8. /\ u \in Seq(M) /\ Len(u) = Len(s) + Len(t)
      /\ \A i \in 1 .. Len(s) + Len(t) : u[i] = IF i <= Len(s) THEN s[i] ELSE t[i - Len(s)]
  BY <1>5, <1>6, <1>7, ConcatProperties
<1>9. Talk(u)
  BY <1>1, <1>8 DEF Talk
<1>10. Len(s) = k - 1 /\ Len(t) = Len(ms) - k
  BY <1>2, <1>5, <1>6
<1>11. ASSUME NEW i \in DOMAIN u PROVE \E j \in DOMAIN ms : u[i] = ms[j]
  <2>1. i \in 1 .. Len(s) + Len(t)
    BY <1>8, <1>9, TalkFacts
  <2>2. CASE i <= k - 1
    BY <1>2, <1>5, <1>8, <1>10, <2>1, <2>2
  <2>3. CASE ~(i <= k - 1)
    <3>1. u[i] = t[i - (k - 1)] /\ i - (k - 1) \in 1 .. Len(ms) - k
      BY <1>2, <1>8, <1>10, <2>1, <2>3
    <3>2. t[i - (k - 1)] = ms[(k + 1) + (i - (k - 1)) - 1]
      BY <1>2, <1>6, <3>1
    <3>3. (k + 1) + (i - (k - 1)) - 1 \in DOMAIN ms
      BY <1>2, <1>10, <2>1, <2>3
    <3> QED
      BY <3>1, <3>2, <3>3
  <2> QED
    BY <2>2, <2>3
<1>12. Settled(ms) => Settled(u)
  BY <1>11 DEF Settled
<1>13. u = RemoveAt(ms, k)
  BY <1>3, <1>4, <1>7 DEF RemoveAt
<1>14. ToSet(u) \subseteq ToSet(ms)
  BY <1>11 DEF ToSet
<1> QED
  BY <1>9, <1>12, <1>13, <1>14

\* One message replaced.
With(ms, k, m) == [ms EXCEPT ![k] = m]

LEMMA Replaced ==
    ASSUME NEW ms, Talk(ms), NEW k \in DOMAIN ms, NEW m, Msg(m)
    PROVE  /\ Talk(With(ms, k, m)) /\ Len(With(ms, k, m)) = Len(ms)
           /\ DOMAIN With(ms, k, m) = DOMAIN ms /\ With(ms, k, m) # <<>>
           /\ \A i \in DOMAIN ms : With(ms, k, m)[i] = IF i = k THEN m ELSE ms[i]
<1>1. PICK M : ms \in Seq(M) /\ \A x \in M : Msg(x)
  BY DEF Talk
<1>2. PICK N : N = M \cup {m}
  OBVIOUS
<1>3. ms \in Seq(N) /\ m \in N /\ \A x \in N : Msg(x)
  BY <1>1, <1>2, SeqMonotonic
<1>4. k \in 1 .. Len(ms) /\ DOMAIN ms = 1 .. Len(ms)
  BY TalkFacts
<1>5. PICK t : t = With(ms, k, m)
  OBVIOUS
<1>6. /\ t \in Seq(N) /\ Len(t) = Len(ms)
      /\ \A j \in 1 .. Len(ms) : t[j] = IF j = k THEN m ELSE ms[j]
  BY <1>3, <1>4, <1>5, ExceptSeq DEF With
<1>7. Talk(t)
  BY <1>3, <1>6 DEF Talk
<1>8. DOMAIN t = DOMAIN ms
  BY <1>4, <1>6, <1>7, TalkFacts
<1>9. t # <<>>
  BY <1>4, <1>8, EmptyTalk, TalkFacts DEF Talk
<1> QED
  BY <1>4, <1>5, <1>6, <1>7, <1>8, <1>9

\* The last message replaced.
LEMMA LastReplaced ==
    ASSUME NEW ms, Talk(ms), ms # <<>>, NEW m, Msg(m)
    PROVE  /\ Talk(WithLast(ms, m)) /\ WithLast(ms, m) # <<>>
           /\ OnlyLast(ms) => OnlyLast(WithLast(ms, m))
           /\ OnlyLast(ms) /\ ~Unfinished(m) => Settled(WithLast(ms, m))
<1>1. PICK t : t = With(ms, Len(ms), m)
  OBVIOUS
<1>2. Len(ms) \in DOMAIN ms
  BY TalkFacts
<1>3. /\ Talk(t) /\ Len(t) = Len(ms) /\ DOMAIN t = DOMAIN ms /\ t # <<>>
      /\ \A i \in DOMAIN ms : t[i] = IF i = Len(ms) THEN m ELSE ms[i]
  BY <1>1, <1>2, Replaced
<1>4. t = WithLast(ms, m)
  BY <1>1 DEF With, WithLast
<1>5. OnlyLast(ms) => OnlyLast(t)
  BY <1>3 DEF OnlyLast
<1>6. OnlyLast(ms) /\ ~Unfinished(m) => Settled(t)
  BY <1>3 DEF OnlyLast, Settled
<1> QED
  BY <1>3, <1>4, <1>5, <1>6

\* The text of a message edited.
WithText(ms, k, x) == [ms EXCEPT ![k].content = x]

LEMMA EditedMessages ==
    ASSUME NEW ms, Talk(ms), NEW k \in DOMAIN ms, NEW x
    PROVE  /\ Talk(WithText(ms, k, x)) /\ Len(WithText(ms, k, x)) = Len(ms)
           /\ Settled(ms) => Settled(WithText(ms, k, x))
           /\ \A m \in ToSet(WithText(ms, k, x)) :
                 m \in ToSet(ms) \/ (m.key = ms[k].key /\ m.content = x)
<1>1. PICK m : m = [ms[k] EXCEPT !.content = x]
  OBVIOUS
<1>2. Msg(m) /\ (Unfinished(m) <=> Unfinished(ms[k]))
  <2>1. Msg(ms[k])
    BY TalkFacts
  <2> QED
    BY <1>1, <2>1, Rewritten
<1>3. PICK t : t = With(ms, k, m)
  OBVIOUS
<1>4. /\ Talk(t) /\ Len(t) = Len(ms) /\ DOMAIN t = DOMAIN ms
      /\ \A i \in DOMAIN ms : t[i] = IF i = k THEN m ELSE ms[i]
  BY <1>2, <1>3, Replaced
<1>5. Settled(ms) => Settled(t)
  BY <1>2, <1>4 DEF Settled
<1>6. t = WithText(ms, k, x)
  BY <1>1, <1>3 DEF With, WithText
<1>7. m.key = ms[k].key /\ m.content = x
  BY <1>1, TalkFacts DEF Msg
<1>8. \A d \in ToSet(t) : d \in ToSet(ms) \/ d = m
  BY <1>4 DEF ToSet
<1> QED
  BY <1>4, <1>5, <1>6, <1>7, <1>8

LEMMA EditedTalk ==
    ASSUME NEW ms, Talk(ms), NEW k \in DOMAIN ms, NEW x
    PROVE  /\ Talk(WithText(ms, k, x)) /\ Len(WithText(ms, k, x)) = Len(ms)
           /\ Settled(ms) => Settled(WithText(ms, k, x))
  BY EditedMessages

LEMMA TwoAppended ==
    ASSUME NEW ms, Talk(ms), NEW u, NEW l
    PROVE  Append(Append(ms, u), l) = ms \o <<u, l>>
<1>0. PICK a, b : a = Append(ms, u) /\ b = Append(a, l)
  OBVIOUS
<1>1. PICK M : ms \in Seq(M)
  BY DEF Talk
<1>2. PICK N : N = M \cup {u, l}
  OBVIOUS
<1>3. ms \in Seq(N) /\ u \in N /\ l \in N
  BY <1>1, <1>2, SeqMonotonic
<1>4. <<u>> \in Seq(N) /\ <<l>> \in Seq(N)
  BY <1>3
<1>5. a = ms \o <<u>> /\ a \in Seq(N)
  BY <1>0, <1>3, AppendIsConcat, AppendProperties
<1>6. b = a \o <<l>>
  BY <1>0, <1>3, <1>5, AppendIsConcat
<1>7. b = ms \o (<<u>> \o <<l>>)
  BY <1>3, <1>4, <1>5, <1>6, ConcatAssociative
<1>8. <<u>> \o <<l>> = <<u, l>>
  <2>1. PICK x, y, z : x = <<u>> /\ y = <<l>> /\ z = <<u, l>>
    OBVIOUS
  <2>2. /\ x \in Seq(N) /\ Len(x) = 1 /\ x[1] = u
        /\ y \in Seq(N) /\ Len(y) = 1 /\ y[1] = l
        /\ z \in Seq(N) /\ Len(z) = 2 /\ z[1] = u /\ z[2] = l
    BY <1>3, <2>1
  <2>3. /\ x \o y \in Seq(N) /\ Len(x \o y) = 2
        /\ (x \o y)[1] = u /\ (x \o y)[2] = l
    BY <2>2, ConcatProperties
  <2>4. \A i \in 1 .. Len(z) : z[i] = (x \o y)[i]
    BY <2>2, <2>3
  <2>5. z = x \o y
    BY <2>2, <2>3, <2>4, SeqEqual
  <2> QED
    BY <2>1, <2>5
<1> QED
  BY <1>0, <1>7, <1>8

\* A conversation with a question and the answer to come.
LEMMA Continued ==
    ASSUME NEW ms, Talk(ms), NEW r \in Requests
    PROVE  LET t == ms \o <<UserMessage(r), LoadingMessage(r)>> IN
           /\ Talk(t) /\ t # <<>>
           /\ Settled(ms) => OnlyLast(t)
<1>1. PICK u, l : u = UserMessage(r) /\ l = LoadingMessage(r)
  OBVIOUS
<1>2. Msg(u) /\ ~Unfinished(u) /\ Msg(l)
  BY <1>1, NewMessages
<1>3. PICK a, b : a = Append(ms, u) /\ b = Append(a, l)
  OBVIOUS
<1>4. Talk(a) /\ (Settled(ms) => Settled(a))
  BY <1>2, <1>3, Appended
<1>5. Talk(b) /\ b # <<>> /\ (Settled(ms) => OnlyLast(b))
  BY <1>2, <1>3, <1>4, Appended
<1>6. b = ms \o <<u, l>>
  BY <1>3, TwoAppended
<1> QED
  BY <1>1, <1>5, <1>6

Above(S, i) == {j \in S : i < j}

\* A set of places in a conversation has a last one: the one with the fewest
\* above it.
LEMMA MaxExists ==
    ASSUME NEW n \in Nat, NEW S \in SUBSET (1 .. n), S # {}
    PROVE  Max(S) \in S
<1>1. IsFiniteSet(S)
  <2>1. IsFiniteSet(1 .. n)
    BY FS_Interval
  <2> QED
    BY <2>1, FS_Subset
<1> DEFINE T == {Above(S, i) : i \in S}
<1>2. T \subseteq FiniteSubsetsOf(S) /\ T # {}
  <2>1. FiniteSubsetsOf(S) = SUBSET S
    BY <1>1, FS_FiniteSubsetsOfFinite
  <2>2. \A i \in S : Above(S, i) \in SUBSET S
    BY DEF Above
  <2>3. T \subseteq SUBSET S
    BY <2>2
  <2>4. T # {}
    BY Zenon
  <2> QED
    BY <2>1, <2>3, <2>4, Zenon
<1>3. PICK U \in T : \A V \in T : ~(<<V, U>> \in StrictSubsetOrdering(S))
  <2> HIDE DEF T
  <2> QED
    BY <1>2, FS_StrictSubsetOrderingWellFounded, WFMin
<1>4. PICK i \in S : U = Above(S, i)
  OBVIOUS
<1> HIDE DEF T
<1>5. \A x \in S : x \in Nat
  OBVIOUS
<1>6. ASSUME NEW j \in U PROVE FALSE
  <2>1. j \in S /\ Above(S, j) \subseteq U /\ j \notin Above(S, j)
    <3>1. j \in S /\ i < j
      BY <1>4, <1>6 DEF Above
    <3>2. j \in Nat /\ i \in Nat
      BY <1>5, <3>1
    <3>3. \A x \in S : j < x => i < x
      BY <1>5, <3>1, <3>2
    <3>4. Above(S, j) \subseteq U
      BY <1>4, <3>3 DEF Above
    <3>5. ~(j < j)
      BY <3>2
    <3> QED
      BY <3>1, <3>4, <3>5 DEF Above
  <2>2. Above(S, j) \in T
    BY <2>1 DEF T
  <2>3. Above(S, j) \in SUBSET S /\ U \in SUBSET S /\ Above(S, j) # U
    BY <1>4, <2>1 DEF Above
  <2>4. <<Above(S, j), U>> \in StrictSubsetOrdering(S)
    BY <2>1, <2>3 DEF StrictSubsetOrdering
  <2> QED
    BY <1>3, <2>2, <2>4
<1>7. \A j \in S : i >= j
  BY <1>4, <1>5, <1>6 DEF Above
<1> QED
  BY <1>7 DEF Max

\* After a reload no answer is unfinished, if only the last one was.
LEMMA Sanitized ==
    ASSUME NEW ms, Talk(ms)
    PROVE  /\ Talk(sanitizeMessagesOnLoad(ms))
           /\ OnlyLast(ms) => Settled(sanitizeMessagesOnLoad(ms))
<1>1. PICK stuck : stuck = {i \in DOMAIN ms : From(ms[i]) = "assistant" /\ Unfinished(ms[i])}
  OBVIOUS
<1>2. CASE stuck = {}
  <2>1. sanitizeMessagesOnLoad(ms) = ms
    BY <1>1, <1>2 DEF sanitizeMessagesOnLoad
  <2>2. Settled(ms)
    BY <1>1, <1>2, TalkFacts DEF Settled, Msg
  <2> QED
    BY <2>1, <2>2
<1>3. CASE stuck # {}
  <2>1. PICK k : k = Max(stuck)
    OBVIOUS
  <2>2. PICK f : f = Completed(ms[k])
    OBVIOUS
  <2>3. PICK m : m = IF f.content # <<>> \/ f.reasoning # <<>> THEN f ELSE Failed(f)
    OBVIOUS
  <2>4. sanitizeMessagesOnLoad(ms) = With(ms, k, m)
    BY <1>1, <1>3, <2>1, <2>2, <2>3 DEF sanitizeMessagesOnLoad, With
  <2>5. k \in stuck /\ k \in DOMAIN ms
    <3>1. Len(ms) \in Nat /\ stuck \in SUBSET (1 .. Len(ms))
      BY <1>1, TalkFacts
    <3>2. k \in stuck
      BY <1>3, <2>1, <3>1, MaxExists
    <3> QED
      BY <1>1, <3>2
  <2>6. Msg(m) /\ ~Unfinished(m)
    <3>1. Msg(f) /\ ~Unfinished(f)
      BY <2>2, <2>5, TalkFacts, Finished
    <3> QED
      BY <2>3, <3>1, Finished
  <2>7. PICK t : t = With(ms, k, m)
    OBVIOUS
  <2>8. /\ Talk(t) /\ Len(t) = Len(ms) /\ DOMAIN t = DOMAIN ms
        /\ \A i \in DOMAIN ms : t[i] = IF i = k THEN m ELSE ms[i]
    BY <2>5, <2>6, <2>7, Replaced
  <2>9. ASSUME OnlyLast(ms) PROVE Settled(t)
    <3>1. k = Len(ms)
      BY <1>1, <2>5, <2>9 DEF OnlyLast
    <3> QED
      BY <2>6, <2>8, <2>9, <3>1 DEF OnlyLast, Settled
  <2> QED
    BY <2>4, <2>7, <2>8, <2>9
<1> QED
  BY <1>2, <1>3

-----------------------------------------------------------------------------
(* Clicks and renders *)

Inv == Flags /\ Links /\ Talks /\ Guarded

LEMMA NoneIsNoRequest == None \notin Requests
  BY DEF None, Requests

\* Everything waiting is rendered and saved.
LEMMA FlushKeeps ==
    ASSUME NEW new, NEW src, Flush(new, src), source' = src, Talk(new),
           stream' /\ ~unguarded' =>
               Referred' /\ OnlyLast(new) /\ (src = None => Settled(new))
    PROVE  Talks' /\ Guarded' /\ dirty' \in BOOLEAN /\ generating' \in BOOLEAN
<1>1. msgs' = new /\ shown' = new /\ saved' = new
  BY DEF Flush
<1>2. dirty' \in BOOLEAN /\ generating' \in BOOLEAN /\ (generating' <=> src # None)
  BY Zenon DEF Flush
<1>3. Talks'
  BY <1>1 DEF Talks
<1>4. Guarded'
  <2>1. SUFFICES ASSUME stream', ~unguarded'
                 PROVE  /\ Referred' /\ (source' # None => generating')
                        /\ OnlyLast(msgs') /\ OnlyLast(saved')
                        /\ (source' = None => Settled(msgs'))
                        /\ (~generating' => Settled(shown'))
    BY Zenon DEF Guarded, OnlyLast, Settled
  <2>2. Referred' /\ OnlyLast(new) /\ (src = None => Settled(new))
    BY <2>1
  <2> QED
    BY <1>1, <1>2, <2>2
<1> QED
  BY <1>2, <1>3, <1>4

\* Nothing is open and the page is at rest.
AtRest == source = None /\ Settled(shown) /\ Settled(msgs) /\ \A q \in Requests : req[q] # "open"

LEMMA Rest ==
    ASSUME Guarded, stream, ~unguarded, ~generating
    PROVE  AtRest
<1>1. source = None
  BY DEF Guarded
<1> QED
  BY <1>1, NoneIsNoRequest DEF Guarded, Referred, AtRest

LEMMA SubmitKeeps ==
    ASSUME Inv, NEW r \in Requests, NEW new, Submit(r, new), Talk(new), new # <<>>,
           stream /\ ~unguarded' => AtRest /\ OnlyLast(new)
    PROVE  /\ Talks' /\ Guarded' /\ Links'
           /\ dirty' \in BOOLEAN /\ generating' \in BOOLEAN /\ complete' \in BOOLEAN
<1>1. UNCHANGED <<stream, mounts>> /\ sendChat(r, new)
  BY DEF Submit
<1>2. req \in [Requests -> {"new", "open", "closed", "detached"}] /\ source \in Requests \cup {None}
  BY DEF Inv, Links
<1>3. CASE /\ req' = [req EXCEPT ![r] = "open"]
           /\ source' = IF stream THEN r ELSE source
           /\ complete' = IF stream THEN FALSE ELSE complete
           /\ Flush(new, source')
  <2>1. Links'
    BY <1>1, <1>2, <1>3 DEF Inv, Links
  <2>2. complete' \in BOOLEAN /\ (stream => ~complete')
    BY <1>3, Zenon DEF Inv, Flags
  <2>3. ASSUME stream, ~unguarded' PROVE Referred' /\ OnlyLast(new) /\ source' # None
    <3>1. source' = r /\ AtRest
      BY <1>3, <2>3
    <3>2. \A q \in Requests : req'[q] = "open" => q = r
      BY <1>2, <1>3, <3>1 DEF AtRest
    <3> QED
      BY <2>2, <2>3, <3>1, <3>2, NoneIsNoRequest DEF Referred
  <2>4. Talks' /\ Guarded' /\ dirty' \in BOOLEAN /\ generating' \in BOOLEAN
    BY <1>1, <1>3, <2>3, FlushKeeps
  <2> QED
    BY <2>1, <2>2, <2>4
<1>4. CASE /\ req' = [req EXCEPT ![r] = "closed"]
           /\ source' = None
           /\ complete' = FALSE
           /\ Flush(WithLast(new, Failed(Last(new))), None)
  <2>1. Links'
    BY <1>1, <1>2, <1>4 DEF Inv, Links
  <2>2. complete' \in BOOLEAN
    BY <1>4, Zenon
  <2>3. PICK w : w = WithLast(new, Failed(Last(new)))
    OBVIOUS
  <2>4. Msg(Failed(Last(new))) /\ ~Unfinished(Failed(Last(new)))
    BY TalkFacts, Finished
  <2>5. Talk(w) /\ (OnlyLast(new) => OnlyLast(w) /\ Settled(w))
    BY <2>3, <2>4, LastReplaced
  <2>6. ASSUME stream, ~unguarded' PROVE Referred'
    BY <1>2, <1>4, <2>6 DEF AtRest, Referred
  <2>7. Talks' /\ Guarded' /\ dirty' \in BOOLEAN /\ generating' \in BOOLEAN
    BY <1>1, <1>4, <2>3, <2>5, <2>6, FlushKeeps
  <2> QED
    BY <2>1, <2>2, <2>7
<1> QED
  BY <1>1, <1>3, <1>4 DEF sendChat

\* A flag that is raised only while the page is busy.
LEMMA Raised ==
    ASSUME Flags, \/ unguarded' = (unguarded \/ Busy)
                  \/ (~generating /\ unguarded' = (unguarded \/ (~stream /\ Busy)))
    PROVE  unguarded' \in BOOLEAN /\ (stream /\ ~unguarded' => ~unguarded /\ ~generating)
  BY Zenon DEF Flags, Busy

\* All that submits.
LEMMA SubmitStep ==
    ASSUME Inv, NEW r \in Requests,
           \/ handleSubmit(r) \/ handleSuggestionClick(r)
           \/ \E i \in DOMAIN shown : handleRegenerateMessage(r, i) \/ saveEditAndSubmit(r, i)
    PROVE  Inv'
<1>1. ASSUME NEW new, Submit(r, new), Talk(new), new # <<>>, Settled(shown) => OnlyLast(new),
             \/ unguarded' = (unguarded \/ Busy)
             \/ (~generating /\ unguarded' = (unguarded \/ (~stream /\ Busy)))
      PROVE  Inv'
  <2>1. unguarded' \in BOOLEAN /\ (stream /\ ~unguarded' => ~unguarded /\ ~generating)
    BY <1>1, Raised DEF Inv
  <2>2. stream /\ ~unguarded' => AtRest /\ OnlyLast(new)
    BY <1>1, <2>1, Rest DEF AtRest, Inv
  <2>3. /\ Talks' /\ Guarded' /\ Links'
        /\ dirty' \in BOOLEAN /\ generating' \in BOOLEAN /\ complete' \in BOOLEAN
    BY <1>1, <2>2, SubmitKeeps
  <2>4. Flags'
    BY <1>1, <2>1, <2>3, Zenon DEF Submit, Inv, Flags
  <2> QED
    BY <2>3, <2>4 DEF Inv
<1>2. Talk(shown) /\ Msg(LoadingMessage(r))
  BY NewMessages DEF Inv, Talks
<1>3. ASSUME handleSubmit(r) \/ handleSuggestionClick(r) PROVE Inv'
  <2>1. PICK t : t = Conversation(r)
    OBVIOUS
  <2>2. Talk(t) /\ t # <<>> /\ (Settled(shown) => OnlyLast(t))
    BY <1>2, <2>1, Continued DEF Conversation
  <2>3. /\ Submit(r, t)
        /\ \/ unguarded' = (unguarded \/ Busy)
           \/ (~generating /\ unguarded' = (unguarded \/ (~stream /\ Busy)))
    BY <1>3, <2>1, Zenon DEF handleSubmit, handleSuggestionClick
  <2> QED
    BY <1>1, <2>2, <2>3
<1>4. ASSUME NEW i \in DOMAIN shown, handleRegenerateMessage(r, i) PROVE Inv'
  <2>1. PICK s : s = SubSeq(shown, 1, i - 1)
    OBVIOUS
  <2>2. i - 1 \in 0 .. Len(shown)
    BY <1>2, TalkFacts
  <2>3. Talk(s) /\ (Settled(shown) => Settled(s))
    BY <1>2, <2>1, <2>2, Prefix
  <2>4. PICK t : t = Append(s, LoadingMessage(r))
    OBVIOUS
  <2>5. Talk(t) /\ t # <<>> /\ (Settled(shown) => OnlyLast(t))
    BY <1>2, <2>3, <2>4, Appended
  <2>6. Submit(r, t) /\ ~generating /\ unguarded' = (unguarded \/ (~stream /\ Busy))
    BY <1>4, <2>1, <2>4, Zenon DEF handleRegenerateMessage, HasActions
  <2> QED
    BY <1>1, <2>5, <2>6
<1>5. ASSUME NEW i \in DOMAIN shown, saveEditAndSubmit(r, i) PROVE Inv'
  <2>1. PICK e : e = WithText(shown, i, Edited) /\ e = WithEdit(i)
    BY DEF WithText, WithEdit
  <2>2. Talk(e) /\ Len(e) = Len(shown) /\ (Settled(shown) => Settled(e))
    BY <1>2, <2>1, EditedTalk
  <2>3. PICK s : s = SubSeq(e, 1, i)
    OBVIOUS
  <2>4. i \in 0 .. Len(e)
    BY <1>2, <2>2, TalkFacts
  <2>5. Talk(s) /\ (Settled(shown) => Settled(s))
    BY <2>2, <2>3, <2>4, Prefix
  <2>6. PICK t : t = Append(s, LoadingMessage(r))
    OBVIOUS
  <2>7. Talk(t) /\ t # <<>> /\ (Settled(shown) => OnlyLast(t))
    BY <1>2, <2>5, <2>6, Appended
  <2>8. Submit(r, t) /\ unguarded' = (unguarded \/ Busy)
    BY <1>5, <2>1, <2>3, <2>6, Zenon DEF saveEditAndSubmit
  <2> QED
    BY <1>1, <2>7, <2>8
<1> QED
  BY <1>3, <1>4, <1>5

LEMMA SettledIsOnlyLast ==
    ASSUME NEW ms, Settled(ms)
    PROVE  OnlyLast(ms)
  BY DEF Settled, OnlyLast

\* A click that neither submits nor stops, and a render: what is rendered is
\* the conversation, or a change to what was rendered while nothing was open.
LEMMA FlushStep ==
    ASSUME Inv, NEW new, Flush(new, source), UNCHANGED <<stream, source, complete, req, mounts, cut>>,
           unguarded' \in BOOLEAN, stream /\ ~unguarded' => ~unguarded,
           Talk(new),
           stream /\ ~unguarded' => new = msgs \/ (source = None /\ Settled(new))
    PROVE  Inv'
<1>1. stream' /\ ~unguarded' => Referred' /\ OnlyLast(new) /\ (source = None => Settled(new))
  <2>1. ASSUME stream, ~unguarded' PROVE Referred' /\ OnlyLast(new) /\ (source = None => Settled(new))
    <3>1. Referred'
      BY <2>1, Zenon DEF Inv, Guarded, Referred
    <3>2. OnlyLast(msgs) /\ (source = None => Settled(msgs))
      BY <2>1 DEF Inv, Guarded
    <3> QED
      BY <2>1, <3>1, <3>2, SettledIsOnlyLast
  <2> QED
    BY <2>1
<1>2. Talks' /\ Guarded' /\ dirty' \in BOOLEAN /\ generating' \in BOOLEAN
  BY <1>1, FlushKeeps
<1>3. Links'
  BY DEF Inv, Links
<1>4. Flags'
  BY <1>2, Zenon DEF Inv, Flags
<1> QED
  BY <1>2, <1>3, <1>4 DEF Inv

LEMMA ClickStep ==
    ASSUME Inv, \/ Render \/ handleEditCancel
                \/ \E i \in DOMAIN shown : handleDeleteMessage(i) \/ handleEditMessage(i) \/ saveEdit(i)
    PROVE  Inv'
<1>1. Talk(msgs) /\ Talk(shown) /\ unguarded \in BOOLEAN
  BY DEF Inv, Talks, Flags
<1>2. ASSUME Render \/ handleEditCancel \/ \E i \in DOMAIN shown : handleEditMessage(i) PROVE Inv'
  <2>1. Flush(msgs, source) /\ UNCHANGED <<stream, source, complete, req, mounts, cut, unguarded>>
    BY <1>2 DEF Render, handleEditCancel, handleEditMessage
  <2> QED
    BY <1>1, <2>1, FlushStep
<1>3. ASSUME NEW i \in DOMAIN shown, NEW new, Talk(new), Settled(shown) => Settled(new),
             Flush(new, source), UNCHANGED <<stream, source, complete, req, mounts, cut>>,
             \/ unguarded' = (unguarded \/ Busy)
             \/ (~generating /\ unguarded' = (unguarded \/ (~stream /\ Busy)))
      PROVE  Inv'
  <2>1. unguarded' \in BOOLEAN /\ (stream /\ ~unguarded' => ~unguarded /\ ~generating)
    BY <1>3, Raised DEF Inv
  <2>2. stream /\ ~unguarded' => source = None /\ Settled(new)
    BY <1>3, <2>1, Rest DEF AtRest, Inv
  <2> QED
    BY <1>3, <2>1, <2>2, FlushStep
<1>4. ASSUME NEW i \in DOMAIN shown, handleDeleteMessage(i) PROVE Inv'
  <2>1. PICK t : t = RemoveAt(shown, i)
    OBVIOUS
  <2>2. Talk(t) /\ (Settled(shown) => Settled(t))
    BY <1>1, <2>1, Removed
  <2>3. /\ Flush(t, source) /\ UNCHANGED <<stream, source, complete, req, mounts, cut>>
        /\ ~generating /\ unguarded' = (unguarded \/ (~stream /\ Busy))
    BY <1>4, <2>1, Zenon DEF handleDeleteMessage, HasActions
  <2> QED
    BY <1>3, <2>2, <2>3
<1>5. ASSUME NEW i \in DOMAIN shown, saveEdit(i) PROVE Inv'
  <2>1. PICK t : t = WithText(shown, i, Edited) /\ t = WithEdit(i)
    BY DEF WithText, WithEdit
  <2>2. Talk(t) /\ (Settled(shown) => Settled(t))
    BY <1>1, <2>1, EditedTalk
  <2>3. /\ Flush(t, source) /\ UNCHANGED <<stream, source, complete, req, mounts, cut>>
        /\ unguarded' = (unguarded \/ Busy)
    BY <1>5, <2>1, Zenon DEF saveEdit
  <2> QED
    BY <1>3, <2>2, <2>3
<1> QED
  BY <1>2, <1>4, <1>5

\* A conversation whose last message is no answer, or a finished one, is
\* settled when only its last message could be unfinished.
LEMMA LastSettles ==
    ASSUME NEW ms, Talk(ms), OnlyLast(ms), ~LastIsAssistant(ms) \/ ~Unfinished(Last(ms))
    PROVE  Settled(ms)
<1>1. ASSUME NEW i \in DOMAIN ms, Unfinished(ms[i]) PROVE FALSE
  <2>1. i = Len(ms) /\ Last(ms) = ms[i]
    BY <1>1 DEF OnlyLast, Last
  <2>2. Msg(ms[i]) /\ ms # <<>>
    BY <1>1, TalkFacts, EmptyTalk DEF Settled
  <2>3. From(ms[i]) = "assistant"
    BY <1>1, <2>2 DEF Msg
  <2> QED
    BY <1>1, <2>1, <2>2, <2>3 DEF LastIsAssistant
<1> QED
  BY <1>1 DEF Settled

LEMMA StopStep ==
    ASSUME Inv, stopGeneration
    PROVE  Inv'
<1>1. PICK new : /\ new = IF LastIsAssistant(msgs) /\ Unfinished(Last(msgs))
                          THEN WithLast(msgs, Completed(Last(msgs))) ELSE msgs
                 /\ Flush(new, None)
  BY DEF stopGeneration
<1>2. /\ req' = IF source # None /\ req[source] = "open" THEN [req EXCEPT ![source] = "closed"] ELSE req
      /\ source' = None /\ UNCHANGED <<stream, complete, mounts, cut, unguarded>>
  BY DEF stopGeneration
<1>3. Talk(msgs) /\ req \in [Requests -> {"new", "open", "closed", "detached"}]
  BY DEF Inv, Talks, Links
<1>4. Links'
  BY <1>2, <1>3 DEF Inv, Links
<1>5. Talk(new) /\ (OnlyLast(msgs) => OnlyLast(new) /\ Settled(new))
  <2>1. CASE LastIsAssistant(msgs) /\ Unfinished(Last(msgs))
    <3>1. Msg(Completed(Last(msgs))) /\ ~Unfinished(Completed(Last(msgs))) /\ msgs # <<>>
      BY <1>3, <2>1, TalkFacts, Finished DEF LastIsAssistant
    <3>2. new = WithLast(msgs, Completed(Last(msgs)))
      BY <1>1, <2>1
    <3> QED
      BY <1>3, <3>1, <3>2, LastReplaced
  <2>2. CASE ~LastIsAssistant(msgs) \/ ~Unfinished(Last(msgs))
    BY <1>1, <1>3, <2>2, LastSettles
  <2> QED
    BY <2>1, <2>2
<1>6. ASSUME stream, ~unguarded PROVE Referred' /\ OnlyLast(msgs)
  <2>1. Referred /\ OnlyLast(msgs)
    BY <1>6 DEF Inv, Guarded
  <2>2. \A q \in Requests : req'[q] # "open"
    BY <1>2, <1>3, <2>1, NoneIsNoRequest DEF Referred
  <2> QED
    BY <2>1, <2>2 DEF Referred
<1>7. Talks' /\ Guarded' /\ dirty' \in BOOLEAN /\ generating' \in BOOLEAN
  BY <1>1, <1>2, <1>5, <1>6, FlushKeeps
<1>8. Flags'
  BY <1>2, <1>7, Zenon DEF Inv, Flags
<1> QED
  BY <1>4, <1>7, <1>8 DEF Inv

LEMMA MountStep ==
    ASSUME Inv, mount
    PROVE  Inv'
<1>1. PICK new : new = sanitizeMessagesOnLoad(saved) /\ Flush(new, None)
  BY DEF mount
<1>2. /\ mounts < MaxMounts /\ mounts' = mounts + 1
      /\ req' = [r \in Requests |-> IF req[r] = "new" THEN "new" ELSE "detached"]
      /\ source' = None /\ complete' = FALSE /\ UNCHANGED <<stream, cut, unguarded>>
  BY DEF mount
<1>3. Talk(new) /\ (OnlyLast(saved) => Settled(new))
  BY <1>1, Sanitized DEF Inv, Talks
<1>4. Links'
  BY <1>2, PlaygroundAssumption DEF Inv, Links
<1>5. Referred'
  BY <1>2 DEF Referred
<1>6. stream /\ ~unguarded => OnlyLast(saved)
  BY DEF Inv, Guarded
<1>7. Talks' /\ Guarded' /\ dirty' \in BOOLEAN /\ generating' \in BOOLEAN
  BY <1>1, <1>2, <1>3, <1>5, <1>6, SettledIsOnlyLast, FlushKeeps
<1>8. Flags'
  BY <1>2, <1>7, Zenon DEF Inv, Flags
<1> QED
  BY <1>4, <1>7, <1>8 DEF Inv

-----------------------------------------------------------------------------
(* Streams and responses *)

\* An update of the last answer.  Only one that finishes it may drop the
\* reference.
LEMMA UpdateKeeps ==
    ASSUME Inv, NEW m, UpdateLast(m), LastIsAssistant(msgs) => Msg(m),
           UNCHANGED <<stream, unguarded>>,
           stream /\ ~unguarded =>
               /\ Referred' /\ source' \in {source, None}
               /\ source' = None /\ LastIsAssistant(msgs) => ~Unfinished(m)
    PROVE  Talks' /\ Guarded' /\ dirty' \in BOOLEAN /\ generating' \in BOOLEAN
<1>1. PICK new : /\ new = IF LastIsAssistant(msgs) THEN WithLast(msgs, m) ELSE msgs
                 /\ Update(new)
  BY DEF UpdateLast
<1>2. msgs' = new /\ saved' \in {saved, new} /\ UNCHANGED <<shown, generating>>
  BY <1>1 DEF Update
<1>3. dirty' \in BOOLEAN /\ generating' \in BOOLEAN
  BY <1>1, Zenon DEF Update, Inv, Flags
<1>4. Talk(msgs) /\ Talk(shown) /\ Talk(saved)
  BY DEF Inv, Talks
<1>5. /\ Talk(new) /\ (OnlyLast(msgs) => OnlyLast(new))
      /\ OnlyLast(msgs) /\ (LastIsAssistant(msgs) => ~Unfinished(m)) => Settled(new)
  <2>1. CASE LastIsAssistant(msgs)
    <3>1. msgs # <<>> /\ new = WithLast(msgs, m)
      BY <1>1, <2>1 DEF LastIsAssistant
    <3> QED
      BY <1>4, <2>1, <3>1, LastReplaced
  <2>2. CASE ~LastIsAssistant(msgs)
    BY <1>1, <1>4, <2>2, LastSettles
  <2> QED
    BY <2>1, <2>2
<1>6. Talks'
  BY <1>2, <1>4, <1>5 DEF Talks
<1>7. ASSUME stream, ~unguarded
      PROVE  /\ Referred' /\ (source' # None => generating')
             /\ OnlyLast(msgs') /\ OnlyLast(saved')
             /\ (source' = None => Settled(msgs'))
             /\ (~generating' => Settled(shown'))
  <2>1. /\ OnlyLast(msgs) /\ OnlyLast(saved) /\ (source # None => generating)
        /\ (~generating => Settled(shown))
    BY <1>7 DEF Inv, Guarded
  <2>2. OnlyLast(msgs') /\ OnlyLast(saved') /\ (source' = None => Settled(msgs'))
    BY <1>2, <1>5, <1>7, <2>1
  <2> QED
    BY <1>2, <1>7, <2>1, <2>2
<1>8. Guarded'
  BY <1>7, Zenon DEF Guarded, OnlyLast, Settled
<1> QED
  BY <1>3, <1>6, <1>8

\* A request that ends is open no more.
LEMMA Closed ==
    ASSUME Inv, NEW r \in Requests, req' = [req EXCEPT ![r] = "closed"], UNCHANGED mounts,
           source' \in {source, None}
    PROVE  /\ Links'
           /\ stream /\ ~unguarded /\ req[r] = "open" =>
                Referred' /\ ~complete /\ source = r
<1>1. req \in [Requests -> {"new", "open", "closed", "detached"}]
  BY DEF Inv, Links
<1>2. Links'
  BY <1>1 DEF Inv, Links
<1>3. ASSUME stream, ~unguarded, req[r] = "open" PROVE Referred' /\ ~complete /\ source = r
  <2>1. ~complete /\ source = r /\ \A q \in Requests : req[q] = "open" => q = r
    BY <1>3 DEF Inv, Guarded, Referred
  <2>2. \A q \in Requests : req'[q] # "open"
    BY <1>1, <2>1
  <2> QED
    BY <2>1, <2>2 DEF Referred
<1> QED
  BY <1>2, <1>3

LEMMA ChunkMessage ==
    ASSUME NEW m, Msg(m), From(m) = "assistant", NEW c, NEW kind
    PROVE  Msg([(IF kind = "reason" THEN [m EXCEPT !.reasoning = Append(@, c)]
                 ELSE processStreamingContent(m, c)) EXCEPT !.status = "streaming"])
<1>1. PICK x : x = IF kind = "reason" THEN [m EXCEPT !.reasoning = Append(@, c)]
                   ELSE processStreamingContent(m, c)
  OBVIOUS
<1>2. DOMAIN x = {"key", "status", "content", "reasoning"} /\ x.key = m.key
  <2>1. PICK v, w : processStreamingContent(m, c) = [m EXCEPT !.content = v, !.reasoning = w]
    BY DEF processStreamingContent
  <2>2. PICK a : Append(m.reasoning, c) = a
    OBVIOUS
  <2>3. x = [m EXCEPT !.reasoning = a] \/ x = [m EXCEPT !.content = v, !.reasoning = w]
    BY <1>1, <2>1, <2>2
  <2> QED
    BY <2>3 DEF Msg
<1>3. PICK y : y = [x EXCEPT !.status = "streaming"]
  OBVIOUS
<1>4. /\ DOMAIN y = {"key", "status", "content", "reasoning"}
      /\ y.key = m.key /\ y.status = "streaming"
  BY <1>2, <1>3
<1>5. Msg(y)
  BY <1>4 DEF Msg, Statuses, From
<1> QED
  BY <1>1, <1>3, <1>5

LEMMA ChunkStep ==
    ASSUME Inv, NEW r \in Requests, NEW kind, chunk(r, kind)
    PROVE  Inv'
<1>1. PICK c : c = <<r, Len(out[r]) + 1, kind>>
  OBVIOUS
<1>2. PICK m : /\ m = IF Last(msgs).status = "error" THEN Last(msgs)
                      ELSE [(IF kind = "reason" THEN [Last(msgs) EXCEPT !.reasoning = Append(@, c)]
                             ELSE processStreamingContent(Last(msgs), c)) EXCEPT !.status = "streaming"]
               /\ UpdateLast(m)
  BY <1>1 DEF chunk
<1>3. /\ UNCHANGED <<stream, source, complete, req, mounts, cut, unguarded>> /\ req[r] = "open"
  BY DEF chunk, Streaming
<1>4. LastIsAssistant(msgs) => Msg(m)
  <2>1. ASSUME LastIsAssistant(msgs) PROVE Msg(Last(msgs)) /\ From(Last(msgs)) = "assistant"
    BY <2>1, TalkFacts DEF Inv, Talks, LastIsAssistant
  <2> QED
    BY <1>2, <2>1, ChunkMessage
<1>5. ASSUME stream, ~unguarded PROVE Referred' /\ source' = source /\ source' # None
  <2>1. Referred /\ source = r
    BY <1>3, <1>5 DEF Inv, Guarded, Referred
  <2> QED
    BY <1>3, <2>1, NoneIsNoRequest DEF Referred
<1>6. Talks' /\ Guarded' /\ dirty' \in BOOLEAN /\ generating' \in BOOLEAN
  BY <1>2, <1>3, <1>4, <1>5, UpdateKeeps
<1>7. Links'
  BY <1>3 DEF Inv, Links
<1>8. Flags'
  BY <1>3, <1>6, Zenon DEF Inv, Flags
<1> QED
  BY <1>6, <1>7, <1>8 DEF Inv

\* The end of a request: its answer is finished and the reference dropped, or,
\* when the stream ends without a word, both stay as they are.
LEMMA EndStep ==
    ASSUME Inv, NEW r \in Requests, Ends(r)
    PROVE  Inv'
<1>1. Talk(msgs) /\ Talk(shown) /\ Talk(saved)
  BY DEF Inv, Talks
<1>2. ASSUME LastIsAssistant(msgs) PROVE Msg(Last(msgs))
  BY <1>1, <1>2, TalkFacts DEF LastIsAssistant
<1>3. ASSUME NEW m, UpdateLast(m), LastIsAssistant(msgs) => Msg(m) /\ ~Unfinished(m),
             req[r] = "open", req' = [req EXCEPT ![r] = "closed"], source' \in {source, None},
             complete' \in BOOLEAN, UNCHANGED <<stream, mounts, cut, unguarded>>
      PROVE  Inv'
  <2>1. Links' /\ (stream /\ ~unguarded => Referred')
    BY <1>3, Closed
  <2>2. Talks' /\ Guarded' /\ dirty' \in BOOLEAN /\ generating' \in BOOLEAN
    BY <1>3, <2>1, UpdateKeeps
  <2>3. Flags'
    BY <1>3, <2>2, Zenon DEF Inv, Flags
  <2> QED
    BY <2>1, <2>2, <2>3 DEF Inv
<1>4. ASSUME req[r] = "open", req' = [req EXCEPT ![r] = "closed"],
             UNCHANGED <<stream, msgs, shown, saved, dirty, generating, source, complete, mounts, unguarded>>,
             cut' \in BOOLEAN
      PROVE  Inv'
  <2>1. Links' /\ (stream /\ ~unguarded => Referred')
    BY <1>4, Closed
  <2>2. Talks'
    BY <1>1, <1>4 DEF Talks
  <2>3. Guarded'
    BY <1>4, <2>1, Zenon DEF Inv, Guarded, OnlyLast, Settled
  <2>4. Flags'
    BY <1>4, Zenon DEF Inv, Flags
  <2> QED
    BY <2>1, <2>2, <2>3, <2>4 DEF Inv
<1>5. complete \in BOOLEAN /\ cut \in BOOLEAN
  BY DEF Inv, Flags
<1>6. ASSUME LastIsAssistant(msgs) PROVE Msg(Failed(Last(msgs))) /\ ~Unfinished(Failed(Last(msgs)))
  BY <1>2, <1>6, Finished
<1>7. ASSUME done(r) PROVE Inv'
  <2>1. PICK m : /\ m = IF Unfinished(Last(msgs)) THEN Completed(Last(msgs)) ELSE Last(msgs)
                 /\ UpdateLast(m)
    BY <1>7 DEF done
  <2>2. LastIsAssistant(msgs) => Msg(m) /\ ~Unfinished(m)
    BY <1>2, <2>1, Finished
  <2>3. complete' \in BOOLEAN
    BY <1>7, Zenon DEF done
  <2>4. /\ req[r] = "open" /\ req' = [req EXCEPT ![r] = "closed"] /\ source' = None
        /\ UNCHANGED <<stream, mounts, cut, unguarded>>
    BY <1>7 DEF done, Streaming
  <2> QED
    BY <1>3, <2>1, <2>2, <2>3, <2>4
<1>8. ASSUME handleError(r) PROVE Inv'
  <2>1. /\ req[r] = "open" /\ req' = [req EXCEPT ![r] = "closed"]
        /\ UNCHANGED <<stream, complete, mounts, cut, unguarded>>
    BY <1>8 DEF handleError, Streaming
  <2>2. ASSUME source' = None, UpdateLast(Failed(Last(msgs))) PROVE Inv'
    BY <1>3, <1>5, <1>6, <2>1, <2>2
  <2>3. ASSUME UNCHANGED <<source, msgs, dirty, saved, shown, generating>> PROVE Inv'
    BY <1>4, <1>5, <2>1, <2>3
  <2> QED
    BY <1>8, <2>2, <2>3 DEF handleError
<1>9. ASSUME endsSilently(r) PROVE Inv'
  <2>1. cut' \in BOOLEAN
    BY <1>9, Zenon DEF endsSilently
  <2> QED
    BY <1>4, <1>9, <2>1 DEF endsSilently, Streaming
<1>10. ASSUME response(r) PROVE Inv'
  <2>1. /\ req[r] = "open" /\ req' = [req EXCEPT ![r] = "closed"]
        /\ UNCHANGED <<stream, source, complete, mounts, unguarded>>
    BY <1>10 DEF response
  <2>2. PICK c : c = <<r, 1, "text">>
    OBVIOUS
  <2>3. ASSUME UpdateLast(Completed([Last(msgs) EXCEPT !.content = <<c>>])), UNCHANGED cut PROVE Inv'
    <3>1. PICK m : m = Completed([Last(msgs) EXCEPT !.content = <<c>>])
      OBVIOUS
    <3>2. LastIsAssistant(msgs) => Msg(m) /\ ~Unfinished(m)
      BY <1>2, <3>1, Rewritten, Finished
    <3> QED
      BY <1>3, <1>5, <2>1, <2>3, <3>1, <3>2
  <2>4. ASSUME UpdateLast(Failed(Last(msgs))), UNCHANGED cut PROVE Inv'
    BY <1>3, <1>5, <1>6, <2>1, <2>4
  <2>5. ASSUME cut' = TRUE, UNCHANGED <<msgs, shown, saved, dirty, generating>> PROVE Inv'
    <3>1. cut' \in BOOLEAN
      BY <2>5, Zenon
    <3> QED
      BY <1>4, <2>1, <2>5, <3>1
  <2> QED
    BY <1>10, <2>2, <2>3, <2>4, <2>5 DEF response
<1> QED
  BY <1>7, <1>8, <1>9, <1>10 DEF Ends

-----------------------------------------------------------------------------
(* The theorems *)

LEMMA InvInit == Init => Inv
<1> SUFFICES ASSUME Init PROVE Inv
  OBVIOUS
<1>1. Flags
  BY Zenon DEF Init, Flags
<1>2. Links
  BY PlaygroundAssumption DEF Init, Links
<1>3. msgs = <<>> /\ shown = <<>> /\ saved = <<>> /\ source = None
  BY DEF Init
<1>4. Talks
  BY <1>3, EmptyTalk DEF Talks
<1>5. Referred
  BY DEF Init, Referred
<1>6. Guarded
  BY <1>3, <1>5, EmptyTalk DEF Guarded
<1> QED
  BY <1>1, <1>2, <1>4, <1>6 DEF Inv

LEMMA InvStep == Inv /\ [Next]_vars => Inv'
<1> SUFFICES ASSUME Inv, [Next]_vars PROVE Inv'
  OBVIOUS
<1>1. ASSUME UNCHANGED vars PROVE Inv'
  <2>1. Talks' /\ Links'
    BY <1>1 DEF vars, Inv, Talks, Links
  <2>2. Flags'
    BY <1>1, Zenon DEF vars, Inv, Flags
  <2>3. Guarded'
    BY <1>1, Zenon DEF vars, Inv, Guarded, Referred, OnlyLast, Settled
  <2> QED
    BY <2>1, <2>2, <2>3 DEF Inv
<1>2. ASSUME User PROVE Inv'
  BY <1>2, SubmitStep, ClickStep, StopStep, MountStep DEF User
<1>3. ASSUME Render PROVE Inv'
  BY <1>3, ClickStep
<1>4. ASSUME NEW r \in Requests, Ends(r) \/ \E k \in {"reason", "text", "open", "close"} : chunk(r, k)
      PROVE  Inv'
  BY <1>4, EndStep, ChunkStep
<1> QED
  BY <1>1, <1>2, <1>3, <1>4 DEF Next

\* The state of the playground keeps its types: what is shown, kept and saved
\* are conversations of well-formed messages, whatever was cut out or edited.
THEOREM PlaygroundTypes == Spec => []TypeOK
<1>1. ASSUME Inv PROVE TypeOK
  <2>1. ASSUME NEW ms, Talk(ms)
        PROVE  \A i \in DOMAIN ms : /\ ms[i].key \in {"user", "assistant"} \X Requests
                                    /\ ms[i].status \in {"none", "loading", "streaming", "complete", "error"}
    BY <2>1, TalkFacts DEF Msg, Statuses
  <2>2. \A ms \in {msgs, shown, saved} : Talk(ms)
    BY <1>1 DEF Inv, Talks
  <2>3. \A ms \in {msgs, shown, saved} : \A i \in DOMAIN ms :
          /\ ms[i].key \in {"user", "assistant"} \X Requests
          /\ ms[i].status \in {"none", "loading", "streaming", "complete", "error"}
    BY <2>1, <2>2
  <2> QED
    BY <1>1, <2>3, Zenon DEF Inv, Flags, Links, TypeOK
<1> QED
  BY <1>1, InvInit, InvStep, PTL DEF Spec

\* No answer is left that nothing can finish: an unfinished answer is the last
\* message, and its stream is open or the stop button is on the screen, also
\* after errors, cut connections, deletions, edits and reloads.
THEOREM NoAnswerIsStuck == Spec => []NeverStuck
<1>1. ASSUME Inv, stream, ~unguarded, NEW i \in DOMAIN msgs, Unfinished(msgs[i])
      PROVE  i = Len(msgs) /\ generating
  BY <1>1, Zenon DEF Inv, Guarded, OnlyLast, Settled
<1>2. Inv => NeverStuck
  BY <1>1, Zenon DEF NeverStuck
<1> QED
  BY <1>2, InvInit, InvStep, PTL DEF Spec

-----------------------------------------------------------------------------
(* parseThinkTags, a fold over the places of a text.  Its recursive         *)
(* function, over sets of places, is the only one that solves its equation, *)
(* and so a longer text is parsed by one more ThinkStep.                    *)

\* g is the function that the fold over s unfolds to.
Solves(s, g) ==
    g = [S \in SUBSET (DOMAIN s) |->
            IF S = {} THEN NotThinking ELSE ThinkStep(g[S \ {Max(S)}], s[Max(S)])]

LEMMA ParseUnfolds ==
    ASSUME NEW s
    PROVE  parseThinkTags(s) = (CHOOSE g : Solves(s, g))[DOMAIN s]
  BY DEF parseThinkTags, FoldLeft, MapThenFoldSet, Solves

\* Induction over the parts of a text: a set of subsets of a
\* finite set that is not empty has a smallest member.
LEMMA Smallest ==
    ASSUME NEW n \in Nat, NEW T \in SUBSET (SUBSET (1 .. n)), T # {}
    PROVE  \E U \in T : \A V \in SUBSET U : V # U => V \notin T
<1>1. IsFiniteSet(1 .. n)
  BY FS_Interval
<1>2. T \subseteq FiniteSubsetsOf(1 .. n)
  BY <1>1, FS_FiniteSubsetsOfFinite
<1>3. PICK U \in T : \A V \in T : ~(<<V, U>> \in StrictSubsetOrdering(1 .. n))
  BY <1>1, <1>2, FS_StrictSubsetOrderingWellFounded, WFMin
<1> QED
  BY <1>3 DEF StrictSubsetOrdering

LEMMA MaxAtEnd ==
    ASSUME NEW n \in Nat, NEW S \in SUBSET (1 .. n + 1), n + 1 \in S
    PROVE  Max(S) = n + 1
<1>1. Max(S) \in S /\ \A j \in S : Max(S) >= j
  <2>1. n + 1 \in Nat
    OBVIOUS
  <2>2. \E i \in S : \A j \in S : i >= j
    OBVIOUS
  <2> QED
    BY <2>2 DEF Max
<1>2. PICK k : k = Max(S)
  OBVIOUS
<1>3. k \in 1 .. n + 1 /\ k >= n + 1
  BY <1>1, <1>2
<1> QED
  BY <1>2, <1>3

LEMMA EmptySolves == \E g : Solves(<<>>, g)
<1> DEFINE g == [S \in SUBSET {} |-> NotThinking]
<1>1. DOMAIN <<>> = {}
  BY EmptySeq, LenProperties
<1>2. \A S \in SUBSET {} : S = {}
  OBVIOUS
<1>3. g = [S \in SUBSET {} |->
             IF S = {} THEN NotThinking ELSE ThinkStep(g[S \ {Max(S)}], <<>>[Max(S)])]
  BY <1>2
<1> QED
  BY <1>1, <1>3 DEF Solves

LEMMA SolutionValue ==
    ASSUME NEW s, NEW g, Solves(s, g), NEW S \in SUBSET (DOMAIN s)
    PROVE  /\ S = {} => g[S] = NotThinking
           /\ S # {} => g[S] = ThinkStep(g[S \ {Max(S)}], s[Max(S)])
  BY DEF Solves

LEMMA AppendSolves ==
    ASSUME NEW C, NEW s \in Seq(C), NEW c \in C, NEW g, Solves(s, g)
    PROVE  \E h : Solves(Append(s, c), h)
<1>1. PICK n : n = Len(s)
  OBVIOUS
<1>2. n \in Nat /\ DOMAIN s = 1 .. n
  BY <1>1, LenProperties
<1>3. PICK t : t = Append(s, c)
  OBVIOUS
<1>4. /\ t \in Seq(C) /\ Len(t) = n + 1 /\ t[n + 1] = c
      /\ \A i \in 1 .. n : t[i] = s[i]
  BY <1>1, <1>3, AppendProperties
<1>5. DOMAIN t = 1 .. n + 1
  BY <1>4, LenProperties
<1> DEFINE h == [S \in SUBSET (1 .. n + 1) |->
                   IF n + 1 \in S THEN ThinkStep(g[S \ {n + 1}], c) ELSE g[S]]
<1>6. ASSUME NEW S \in SUBSET (1 .. n + 1)
      PROVE  h[S] = IF S = {} THEN NotThinking ELSE ThinkStep(h[S \ {Max(S)}], t[Max(S)])
  <2>1. CASE S = {}
    BY <1>2, <2>1, SolutionValue
  <2>2. CASE n + 1 \in S
    <3>1. Max(S) = n + 1
      BY <1>2, <2>2, MaxAtEnd
    <3>2. PICK R : R = S \ {n + 1}
      OBVIOUS
    <3>3. R \in SUBSET (1 .. n + 1) /\ n + 1 \notin R
      BY <3>2
    <3>4. h[R] = g[R] /\ h[S] = ThinkStep(g[R], c)
      BY <2>2, <3>2, <3>3
    <3> HIDE DEF h
    <3> QED
      BY <1>4, <2>2, <3>1, <3>2, <3>4
  <2>3. CASE S # {} /\ n + 1 \notin S
    <3>1. S \in SUBSET (1 .. n)
      BY <1>2, <2>3
    <3>2. PICK k : k = Max(S)
      OBVIOUS
    <3>3. k \in S
      BY <1>2, <2>3, <3>1, <3>2, MaxExists
    <3>4. g[S] = ThinkStep(g[S \ {k}], s[k])
      BY <1>2, <2>3, <3>1, <3>2, SolutionValue
    <3>5. h[S] = g[S] /\ h[S \ {k}] = g[S \ {k}]
      BY <2>3
    <3>6. t[k] = s[k]
      BY <1>4, <3>1, <3>3
    <3> HIDE DEF h
    <3> QED
      BY <2>3, <3>2, <3>4, <3>5, <3>6
  <2> QED
    BY <2>1, <2>2, <2>3
<1>7. Solves(t, h)
  <2>1. h = [S \in SUBSET (1 .. n + 1) |-> h[S]]
    OBVIOUS
  <2> HIDE DEF h
  <2> QED
    BY <1>5, <1>6, <2>1 DEF Solves
<1> QED
  BY <1>3, <1>7

\* The fold is defined for every text.
LEMMA SolutionExists ==
    ASSUME NEW C, NEW s \in Seq(C)
    PROVE  \E g : Solves(s, g)
<1> DEFINE Bad(t) == t \in Seq(C) /\ ~\E g : Solves(t, g)
           T == {U \in SUBSET (1 .. Len(s)) : \E t \in Seq(C) : Bad(t) /\ U = 1 .. Len(t)}
<1> SUFFICES ASSUME Bad(s) PROVE FALSE
  OBVIOUS
<1>1. Len(s) \in Nat
  BY LenProperties
<1>2. 1 .. Len(s) \in T
  OBVIOUS
<1>3. T \in SUBSET (SUBSET (1 .. Len(s))) /\ T # {}
  BY <1>2
<1>4. PICK U \in T : \A V \in SUBSET U : V # U => V \notin T
  <2> HIDE DEF T
  <2> QED
    BY <1>1, <1>3, Smallest
<1>5. PICK t \in Seq(C) : Bad(t) /\ U = 1 .. Len(t)
  OBVIOUS
<1>6. t # <<>>
  BY <1>5, EmptySolves
<1>7. PICK u \in Seq(C), c \in C : t = Append(u, c)
  BY <1>6, SequenceEmptyOrAppend
<1>8. Bad(u)
  BY <1>5, <1>7, AppendSolves
<1>9. Len(u) \in Nat /\ Len(t) = Len(u) + 1
  BY <1>7, LenProperties, AppendProperties
<1>10. 1 .. Len(u) \in SUBSET U /\ Len(t) \in U /\ Len(t) \notin 1 .. Len(u)
  BY <1>5, <1>9
<1>11. 1 .. Len(u) \in T
  BY <1>8, <1>10
<1> HIDE DEF T
<1> QED
  BY <1>4, <1>10, <1>11

\* What is parsed does not depend on what follows.
LEMMA SolutionsAgree ==
    ASSUME NEW C, NEW s \in Seq(C), NEW c \in C, NEW g, NEW h,
           Solves(s, g), Solves(Append(s, c), h), NEW S \in SUBSET (1 .. Len(s))
    PROVE  h[S] = g[S]
<1> DEFINE T == {U \in SUBSET (1 .. Len(s)) : h[U] # g[U]}
<1> SUFFICES ASSUME T # {} PROVE FALSE
  OBVIOUS
<1>1. Len(s) \in Nat /\ DOMAIN s = 1 .. Len(s)
  BY LenProperties
<1>2. PICK t : t = Append(s, c)
  OBVIOUS
<1>3. /\ t \in Seq(C) /\ Len(t) = Len(s) + 1
      /\ \A i \in 1 .. Len(s) : t[i] = s[i]
  BY <1>2, AppendProperties
<1>4. 1 .. Len(s) \subseteq DOMAIN t
  BY <1>1, <1>3, LenProperties
<1>5. PICK U \in T : \A V \in SUBSET U : V # U => V \notin T
  <2>1. T \in SUBSET (SUBSET (1 .. Len(s)))
    OBVIOUS
  <2> HIDE DEF T
  <2> QED
    BY <1>1, <2>1, Smallest
<1>6. U \in SUBSET (DOMAIN s) /\ U \in SUBSET (DOMAIN t) /\ Solves(t, h)
  BY <1>1, <1>2, <1>4
<1>7. U # {}
  BY <1>6, SolutionValue
<1>8. PICK k : k = Max(U)
  OBVIOUS
<1>9. k \in U
  BY <1>1, <1>7, <1>8, MaxExists
<1>10. h[U \ {k}] = g[U \ {k}]
  <2>1. U \ {k} \in SUBSET U /\ U \ {k} # U /\ U \ {k} \in SUBSET (1 .. Len(s))
    BY <1>9
  <2>2. U \ {k} \notin T
    <3> HIDE DEF T
    <3> QED
      BY <1>5, <2>1
  <2> QED
    BY <2>1, <2>2
<1>11. t[k] = s[k]
  BY <1>3, <1>9
<1>12. /\ g[U] = ThinkStep(g[U \ {k}], s[k])
       /\ h[U] = ThinkStep(h[U \ {k}], t[k])
  BY <1>6, <1>7, <1>8, SolutionValue
<1> QED
  BY <1>10, <1>11, <1>12

\* parseThinkTags reads a text chunk by chunk.
LEMMA ParseEmpty == parseThinkTags(<<>>) = NotThinking
<1>1. PICK g : g = CHOOSE f : Solves(<<>>, f)
  OBVIOUS
<1>2. Solves(<<>>, g)
  BY <1>1, EmptySolves
<1>3. DOMAIN <<>> = {}
  BY EmptySeq, LenProperties
<1>4. g[{}] = NotThinking
  BY <1>2, <1>3, SolutionValue
<1> QED
  BY <1>1, <1>3, <1>4, ParseUnfolds

LEMMA ParseAppend ==
    ASSUME NEW C, NEW s \in Seq(C), NEW c \in C
    PROVE  parseThinkTags(Append(s, c)) = ThinkStep(parseThinkTags(s), c)
<1>1. PICK t : t = Append(s, c)
  OBVIOUS
<1>2. PICK g : g = CHOOSE f : Solves(s, f)
  OBVIOUS
<1>3. PICK h : h = CHOOSE f : Solves(t, f)
  OBVIOUS
<1>4. /\ t \in Seq(C) /\ Len(t) = Len(s) + 1 /\ t[Len(s) + 1] = c
  BY <1>1, AppendProperties
<1>5. Solves(s, g) /\ Solves(t, h)
  BY <1>2, <1>3, <1>4, SolutionExists
<1>6. PICK n : n = Len(s)
  OBVIOUS
<1>7. n \in Nat /\ DOMAIN s = 1 .. n /\ DOMAIN t = 1 .. n + 1
  BY <1>4, <1>6, LenProperties
<1>8. Max(1 .. n + 1) = n + 1 /\ (1 .. n + 1) \ {n + 1} = 1 .. n /\ 1 .. n + 1 # {}
  <2>1. 1 .. n + 1 \in SUBSET (1 .. n + 1) /\ n + 1 \in 1 .. n + 1
    BY <1>7
  <2>2. Max(1 .. n + 1) = n + 1
    BY <1>7, <2>1, MaxAtEnd
  <2>3. (1 .. n + 1) \ {n + 1} = 1 .. n
    BY <1>7
  <2> QED
    BY <2>1, <2>2, <2>3, Zenon
<1>9. h[1 .. n + 1] = ThinkStep(h[1 .. n], c)
  BY <1>4, <1>5, <1>6, <1>7, <1>8, SolutionValue
<1>10. h[1 .. n] = g[1 .. n]
  BY <1>1, <1>5, <1>6, SolutionsAgree
<1>11. parseThinkTags(s) = g[1 .. n] /\ parseThinkTags(t) = h[1 .. n + 1]
  BY <1>2, <1>3, <1>7, ParseUnfolds
<1> QED
  BY <1>1, <1>9, <1>10, <1>11

-----------------------------------------------------------------------------
(* What is parsed is what was written *)

Kinds == {"reason", "text", "open", "close"}
Chunks == Requests \X Nat \X Kinds

Parses == [visible : Seq(Chunks), reasoning : Seq(Chunks), thinking : BOOLEAN]

\* p is a faithful parse of s: it has all of its text, in order, and finds no
\* reasoning where no tag opens it.
ParseOf(s, p) ==
    /\ p \in Parses
    /\ ToSet(p.visible) \cup ToSet(p.reasoning) \subseteq ToSet(s)
    /\ \A c \in ToSet(s) : c[3] \notin Tags => c \in ToSet(p.visible) \cup ToSet(p.reasoning)
    /\ InOrder(p.visible) /\ InOrder(p.reasoning)
    /\ (\A c \in ToSet(s) : c[3] # "open") => p.reasoning = <<>> /\ ~p.thinking

\* c comes after all of s.
After(s, c) == \A d \in ToSet(s) : d[2] < c[2]

LEMMA EmptySet == ToSet(<<>>) = {} /\ InOrder(<<>>) /\ <<>> \in Seq(Chunks)
<1>1. DOMAIN <<>> = {}
  BY EmptySeq, LenProperties
<1>2. <<>> \in Seq(Chunks)
  BY EmptySeq
<1> QED
  BY <1>1, <1>2 DEF ToSet, InOrder

LEMMA NoElements ==
    ASSUME NEW C, NEW s \in Seq(C), ToSet(s) = {}
    PROVE  s = <<>>
<1>1. Len(s) \in Nat /\ DOMAIN s = 1 .. Len(s)
  BY LenProperties
<1>2. ASSUME s # <<>> PROVE FALSE
  <2>1. Len(s) # 0
    BY <1>2, EmptySeq
  <2>2. 1 \in DOMAIN s
    BY <1>1, <2>1
  <2> QED
    BY <2>2 DEF ToSet
<1> QED
  BY <1>2

LEMMA AppendSet ==
    ASSUME NEW C, NEW s \in Seq(C), NEW c \in C
    PROVE  ToSet(Append(s, c)) = ToSet(s) \cup {c}
<1>1. PICK t : t = Append(s, c)
  OBVIOUS
<1>2. /\ t \in Seq(C) /\ Len(t) = Len(s) + 1 /\ t[Len(s) + 1] = c
      /\ \A i \in 1 .. Len(s) : t[i] = s[i]
  BY <1>1, AppendProperties
<1>3. Len(s) \in Nat /\ DOMAIN s = 1 .. Len(s) /\ DOMAIN t = 1 .. Len(s) + 1
  BY <1>2, LenProperties
<1>4. \A x \in ToSet(t) : x \in ToSet(s) \cup {c}
  BY <1>2, <1>3 DEF ToSet
<1>5. \A x \in ToSet(s) : x \in ToSet(t)
  BY <1>2, <1>3 DEF ToSet
<1>6. c \in ToSet(t)
  BY <1>2, <1>3 DEF ToSet
<1> QED
  BY <1>1, <1>4, <1>5, <1>6

LEMMA AppendOrder ==
    ASSUME NEW s \in Seq(Chunks), NEW c \in Chunks, InOrder(s), After(s, c)
    PROVE  /\ InOrder(Append(s, c)) /\ Append(s, c) \in Seq(Chunks)
           /\ Append(s, c) # <<>>
<1>1. PICK t : t = Append(s, c)
  OBVIOUS
<1>2. /\ t \in Seq(Chunks) /\ Len(t) = Len(s) + 1 /\ t[Len(s) + 1] = c /\ t # <<>>
      /\ \A i \in 1 .. Len(s) : t[i] = s[i]
  BY <1>1, AppendProperties
<1>3. Len(s) \in Nat /\ DOMAIN s = 1 .. Len(s) /\ DOMAIN t = 1 .. Len(s) + 1
  BY <1>2, LenProperties
<1>4. ASSUME NEW i \in DOMAIN t, NEW j \in DOMAIN t, i < j PROVE t[i][2] < t[j][2]
  <2>1. i \in DOMAIN s /\ t[i] = s[i] /\ s[i] \in ToSet(s)
    BY <1>2, <1>3, <1>4 DEF ToSet
  <2>2. CASE j = Len(s) + 1
    BY <1>2, <2>1, <2>2 DEF After
  <2>3. CASE j # Len(s) + 1
    <3>1. j \in DOMAIN s /\ t[j] = s[j]
      BY <1>2, <1>3, <2>3
    <3> QED
      BY <1>4, <2>1, <3>1 DEF InOrder
  <2> QED
    BY <2>2, <2>3
<1> QED
  BY <1>1, <1>2, <1>4 DEF InOrder

LEMMA ParseOfEmpty == ParseOf(<<>>, NotThinking)
<1>1. PICK p : p = NotThinking
  OBVIOUS
<1>2. p.visible = <<>> /\ p.reasoning = <<>> /\ p.thinking = FALSE /\ p \in Parses
  BY <1>1, EmptySet DEF NotThinking, Parses
<1> QED
  BY <1>1, <1>2, EmptySet DEF ParseOf

\* One chunk further.
LEMMA ParseOfMore ==
    ASSUME NEW s \in Seq(Chunks), NEW c \in Chunks, After(s, c), NEW p, ParseOf(s, p)
    PROVE  /\ ParseOf(Append(s, c), ThinkStep(p, c))
           /\ ThinkStep(p, c).reasoning = <<>> => p.reasoning = <<>>
<1>1. /\ p \in Parses /\ p.visible \in Seq(Chunks) /\ p.reasoning \in Seq(Chunks)
      /\ p.thinking \in BOOLEAN
  BY DEF ParseOf, Parses
<1>2. PICK v, w : v = Append(p.visible, c) /\ w = Append(p.reasoning, c)
  OBVIOUS
<1>3. After(p.visible, c) /\ After(p.reasoning, c)
  BY DEF ParseOf, After
<1>4. /\ InOrder(v) /\ v \in Seq(Chunks) /\ ToSet(v) = ToSet(p.visible) \cup {c}
      /\ InOrder(w) /\ w \in Seq(Chunks) /\ ToSet(w) = ToSet(p.reasoning) \cup {c} /\ w # <<>>
  <2>1. PICK a, b : a = p.visible /\ b = p.reasoning
    OBVIOUS
  <2>2. /\ a \in Seq(Chunks) /\ InOrder(a) /\ After(a, c)
        /\ b \in Seq(Chunks) /\ InOrder(b) /\ After(b, c)
    BY <1>1, <1>3, <2>1 DEF ParseOf
  <2>3. InOrder(v) /\ v \in Seq(Chunks) /\ ToSet(v) = ToSet(a) \cup {c}
    BY <1>2, <2>1, <2>2, AppendOrder, AppendSet
  <2>4. InOrder(w) /\ w \in Seq(Chunks) /\ ToSet(w) = ToSet(b) \cup {c} /\ w # <<>>
    BY <1>2, <2>1, <2>2, AppendOrder, AppendSet
  <2> QED
    BY <2>1, <2>3, <2>4
<1>5. PICK t : t = Append(s, c)
  OBVIOUS
<1>6. ToSet(t) = ToSet(s) \cup {c}
  BY <1>5, AppendSet
<1>7. PICK z : z = ThinkStep(p, c)
  OBVIOUS
<1>8. \/ p.thinking /\ c[3] = "close" /\ z = [p EXCEPT !.thinking = FALSE]
      \/ p.thinking /\ c[3] # "close" /\ z = [p EXCEPT !.reasoning = w]
      \/ ~p.thinking /\ c[3] = "open" /\ z = [p EXCEPT !.thinking = TRUE]
      \/ ~p.thinking /\ c[3] # "open" /\ z = [p EXCEPT !.visible = v]
  BY <1>1, <1>2, <1>7 DEF ThinkStep
<1>9. CASE p.thinking /\ c[3] = "close" /\ z = [p EXCEPT !.thinking = FALSE]
  <2>1. z \in Parses /\ z.visible = p.visible /\ z.reasoning = p.reasoning /\ z.thinking = FALSE
    BY <1>1, <1>9 DEF Parses
  <2> QED
    BY <1>5, <1>6, <1>7, <1>9, <2>1 DEF ParseOf, Tags
<1>10. CASE p.thinking /\ c[3] # "close" /\ z = [p EXCEPT !.reasoning = w]
  <2>1. z \in Parses /\ z.visible = p.visible /\ z.reasoning = w /\ z.thinking = p.thinking
    BY <1>1, <1>4, <1>10 DEF Parses
  <2> QED
    BY <1>4, <1>5, <1>6, <1>7, <1>10, <2>1 DEF ParseOf
<1>11. CASE ~p.thinking /\ c[3] = "open" /\ z = [p EXCEPT !.thinking = TRUE]
  <2>1. z \in Parses /\ z.visible = p.visible /\ z.reasoning = p.reasoning /\ z.thinking = TRUE
    BY <1>1, <1>11 DEF Parses
  <2> QED
    BY <1>5, <1>6, <1>7, <1>11, <2>1 DEF ParseOf, Tags
<1>12. CASE ~p.thinking /\ c[3] # "open" /\ z = [p EXCEPT !.visible = v]
  <2>1. z \in Parses /\ z.visible = v /\ z.reasoning = p.reasoning /\ z.thinking = p.thinking
    BY <1>1, <1>4, <1>12 DEF Parses
  <2> QED
    BY <1>4, <1>5, <1>6, <1>7, <1>12, <2>1 DEF ParseOf
<1> QED
  BY <1>8, <1>9, <1>10, <1>11, <1>12

-----------------------------------------------------------------------------
(* An answer and what its request was sent.  O is the set of chunks that    *)
(* the handlers of the request were given.                                  *)

Mixes(O) == {"reason", "open"} \subseteq {c[3] : c \in O}

\* An answer that is being written: its content is all that came as content,
\* tags included, its reasoning what the tags enclose or what came as such.
Raw(m, O) ==
    /\ m.content \in Seq(Chunks) /\ InOrder(m.content)
    /\ m.reasoning \in Seq(Chunks) /\ InOrder(m.reasoning)
    /\ ToSet(m.content) = {c \in O : c[3] # "reason"}
    /\ ParseOf(m.content, parseThinkTags(m.content))
    /\ IF \A c \in O : c[3] # "reason"
       THEN m.reasoning = parseThinkTags(m.content).reasoning
       ELSE ToSet(m.reasoning) = {c \in O : c[3] = "reason"}

\* An answer with the whole text of O.
Whole(m, O) ==
    /\ InOrder(m.content) /\ InOrder(m.reasoning)
    /\ Shown(m) = {c \in O : c[3] \notin Tags}

LEMMA RawIsWhole ==
    ASSUME NEW m, NEW O, Raw(m, O), ~Mixes(O)
    PROVE  Whole(m, O)
<1>1. PICK p : p = parseThinkTags(m.content)
  OBVIOUS
<1>2. /\ ToSet(m.content) = {c \in O : c[3] # "reason"}
      /\ ParseOf(m.content, p)
  BY <1>1 DEF Raw
<1>3. CASE \A c \in O : c[3] # "reason"
  <2>1. m.reasoning = p.reasoning
    BY <1>1, <1>3 DEF Raw
  <2>2. ToSet(m.reasoning) \subseteq ToSet(m.content)
    BY <1>2, <2>1 DEF ParseOf
  <2>3. Shown(m) = {c \in O : c[3] \notin Tags}
    BY <1>2, <1>3, <2>2 DEF Shown
  <2> QED
    BY <2>3 DEF Whole, Raw
<1>4. CASE ~\A c \in O : c[3] # "reason"
  <2>1. ToSet(m.reasoning) = {c \in O : c[3] = "reason"}
    BY <1>4 DEF Raw
  <2>2. Shown(m) = {c \in O : c[3] \notin Tags}
    BY <1>2, <2>1 DEF Shown
  <2> QED
    BY <2>2 DEF Whole, Raw
<1> QED
  BY <1>3, <1>4

\* What the program makes of a message.
LEMMA CompletedFields ==
    ASSUME NEW m, Msg(m), NEW p, p = parseThinkTags(m.content)
    PROVE  /\ Completed(m).key = m.key /\ Completed(m).status = "complete"
           /\ Completed(m).content = p.visible
           /\ Completed(m).reasoning = IF m.reasoning # <<>> THEN m.reasoning ELSE p.reasoning
<1>1. PICK w : w = IF m.reasoning # <<>> THEN m.reasoning ELSE p.reasoning
  OBVIOUS
<1>2. PICK f : f = finalizeMessage(m)
  OBVIOUS
<1>3. f = [m EXCEPT !.content = p.visible, !.reasoning = w]
  BY <1>1, <1>2 DEF finalizeMessage
<1>4. /\ DOMAIN f = {"key", "status", "content", "reasoning"}
      /\ f.key = m.key /\ f.content = p.visible /\ f.reasoning = w
  BY <1>3 DEF Msg
<1>5. PICK d : d = Completed(m)
  OBVIOUS
<1>6. d = [f EXCEPT !.status = "complete"]
  BY <1>2, <1>5 DEF Completed
<1>7. d.key = m.key /\ d.status = "complete" /\ d.content = p.visible /\ d.reasoning = w
  BY <1>4, <1>6
<1> QED
  BY <1>1, <1>5, <1>7

\* Completing an answer loses nothing.
LEMMA CompletedIsWhole ==
    ASSUME NEW m, Msg(m), NEW O, Raw(m, O), ~Mixes(O)
    PROVE  Whole(Completed(m), O)
<1>1. PICK p : p = parseThinkTags(m.content)
  OBVIOUS
<1>2. PICK d : d = Completed(m)
  OBVIOUS
<1>3. /\ d.content = p.visible
      /\ d.reasoning = IF m.reasoning # <<>> THEN m.reasoning ELSE p.reasoning
  BY <1>1, <1>2, CompletedFields
<1>4. /\ ToSet(m.content) = {c \in O : c[3] # "reason"}
      /\ ParseOf(m.content, p) /\ InOrder(m.reasoning)
  BY <1>1 DEF Raw
<1>5. InOrder(d.content) /\ InOrder(d.reasoning)
  BY <1>3, <1>4 DEF ParseOf
<1>6. CASE \A c \in O : c[3] # "reason"
  <2>1. m.reasoning = p.reasoning
    BY <1>1, <1>6 DEF Raw
  <2>2. d.reasoning = p.reasoning
    BY <1>3, <2>1
  <2>3. Shown(d) = {c \in O : c[3] \notin Tags}
    BY <1>3, <1>4, <1>6, <2>2 DEF Shown, ParseOf
  <2> QED
    BY <1>2, <1>5, <2>3 DEF Whole
<1>7. CASE ~\A c \in O : c[3] # "reason"
  <2>1. ToSet(m.reasoning) = {c \in O : c[3] = "reason"}
    BY <1>7 DEF Raw
  <2>2. m.reasoning # <<>>
    BY <1>7, <2>1, EmptySet
  <2>3. \A c \in O : c[3] # "open"
    BY <1>7 DEF Mixes
  <2>4. p.reasoning = <<>>
    BY <1>4, <2>3 DEF ParseOf
  <2>5. \A c \in ToSet(m.content) : c[3] \notin Tags => c \in ToSet(d.content)
    BY <1>3, <1>4, <2>4, EmptySet DEF ParseOf
  <2>6. ToSet(d.content) \subseteq ToSet(m.content) /\ d.reasoning = m.reasoning
    BY <1>3, <1>4, <2>2 DEF ParseOf
  <2>7. \A c : c[3] = "reason" => c[3] \notin Tags
    BY DEF Tags
  <2>8. Shown(d) = {c \in O : c[3] \notin Tags}
    BY <1>4, <2>1, <2>5, <2>6, <2>7 DEF Shown
  <2> QED
    BY <1>2, <1>5, <2>8 DEF Whole
<1> QED
  BY <1>6, <1>7

\* What the next chunk makes of an answer.
Extended(m, c) ==
    [(IF c[3] = "reason" THEN [m EXCEPT !.reasoning = Append(@, c)]
      ELSE processStreamingContent(m, c)) EXCEPT !.status = "streaming"]

LEMMA ExtendedFields ==
    ASSUME NEW m, Msg(m), NEW c
    PROVE  /\ Extended(m, c).key = m.key /\ Extended(m, c).status = "streaming"
           /\ c[3] = "reason" => /\ Extended(m, c).content = m.content
                                 /\ Extended(m, c).reasoning = Append(m.reasoning, c)
           /\ c[3] # "reason" =>
                 /\ Extended(m, c).content = Append(m.content, c)
                 /\ Extended(m, c).reasoning =
                       IF parseThinkTags(Append(m.content, c)).reasoning # <<>>
                       THEN parseThinkTags(Append(m.content, c)).reasoning ELSE m.reasoning
<1>0. PICK full, found : full = Append(m.content, c) /\ found = parseThinkTags(full).reasoning
  OBVIOUS
<1>1. PICK d : d = Extended(m, c)
  OBVIOUS
<1>2. CASE c[3] = "reason"
  <2>1. PICK a : a = Append(m.reasoning, c)
    OBVIOUS
  <2>2. d = [[m EXCEPT !.reasoning = a] EXCEPT !.status = "streaming"]
    BY <1>1, <1>2, <2>1 DEF Extended
  <2>3. d.key = m.key /\ d.status = "streaming" /\ d.content = m.content /\ d.reasoning = a
    BY <2>2 DEF Msg
  <2> QED
    BY <1>1, <1>2, <2>1, <2>3
<1>3. CASE c[3] # "reason"
  <2>1. PICK w : w = IF found # <<>> THEN found ELSE m.reasoning
    OBVIOUS
  <2>2. PICK f : f = processStreamingContent(m, c)
    OBVIOUS
  <2>3. f = [m EXCEPT !.content = full, !.reasoning = w]
    BY <1>0, <2>1, <2>2 DEF processStreamingContent
  <2>4. /\ DOMAIN f = {"key", "status", "content", "reasoning"}
        /\ f.key = m.key /\ f.content = full /\ f.reasoning = w
    BY <2>3 DEF Msg
  <2>5. d = [f EXCEPT !.status = "streaming"]
    BY <1>1, <1>3, <2>2 DEF Extended
  <2>6. d.key = m.key /\ d.status = "streaming" /\ d.content = full /\ d.reasoning = w
    BY <2>4, <2>5
  <2> QED
    BY <1>0, <1>1, <1>3, <2>1, <2>6
<1> QED
  BY <1>2, <1>3

LEMMA ExtendedIsRaw ==
    ASSUME NEW m, Msg(m), NEW O, O \subseteq Chunks, NEW c \in Chunks,
           \A d \in O : d[2] < c[2], Raw(m, O), ~Mixes(O \cup {c})
    PROVE  Raw(Extended(m, c), O \cup {c})
<1>1. PICK e : e = Extended(m, c)
  OBVIOUS
<1>2. PICK p : p = parseThinkTags(m.content)
  OBVIOUS
<1>3. /\ m.content \in Seq(Chunks) /\ InOrder(m.content)
      /\ m.reasoning \in Seq(Chunks) /\ InOrder(m.reasoning)
      /\ ToSet(m.content) = {d \in O : d[3] # "reason"} /\ ParseOf(m.content, p)
      /\ (\A d \in O : d[3] # "reason") => m.reasoning = p.reasoning
      /\ (~\A d \in O : d[3] # "reason") => ToSet(m.reasoning) = {d \in O : d[3] = "reason"}
  BY <1>2 DEF Raw
<1>4. CASE c[3] = "reason"
  <2>1. \A d \in O : d[3] # "open"
    BY <1>4 DEF Mixes
  <2>2. p.reasoning = <<>>
    BY <1>3, <2>1 DEF ParseOf
  <2>3. ToSet(m.reasoning) = {d \in O : d[3] = "reason"}
    BY <1>3, <2>2, EmptySet
  <2>4. e.content = m.content /\ e.reasoning = Append(m.reasoning, c)
    BY <1>1, <1>4, ExtendedFields
  <2>5. /\ InOrder(e.reasoning) /\ e.reasoning \in Seq(Chunks)
        /\ ToSet(e.reasoning) = ToSet(m.reasoning) \cup {c}
    <3>1. PICK a : a = m.reasoning
      OBVIOUS
    <3>2. a \in Seq(Chunks) /\ InOrder(a) /\ After(a, c)
      BY <1>3, <2>3, <3>1 DEF After
    <3> QED
      BY <2>4, <3>1, <3>2, AppendOrder, AppendSet
  <2>6. /\ ToSet(e.content) = {d \in O \cup {c} : d[3] # "reason"}
        /\ ToSet(e.reasoning) = {d \in O \cup {c} : d[3] = "reason"}
    BY <1>3, <1>4, <2>3, <2>4, <2>5
  <2>7. Raw(e, O \cup {c})
    BY <1>2, <1>3, <1>4, <2>4, <2>5, <2>6 DEF Raw
  <2> QED
    BY <1>1, <2>7
<1>5. CASE c[3] # "reason"
  <2>1. PICK a, full : a = m.content /\ full = Append(a, c)
    OBVIOUS
  <2>2. a \in Seq(Chunks) /\ InOrder(a) /\ After(a, c) /\ ParseOf(a, p) /\ p = parseThinkTags(a)
    BY <1>2, <1>3, <2>1 DEF After
  <2>3. full \in Seq(Chunks) /\ InOrder(full) /\ ToSet(full) = ToSet(a) \cup {c}
    BY <2>1, <2>2, AppendOrder, AppendSet
  <2>4. PICK z : z = parseThinkTags(full)
    OBVIOUS
  <2>5. z = ThinkStep(p, c)
    BY <2>1, <2>2, <2>4, ParseAppend
  <2>6. ParseOf(full, z) /\ (z.reasoning = <<>> => p.reasoning = <<>>)
    BY <2>1, <2>2, <2>5, ParseOfMore
  <2>7. /\ e.content = full
        /\ e.reasoning = IF z.reasoning # <<>> THEN z.reasoning ELSE m.reasoning
    <3>1. full = Append(m.content, c)
      BY <2>1
    <3> QED
      BY <1>1, <1>5, <2>4, <3>1, ExtendedFields
  <2>8. z.reasoning \in Seq(Chunks) /\ InOrder(z.reasoning)
    BY <2>6 DEF ParseOf, Parses
  <2>9. /\ e.reasoning \in Seq(Chunks) /\ InOrder(e.reasoning)
        /\ ToSet(e.content) = {d \in O \cup {c} : d[3] # "reason"}
    BY <1>3, <1>5, <2>1, <2>3, <2>7, <2>8
  <2>10. CASE \A d \in O : d[3] # "reason"
    <3>1. e.reasoning = z.reasoning
      BY <1>3, <2>6, <2>7, <2>10
    <3>2. Raw(e, O \cup {c})
      BY <1>5, <2>3, <2>4, <2>6, <2>7, <2>9, <2>10, <3>1 DEF Raw
    <3> QED
      BY <1>1, <3>2
  <2>11. CASE ~\A d \in O : d[3] # "reason"
    <3>1. \A d \in O \cup {c} : d[3] # "open"
      BY <2>11 DEF Mixes
    <3>2. z.reasoning = <<>>
      BY <1>3, <2>1, <2>3, <2>6, <3>1 DEF ParseOf
    <3>3. ToSet(e.reasoning) = {d \in O \cup {c} : d[3] = "reason"}
      BY <1>3, <1>5, <2>7, <2>11, <3>2
    <3>4. Raw(e, O \cup {c})
      BY <2>3, <2>4, <2>6, <2>7, <2>9, <2>11, <3>3 DEF Raw
    <3> QED
      BY <1>1, <3>4
  <2> QED
    BY <2>10, <2>11
<1> QED
  BY <1>4, <1>5

LEMMA LoadingIsRaw ==
    ASSUME NEW r
    PROVE  Raw(LoadingMessage(r), {})
<1>1. PICK l : l = LoadingMessage(r)
  OBVIOUS
<1>2. l.content = <<>> /\ l.reasoning = <<>>
  BY <1>1 DEF LoadingMessage
<1>3. parseThinkTags(<<>>).reasoning = <<>>
  BY ParseEmpty DEF NotThinking
<1>4. Raw(l, {})
  BY <1>2, <1>3, EmptySet, ParseEmpty, ParseOfEmpty DEF Raw
<1> QED
  BY <1>1, <1>4

\* What the user wrote stays when the answer is completed.
LEMMA EditedStays ==
    ASSUME NEW m, Msg(m), m.content = Edited
    PROVE  Completed(m).content = Edited
<1>1. PICK e : e = <<0, 0, "edited">>
  OBVIOUS
<1>2. e[3] = "edited" /\ Edited = <<e>>
  BY <1>1 DEF Edited
<1>3. <<>> \in Seq({e}) /\ e \in {e}
  BY EmptySeq
<1>4. Append(<<>>, e) = <<e>>
  OBVIOUS
<1>5. parseThinkTags(Edited) = ThinkStep(NotThinking, e)
  BY <1>2, <1>3, <1>4, ParseAppend, ParseEmpty
<1>6. ThinkStep(NotThinking, e) = [NotThinking EXCEPT !.visible = Append(NotThinking.visible, e)]
  BY <1>2 DEF ThinkStep, NotThinking
<1>7. ThinkStep(NotThinking, e).visible = <<e>>
  BY <1>4, <1>6 DEF NotThinking
<1> QED
  BY <1>2, <1>5, <1>7, CompletedFields

-----------------------------------------------------------------------------
(* The chunks of a request, and the answers that hold them *)

\* What the handlers of a request were given is numbered as it came.
Numbers(s) == s \in Seq(Chunks) /\ \A c \in ToSet(s) : c[2] <= Len(s)

Upto(s, n) == {c \in ToSet(s) : c[2] <= n}

Holds(m, O) == IF Unfinished(m) THEN Raw(m, O) ELSE Whole(m, O)

\* An answer holds the first part of what its request was sent, s, and all of
\* it when its request is in R.
Fits(m, s, R) ==
    From(m) = "assistant" /\ m.status # "error" /\ m.content # Edited /\ ~Mixes(ToSet(s)) =>
        \E n \in 0 .. Len(s) : (m.key[2] \in R => n = Len(s)) /\ Holds(m, Upto(s, n))

LEMMA UptoAll ==
    ASSUME NEW s, Numbers(s)
    PROVE  Upto(s, Len(s)) = ToSet(s) /\ Len(s) \in 0 .. Len(s) /\ Len(s) \in Nat
<1>1. Len(s) \in Nat
  BY LenProperties DEF Numbers
<1> QED
  BY <1>1 DEF Numbers, Upto

LEMMA FitsWhole ==
    ASSUME NEW m, NEW s, Numbers(s), NEW R, ~Mixes(ToSet(s)) => Holds(m, ToSet(s))
    PROVE  Fits(m, s, R)
  BY UptoAll DEF Fits

LEMMA FitsExact ==
    ASSUME NEW m, NEW s, Numbers(s), NEW R, Fits(m, s, R), m.key[2] \in R,
           From(m) = "assistant", m.status # "error", m.content # Edited, ~Mixes(ToSet(s))
    PROVE  Holds(m, ToSet(s))
  BY UptoAll DEF Fits

LEMMA FitsLess ==
    ASSUME NEW m, NEW s, NEW R, NEW Q, Fits(m, s, R), m.key[2] \in Q => m.key[2] \in R
    PROVE  Fits(m, s, Q)
  BY DEF Fits

LEMMA NoneMixed ==
    ASSUME NEW O, NEW P, P \subseteq O, ~Mixes(O)
    PROVE  ~Mixes(P)
  BY DEF Mixes

LEMMA NumbersGrown ==
    ASSUME NEW s, Numbers(s), NEW c \in Chunks, c[2] = Len(s) + 1
    PROVE  /\ Numbers(Append(s, c)) /\ ToSet(Append(s, c)) = ToSet(s) \cup {c}
           /\ Len(Append(s, c)) = Len(s) + 1 /\ \A d \in ToSet(s) : d[2] < c[2]
<1>1. s \in Seq(Chunks) /\ Len(s) \in Nat
  BY LenProperties DEF Numbers
<1>2. PICK t : t = Append(s, c)
  OBVIOUS
<1>3. t \in Seq(Chunks) /\ Len(t) = Len(s) + 1 /\ ToSet(t) = ToSet(s) \cup {c}
  BY <1>1, <1>2, AppendProperties, AppendSet
<1>4. \A d \in ToSet(s) : d \in Chunks /\ d[2] \in Nat /\ d[2] <= Len(s)
  <2>1. \A i \in DOMAIN s : s[i] \in Chunks
    BY <1>1, ElementOfSeq, LenProperties
  <2>2. \A d \in ToSet(s) : d \in Chunks
    BY <2>1 DEF ToSet
  <2>3. \A d \in Chunks : d[2] \in Nat
    BY DEF Chunks
  <2> QED
    BY <2>2, <2>3 DEF Numbers
<1>5. \A d \in ToSet(t) : d[2] <= Len(t)
  BY <1>1, <1>3, <1>4
<1>6. Numbers(t)
  BY <1>3, <1>5 DEF Numbers
<1> QED
  BY <1>1, <1>2, <1>3, <1>4, <1>6

\* An answer keeps the part it holds when more arrives.
LEMMA FitsGrown ==
    ASSUME NEW m, NEW s, Numbers(s), NEW c \in Chunks, c[2] = Len(s) + 1, NEW R, Fits(m, s, R)
    PROVE  Fits(m, Append(s, c), {})
<1>1. PICK t : t = Append(s, c)
  OBVIOUS
<1>2. ToSet(t) = ToSet(s) \cup {c} /\ Len(t) = Len(s) + 1 /\ Len(s) \in Nat
  BY <1>1, NumbersGrown, UptoAll
<1>3. \A n \in 0 .. Len(s) : Upto(t, n) = Upto(s, n) /\ n \in 0 .. Len(t)
  BY <1>2 DEF Upto
<1>4. ~Mixes(ToSet(t)) => ~Mixes(ToSet(s))
  BY <1>2, NoneMixed
<1>5. SUFFICES ASSUME From(m) = "assistant", m.status # "error", m.content # Edited, ~Mixes(ToSet(t))
               PROVE  \E n \in 0 .. Len(t) : Holds(m, Upto(t, n))
  BY <1>1 DEF Fits
<1>6. PICK n \in 0 .. Len(s) : Holds(m, Upto(s, n))
  BY <1>4, <1>5 DEF Fits
<1> QED
  BY <1>3, <1>6

\* Completing an answer keeps what it holds; a failed one promises nothing.
LEMMA FitsCompleted ==
    ASSUME NEW m, Msg(m), Unfinished(m), NEW s, NEW R, Fits(m, s, R)
    PROVE  Fits(Completed(m), s, R)
<1>1. PICK d : d = Completed(m)
  OBVIOUS
<1>2. d.key = m.key /\ ~Unfinished(d)
  BY <1>1, CompletedFields, Finished
<1>3. m.content = Edited => d.content = Edited
  BY <1>1, EditedStays
<1>4. SUFFICES ASSUME From(d) = "assistant", d.content # Edited, ~Mixes(ToSet(s))
               PROVE  \E n \in 0 .. Len(s) : (m.key[2] \in R => n = Len(s)) /\ Whole(d, Upto(s, n))
  BY <1>1, <1>2 DEF Fits, Holds
<1>5. From(m) = "assistant" /\ m.status # "error" /\ m.content # Edited
  BY <1>2, <1>3, <1>4 DEF From, Unfinished
<1>6. PICK n \in 0 .. Len(s) : (m.key[2] \in R => n = Len(s)) /\ Raw(m, Upto(s, n))
  BY <1>4, <1>5 DEF Fits, Holds
<1>7. ~Mixes(Upto(s, n))
  BY <1>4, NoneMixed DEF Upto
<1>8. Whole(d, Upto(s, n))
  BY <1>1, <1>6, <1>7, CompletedIsWhole
<1> QED
  BY <1>6, <1>8

LEMMA FitsFailed ==
    ASSUME NEW m, Msg(m), NEW s, NEW R
    PROVE  Fits(Failed(m), s, R) /\ Failed(m).key = m.key
<1>1. PICK d : d = Failed(m)
  OBVIOUS
<1>2. d.key = m.key /\ d.status = "error"
  BY <1>1 DEF Msg, Failed
<1>3. Fits(d, s, R)
  BY <1>2 DEF Fits
<1> QED
  BY <1>1, <1>2, <1>3

-----------------------------------------------------------------------------
(* Conversations and what their requests were sent.  o stands for out and q *)
(* for req.                                                                 *)

NoKey(ms, r) == \A m \in ToSet(ms) : m.key # <<"assistant", r>>

Attached(q) == {r \in Requests : q[r] # "detached"}

FitAll(ms, o, R) == \A m \in ToSet(ms) : Fits(m, o[m.key[2]], R)

\* The answer to r is the last message, no other message answers r, and it
\* has all that came so far.
Live(ms, s, r) ==
    /\ ms # <<>> /\ Last(ms).key = <<"assistant", r>> /\ Unfinished(Last(ms))
    /\ ~Mixes(ToSet(s)) => Raw(Last(ms), ToSet(s))
    /\ \A i \in DOMAIN ms : ms[i].key = <<"assistant", r>> => i = Len(ms)

Numbered(o) == o \in [Requests -> Seq(Chunks)] /\ \A r \in Requests : Numbers(o[r])

\* A conversation in which every answer has what its request was sent.
Good(ms, o, q) ==
    /\ Numbered(o)
    /\ \A r \in Requests : q[r] = "new" => o[r] = <<>> /\ NoKey(ms, r)
    /\ \A r \in Requests : q[r] = "open" => Live(ms, o[r], r)
    /\ FitAll(ms, o, Attached(q))

\* A conversation that was saved some time ago.
Kept(ms, o, q) ==
    /\ \A r \in Requests : q[r] = "new" => NoKey(ms, r)
    /\ FitAll(ms, o, {})

\* t has no answers but those of ms, some of them edited.
Drawn(t, ms) ==
    \A m \in ToSet(t) :
        \/ From(m) # "assistant"
        \/ \E d \in ToSet(ms) : m.key = d.key /\ (m = d \/ m.content = Edited)

NoneOpen(q) == \A r \in Requests : q[r] # "open"

\* q2 is q with requests closed.
Closes(q2, q) ==
    \A r \in Requests : q2[r] = q[r] \/ (q[r] = "open" /\ q2[r] = "closed")

LEMMA TalkSet ==
    ASSUME NEW ms, Talk(ms)
    PROVE  /\ \A m \in ToSet(ms) : Msg(m) /\ m.key[2] \in Requests
           /\ \A i \in DOMAIN ms : ms[i] \in ToSet(ms)
           /\ ms # <<>> => Last(ms) \in ToSet(ms)
<1>1. \A m \in ToSet(ms) : Msg(m)
  BY TalkFacts DEF ToSet
<1>2. \A m : Msg(m) => m.key[2] \in Requests
  BY DEF Msg
<1>3. \A i \in DOMAIN ms : ms[i] \in ToSet(ms)
  BY DEF ToSet
<1>4. ms # <<>> => Last(ms) \in ToSet(ms)
  BY <1>3, TalkFacts
<1> QED
  BY <1>1, <1>2, <1>3, <1>4

LEMMA TalkAppend ==
    ASSUME NEW ms, Talk(ms), NEW m, Msg(m)
    PROVE  LET t == Append(ms, m) IN
           /\ Talk(t) /\ t # <<>> /\ Last(t) = m /\ ToSet(t) = ToSet(ms) \cup {m}
           /\ \A i \in DOMAIN t : i = Len(t) \/ t[i] \in ToSet(ms)
<1>1. PICK M : ms \in Seq(M) /\ \A x \in M : Msg(x)
  BY DEF Talk
<1>2. PICK N : N = M \cup {m}
  OBVIOUS
<1>3. ms \in Seq(N) /\ m \in N
  BY <1>1, <1>2, SeqMonotonic
<1>4. PICK t : t = Append(ms, m)
  OBVIOUS
<1>5. /\ t \in Seq(N) /\ t # <<>> /\ Len(t) = Len(ms) + 1
      /\ \A i \in 1 .. Len(ms) : t[i] = ms[i]
      /\ t[Len(ms) + 1] = m /\ ToSet(t) = ToSet(ms) \cup {m}
  BY <1>3, <1>4, AppendProperties, AppendSet
<1>6. Talk(t)
  BY <1>4, Appended
<1>7. /\ DOMAIN t = 1 .. Len(ms) + 1 /\ Len(ms) \in Nat /\ DOMAIN ms = 1 .. Len(ms)
      /\ Last(t) = m
  BY <1>5, <1>6, TalkFacts
<1>8. \A i \in DOMAIN t : i = Len(t) \/ t[i] \in ToSet(ms)
  BY <1>5, <1>7 DEF ToSet
<1> QED
  BY <1>4, <1>5, <1>6, <1>7, <1>8

LEMMA TalkLast ==
    ASSUME NEW ms, Talk(ms), ms # <<>>, NEW m, Msg(m)
    PROVE  LET t == WithLast(ms, m) IN
           /\ Talk(t) /\ t # <<>> /\ Last(t) = m /\ Len(t) = Len(ms) /\ DOMAIN t = DOMAIN ms
           /\ \A i \in DOMAIN ms : i # Len(ms) => t[i] = ms[i]
           /\ \A x \in ToSet(t) : x = m \/ \E i \in DOMAIN ms : i # Len(ms) /\ x = ms[i]
<1>1. PICK t : t = With(ms, Len(ms), m)
  OBVIOUS
<1>2. Len(ms) \in DOMAIN ms
  BY TalkFacts
<1>3. /\ Talk(t) /\ Len(t) = Len(ms) /\ DOMAIN t = DOMAIN ms /\ t # <<>>
      /\ \A i \in DOMAIN ms : t[i] = IF i = Len(ms) THEN m ELSE ms[i]
  BY <1>1, <1>2, Replaced
<1>4. t = WithLast(ms, m)
  BY <1>1 DEF With, WithLast
<1>5. Last(t) = m
  BY <1>2, <1>3 DEF Last
<1>6. \A x \in ToSet(t) : x = m \/ \E i \in DOMAIN ms : i # Len(ms) /\ x = ms[i]
  BY <1>3 DEF ToSet
<1> QED
  BY <1>3, <1>4, <1>5, <1>6

LEMMA GoodIsKept ==
    ASSUME NEW ms, NEW o, NEW q, Good(ms, o, q)
    PROVE  Kept(ms, o, q)
<1>1. ASSUME NEW m \in ToSet(ms) PROVE Fits(m, o[m.key[2]], {})
  BY FitsLess DEF Good, FitAll
<1> QED
  BY <1>1 DEF Good, Kept, FitAll

LEMMA OneOpen ==
    ASSUME NEW ms, NEW o, NEW q, Good(ms, o, q), NEW r \in Requests, NEW p \in Requests,
           q[r] = "open", q[p] = "open"
    PROVE  r = p
  BY DEF Good, Live

\* A change drawn from a conversation whose requests are all answered.
LEMMA GoodDrawn ==
    ASSUME NEW ms, NEW o, NEW q, Good(ms, o, q), NoneOpen(q), NEW t, Drawn(t, ms)
    PROVE  Good(t, o, q)
<1>1. ASSUME NEW r \in Requests, q[r] = "new", NEW m \in ToSet(t) PROVE m.key # <<"assistant", r>>
  <2>1. SUFFICES ASSUME m.key = <<"assistant", r>> PROVE FALSE
    OBVIOUS
  <2>2. From(m) = "assistant"
    BY <2>1 DEF From
  <2>3. \E d \in ToSet(ms) : m.key = d.key
    BY <2>2 DEF Drawn
  <2> QED
    BY <1>1, <2>1, <2>3 DEF Good, NoKey
<1>2. ASSUME NEW m \in ToSet(t) PROVE Fits(m, o[m.key[2]], Attached(q))
  <2>1. CASE From(m) # "assistant" \/ m.content = Edited
    BY <2>1 DEF Fits
  <2>2. CASE m \in ToSet(ms)
    BY <2>2 DEF Good, FitAll
  <2> QED
    BY <2>1, <2>2 DEF Drawn
<1>3. \A r \in Requests : q[r] = "new" => o[r] = <<>> /\ NoKey(t, r)
  BY <1>1 DEF Good, NoKey
<1> QED
  BY <1>2, <1>3 DEF Good, FitAll, NoneOpen

\* A request is sent: its answer is loading.
LEMMA GoodSent ==
    ASSUME NEW t, Talk(t), NEW o, NEW q, Good(t, o, q), NoneOpen(q),
           q \in [Requests -> {"new", "open", "closed", "detached"}],
           NEW r \in Requests, q[r] = "new"
    PROVE  Good(Append(t, LoadingMessage(r)), o, [q EXCEPT ![r] = "open"])
<1>1. PICK l : l = LoadingMessage(r)
  OBVIOUS
<1>2. l.key = <<"assistant", r>> /\ Unfinished(l) /\ l.key[2] = r /\ Msg(l)
  BY <1>1, NewMessages DEF LoadingMessage, Unfinished
<1>3. PICK w : w = Append(t, l)
  OBVIOUS
<1>4. /\ Talk(w) /\ w # <<>> /\ Last(w) = l /\ ToSet(w) = ToSet(t) \cup {l}
      /\ \A i \in DOMAIN w : i = Len(w) \/ w[i] \in ToSet(t)
  BY <1>2, <1>3, TalkAppend
<1>5. PICK p : p = [q EXCEPT ![r] = "open"]
  OBVIOUS
<1>6. p[r] = "open" /\ \A x \in Requests : x # r => p[x] = q[x] /\ p[x] # "open"
  BY <1>5 DEF NoneOpen
<1>7. Attached(p) = Attached(q)
  BY <1>6 DEF Attached
<1>8. o[r] = <<>> /\ NoKey(t, r) /\ Numbers(o[r])
  BY DEF Good, Numbered
<1>9. Raw(l, ToSet(o[r]))
  BY <1>1, <1>8, EmptySet, LoadingIsRaw
<1>10. Fits(l, o[l.key[2]], Attached(p))
  BY <1>2, <1>8, <1>9, FitsWhole DEF Holds
<1>11. FitAll(w, o, Attached(p))
  BY <1>4, <1>7, <1>10 DEF FitAll, Good
<1>12. Live(w, o[r], r)
  BY <1>2, <1>4, <1>8, <1>9 DEF Live, NoKey
<1>13. ASSUME NEW x \in Requests, p[x] = "new" PROVE o[x] = <<>> /\ NoKey(w, x)
  <2>1. x # r /\ q[x] = "new"
    BY <1>6, <1>13
  <2>2. o[x] = <<>> /\ NoKey(t, x)
    BY <2>1 DEF Good
  <2>3. l.key # <<"assistant", x>>
    BY <1>2, <2>1
  <2> QED
    BY <1>4, <2>2, <2>3 DEF NoKey
<1>14. \A x \in Requests : p[x] = "open" => Live(w, o[x], x)
  BY <1>6, <1>12
<1>15. Good(w, o, p)
  BY <1>11, <1>13, <1>14 DEF Good
<1> QED
  BY <1>1, <1>3, <1>5, <1>15

\* Requests end and the conversation stays.
LEMMA GoodClosed ==
    ASSUME NEW ms, NEW o, NEW q, Good(ms, o, q), NEW p, Closes(p, q), NoneOpen(p)
    PROVE  Good(ms, o, p)
<1>1. \A r \in Requests : r \in Attached(p) => r \in Attached(q)
  BY DEF Attached, Closes
<1>2. ASSUME NEW m \in ToSet(ms) PROVE Fits(m, o[m.key[2]], Attached(p))
  <2>1. Fits(m, o[m.key[2]], Attached(q))
    BY DEF Good, FitAll
  <2>2. m.key[2] \in Attached(p) => m.key[2] \in Attached(q)
    BY <1>1 DEF Attached
  <2> QED
    BY <2>1, <2>2, FitsLess
<1>3. \A r \in Requests : p[r] = "new" => q[r] = "new"
  BY DEF Closes
<1> QED
  BY <1>2, <1>3 DEF Good, FitAll, NoneOpen

\* Nothing is open and the last answer is replaced.
LEMMA GoodReplaced ==
    ASSUME NEW ms, Talk(ms), ms # <<>>, NEW o, NEW q, Good(ms, o, q), NoneOpen(q),
           NEW m, Msg(m), m.key = Last(ms).key, Fits(m, o[m.key[2]], Attached(q))
    PROVE  Good(WithLast(ms, m), o, q)
<1>1. PICK t : t = WithLast(ms, m)
  OBVIOUS
<1>2. /\ Talk(t) /\ \A x \in ToSet(t) : x = m \/ x \in ToSet(ms)
  <2>1. /\ Talk(t)
        /\ \A x \in ToSet(t) : x = m \/ \E i \in DOMAIN ms : i # Len(ms) /\ x = ms[i]
    BY <1>1, TalkLast
  <2> QED
    BY <2>1, TalkSet
<1>3. Last(ms) \in ToSet(ms)
  BY TalkSet
<1>4. ASSUME NEW r \in Requests, q[r] = "new" PROVE o[r] = <<>> /\ NoKey(t, r)
  BY <1>2, <1>3, <1>4 DEF Good, NoKey
<1>5. FitAll(t, o, Attached(q))
  BY <1>2 DEF Good, FitAll
<1>6. Good(t, o, q)
  BY <1>4, <1>5 DEF Good, NoneOpen
<1> QED
  BY <1>1, <1>6

\* More arrives for a saved conversation.
LEMMA KeptGrown ==
    ASSUME NEW ms, Talk(ms), NEW o, Numbered(o), NEW q, Kept(ms, o, q), NEW p, Closes(p, q),
           NEW r \in Requests, NEW c \in Chunks, c[2] = Len(o[r]) + 1
    PROVE  Kept(ms, [o EXCEPT ![r] = Append(o[r], c)], p)
<1>1. PICK a : a = Append(o[r], c)
  OBVIOUS
<1>2. PICK u : u = [o EXCEPT ![r] = a]
  OBVIOUS
<1>3. u[r] = a /\ \A x \in Requests : x # r => u[x] = o[x]
  BY <1>2 DEF Numbered
<1>4. ASSUME NEW m \in ToSet(ms) PROVE Fits(m, u[m.key[2]], {})
  <2>1. Fits(m, o[m.key[2]], {}) /\ m.key[2] \in Requests
    BY TalkSet DEF Kept, FitAll
  <2>2. CASE m.key[2] = r
    <3>1. Fits(m, o[r], {}) /\ Numbers(o[r])
      BY <2>1, <2>2 DEF Numbered
    <3>2. Fits(m, a, {})
      BY <1>1, <3>1, FitsGrown
    <3> QED
      BY <1>3, <2>2, <3>2
  <2>3. CASE m.key[2] # r
    BY <1>3, <2>1, <2>3
  <2> QED
    BY <2>2, <2>3
<1>5. \A x \in Requests : p[x] = "new" => NoKey(ms, x)
  BY DEF Kept, Closes
<1>6. Kept(ms, u, p)
  BY <1>4, <1>5 DEF Kept, FitAll
<1> QED
  BY <1>1, <1>2, <1>6

LEMMA KeptClosed ==
    ASSUME NEW ms, NEW o, NEW q, Kept(ms, o, q), NEW p, Closes(p, q)
    PROVE  Kept(ms, o, p)
  BY DEF Kept, Closes

\* The request that is open is sent c, and its answer becomes m.
LEMMA GoodWritten ==
    ASSUME NEW ms, Talk(ms), NEW o, NEW q, Good(ms, o, q), NEW r \in Requests, q[r] = "open",
           NEW c \in Chunks, c[2] = Len(o[r]) + 1, NEW p, Closes(p, q),
           NEW m, Msg(m), m.key = <<"assistant", r>>, p[r] = "open" => Unfinished(m),
           ~Mixes(ToSet(o[r]) \cup {c}) => Holds(m, ToSet(o[r]) \cup {c})
    PROVE  Good(WithLast(ms, m), [o EXCEPT ![r] = Append(o[r], c)], p)
<1>1. PICK a : a = Append(o[r], c)
  OBVIOUS
<1>2. PICK u : u = [o EXCEPT ![r] = a]
  OBVIOUS
<1>3. Numbered(o) /\ Numbers(o[r]) /\ Live(ms, o[r], r)
  BY DEF Good, Numbered
<1>4. u[r] = a /\ \A x \in Requests : x # r => u[x] = o[x]
  BY <1>2, <1>3 DEF Numbered
<1>5. Numbers(a) /\ a \in Seq(Chunks) /\ ToSet(a) = ToSet(o[r]) \cup {c}
  BY <1>1, <1>3, NumbersGrown DEF Numbers
<1>6. Numbered(u)
  BY <1>2, <1>3, <1>4, <1>5 DEF Numbered
<1>7. PICK t : t = WithLast(ms, m)
  OBVIOUS
<1>8. ms # <<>>
  BY <1>3 DEF Live
<1>9. /\ Talk(t) /\ t # <<>> /\ Last(t) = m /\ Len(t) = Len(ms) /\ DOMAIN t = DOMAIN ms
      /\ \A i \in DOMAIN ms : i # Len(ms) => t[i] = ms[i]
      /\ \A x \in ToSet(t) : x = m \/ \E i \in DOMAIN ms : i # Len(ms) /\ x = ms[i]
  BY <1>7, <1>8, TalkLast
<1>10. ASSUME NEW x \in ToSet(t), x # m
       PROVE  x \in ToSet(ms) /\ x.key # <<"assistant", r>>
  BY <1>3, <1>9, <1>10, TalkSet DEF Live
<1>11. \A x \in Requests : x # r => p[x] = q[x] /\ p[x] # "open"
  BY OneOpen DEF Closes
<1>12. \A x \in Requests : x \in Attached(p) => x \in Attached(q)
  BY DEF Attached, Closes
<1>13. Fits(m, a, Attached(p)) /\ m.key[2] = r
  <2>1. ~Mixes(ToSet(a)) => Holds(m, ToSet(a))
    BY <1>5
  <2>2. Fits(m, a, Attached(p))
    BY <1>5, <2>1, FitsWhole
  <2> QED
    BY <2>2
<1>14. ASSUME NEW x \in ToSet(t) PROVE Fits(x, u[x.key[2]], Attached(p))
  <2>1. CASE x = m
    BY <1>4, <1>13, <2>1
  <2>2. CASE x # m /\ From(x) # "assistant"
    BY <2>2 DEF Fits
  <2>3. CASE x # m /\ From(x) = "assistant"
    <3>1. x \in ToSet(ms) /\ x.key # <<"assistant", r>> /\ Msg(x) /\ x.key[2] \in Requests
      BY <1>10, <2>3, TalkSet
    <3>2. x.key[2] # r
      BY <2>3, <3>1 DEF From, Msg
    <3>3. Fits(x, o[x.key[2]], Attached(q))
      BY <3>1 DEF Good, FitAll
    <3>4. Fits(x, o[x.key[2]], Attached(p))
      BY <1>12, <3>1, <3>3, FitsLess
    <3> QED
      BY <1>4, <3>1, <3>2, <3>4
  <2> QED
    BY <2>1, <2>2, <2>3
<1>15. ASSUME NEW x \in Requests, p[x] = "new" PROVE u[x] = <<>> /\ NoKey(t, x)
  <2>1. q[x] = "new" /\ x # r
    BY <1>15 DEF Closes
  <2>2. o[x] = <<>> /\ NoKey(ms, x)
    BY <2>1 DEF Good
  <2>3. ASSUME NEW y \in ToSet(t) PROVE y.key # <<"assistant", x>>
    <3>1. CASE y = m
      BY <2>1, <3>1
    <3>2. CASE y # m
      BY <1>10, <2>2, <3>2 DEF NoKey
    <3> QED
      BY <3>1, <3>2
  <2> QED
    BY <1>4, <2>1, <2>2, <2>3 DEF NoKey
<1>16. ASSUME p[r] = "open" PROVE Live(t, a, r)
  <2>1. ~Mixes(ToSet(a)) => Raw(m, ToSet(a))
    BY <1>5, <1>16 DEF Holds
  <2>2. \A i \in DOMAIN t : t[i].key = <<"assistant", r>> => i = Len(t)
    BY <1>3, <1>9 DEF Live
  <2> QED
    BY <1>9, <1>16, <2>1, <2>2 DEF Live
<1>17. \A x \in Requests : p[x] = "open" => Live(t, u[x], x)
  BY <1>4, <1>11, <1>16
<1>18. Good(t, u, p)
  BY <1>6, <1>14, <1>15, <1>17 DEF Good, FitAll
<1> QED
  BY <1>1, <1>2, <1>7, <1>18

\* After a reload: what was saved, with its last unfinished answer completed.
LEMMA GoodLoaded ==
    ASSUME NEW ms, Talk(ms), NEW o, Numbered(o), NEW q, Kept(ms, o, q),
           \A r \in Requests : q[r] = "new" => o[r] = <<>>,
           NEW p, p = [r \in Requests |-> IF q[r] = "new" THEN "new" ELSE "detached"]
    PROVE  Good(sanitizeMessagesOnLoad(ms), o, p)
<1>1. NoneOpen(p) /\ \A r \in Requests : p[r] = "new" <=> q[r] = "new"
  BY DEF NoneOpen
<1>2. \A r \in Requests : r \in Attached(p) => q[r] = "new"
  BY DEF Attached
<1>3. ASSUME NEW m, Msg(m), \A r \in Requests : q[r] = "new" => m.key # <<"assistant", r>>,
             Fits(m, o[m.key[2]], {})
      PROVE  Fits(m, o[m.key[2]], Attached(p))
  <2>1. CASE From(m) # "assistant"
    BY <2>1 DEF Fits
  <2>2. CASE From(m) = "assistant"
    <3>1. m.key[2] \in Requests /\ m.key = <<"assistant", m.key[2]>>
      BY <1>3, <2>2 DEF Msg, From
    <3>2. m.key[2] \notin Attached(p)
      BY <1>2, <1>3, <3>1
    <3> QED
      BY <1>3, <3>2, FitsLess
  <2> QED
    BY <2>1, <2>2
<1>4. Good(ms, o, p)
  <2>1. ASSUME NEW m \in ToSet(ms) PROVE Fits(m, o[m.key[2]], Attached(p))
    <3>1. Msg(m) /\ Fits(m, o[m.key[2]], {})
      BY TalkSet DEF Kept, FitAll
    <3>2. \A r \in Requests : q[r] = "new" => m.key # <<"assistant", r>>
      BY DEF Kept, NoKey
    <3> QED
      BY <1>3, <3>1, <3>2
  <2>2. FitAll(ms, o, Attached(p))
    BY <2>1 DEF FitAll
  <2> QED
    BY <1>1, <2>2 DEF Good, Kept, NoneOpen
<1>5. PICK stuck : stuck = {i \in DOMAIN ms : From(ms[i]) = "assistant" /\ Unfinished(ms[i])}
  OBVIOUS
<1>6. CASE stuck = {}
  <2>1. sanitizeMessagesOnLoad(ms) = ms
    BY <1>5, <1>6 DEF sanitizeMessagesOnLoad
  <2> QED
    BY <1>4, <2>1
<1>7. CASE stuck # {}
  <2>1. PICK k : k = Max(stuck)
    OBVIOUS
  <2>2. PICK f : f = Completed(ms[k])
    OBVIOUS
  <2>3. PICK m : m = IF f.content # <<>> \/ f.reasoning # <<>> THEN f ELSE Failed(f)
    OBVIOUS
  <2>4. sanitizeMessagesOnLoad(ms) = With(ms, k, m)
    BY <1>5, <1>7, <2>1, <2>2, <2>3 DEF sanitizeMessagesOnLoad, With
  <2>5. k \in DOMAIN ms /\ Unfinished(ms[k])
    <3>1. Len(ms) \in Nat /\ stuck \in SUBSET (1 .. Len(ms))
      BY <1>5, TalkFacts
    <3>2. k \in stuck
      BY <1>7, <2>1, <3>1, MaxExists
    <3> QED
      BY <1>5, <3>2
  <2>6. PICK d : d = ms[k]
    OBVIOUS
  <2>7. Msg(d) /\ d \in ToSet(ms) /\ Unfinished(d)
    BY <2>5, <2>6, TalkSet
  <2>8. Msg(f) /\ f.key = d.key
    BY <2>2, <2>6, <2>7, Finished, CompletedFields
  <2>9. Fits(d, o[d.key[2]], Attached(p))
    BY <1>4, <2>7 DEF Good, FitAll
  <2>10. Fits(f, o[f.key[2]], Attached(p))
    BY <2>2, <2>6, <2>7, <2>8, <2>9, FitsCompleted
  <2>11. Msg(m) /\ m.key = d.key /\ Fits(m, o[m.key[2]], Attached(p))
    <3>1. CASE m = f
      BY <2>8, <2>10, <3>1
    <3>2. CASE m = Failed(f)
      BY <2>8, <3>2, Finished, FitsFailed
    <3> QED
      BY <2>3, <3>1, <3>2
  <2>12. PICK t : t = With(ms, k, m)
    OBVIOUS
  <2>13. /\ DOMAIN t = DOMAIN ms
         /\ \A i \in DOMAIN ms : t[i] = IF i = k THEN m ELSE ms[i]
    BY <2>5, <2>11, <2>12, Replaced
  <2>14. \A x \in ToSet(t) : x = m \/ x \in ToSet(ms)
    BY <2>13 DEF ToSet
  <2>15. \A r \in Requests : p[r] = "new" => o[r] = <<>> /\ NoKey(t, r)
    BY <1>4, <2>7, <2>11, <2>14 DEF Good, NoKey
  <2>16. FitAll(t, o, Attached(p))
    BY <1>4, <2>11, <2>14 DEF Good, FitAll
  <2>17. Good(t, o, p)
    BY <1>1, <2>15, <2>16 DEF Good, NoneOpen
  <2> QED
    BY <2>4, <2>12, <2>17
<1> QED
  BY <1>6, <1>7

-----------------------------------------------------------------------------
(* Every step keeps the answers faithful *)

\* What is on the screen is the conversation unless an update waits, and one
\* waits, when answers are streamed, only while one is generated.
Quiet ==
    /\ ~dirty => shown = msgs
    /\ stream /\ ~generating => ~dirty
    /\ ~stream => /\ ~generating /\ source = None
                  /\ \A r \in Requests : req[r] = "open" => out[r] = <<>>

Faith == ~unguarded => Good(msgs, out, req) /\ Kept(saved, out, req) /\ Quiet

\* What a guarded click starts from.
LEMMA Calm ==
    ASSUME Inv, Faith, ~unguarded',
           \/ unguarded' = (unguarded \/ Busy)
           \/ (~generating /\ unguarded' = (unguarded \/ (~stream /\ Busy)))
    PROVE  ~unguarded /\ Quiet /\ Good(shown, out, req) /\ NoneOpen(req)
<1>1. ~unguarded /\ (stream => ~generating) /\ (~stream => ~Busy)
  BY Zenon DEF Inv, Flags, Busy
<1>2. Good(msgs, out, req) /\ Quiet
  BY <1>1 DEF Faith
<1>3. ~dirty /\ NoneOpen(req)
  <2>1. CASE stream
    <3>1. AtRest
      BY <1>1, <2>1, Rest DEF Inv
    <3>2. NoneOpen(req)
      BY <3>1 DEF AtRest, NoneOpen
    <3>3. ~dirty
      BY <1>1, <1>2, <2>1, Zenon DEF Quiet
    <3> QED
      BY <3>2, <3>3
  <2>2. CASE ~stream
    BY <1>1, <2>2, Zenon DEF Busy, NoneOpen
  <2> QED
    BY <2>1, <2>2
<1>4. shown = msgs
  BY <1>2, <1>3, Zenon DEF Quiet
<1> QED
  BY <1>1, <1>2, <1>3, <1>4

\* Everything waiting is rendered.
LEMMA FlushFaith ==
    ASSUME NEW new, NEW src, Flush(new, src), source' = src, UNCHANGED stream,
           ~unguarded' => /\ Good(new, out', req')
                          /\ ~stream => /\ src = None
                                        /\ \A r \in Requests : req'[r] = "open" => out'[r] = <<>>
    PROVE  Faith'
<1>1. msgs' = new /\ shown' = new /\ saved' = new
  BY DEF Flush
<1>2. ~dirty' /\ (generating' <=> src # None)
  BY Zenon DEF Flush
<1>3. ASSUME ~unguarded' PROVE Good(msgs', out', req') /\ Kept(saved', out', req') /\ Quiet'
  <2>1. Good(new, out', req')
    BY <1>3
  <2>2. Kept(new, out', req')
    BY <2>1, GoodIsKept
  <2>3. Quiet'
    BY <1>1, <1>2, <1>3, Zenon DEF Quiet
  <2> QED
    BY <1>1, <2>1, <2>2, <2>3
<1> QED
  BY <1>3, Zenon DEF Faith, Good, Kept

LEMMA SubmitFaith ==
    ASSUME Inv, NEW r \in Requests, NEW t, Talk(t), Submit(r, Append(t, LoadingMessage(r))),
           ~unguarded' => Quiet /\ Good(t, out, req) /\ NoneOpen(req)
    PROVE  Faith'
<1>1. PICK new : new = Append(t, LoadingMessage(r))
  OBVIOUS
<1>2. req[r] = "new" /\ UNCHANGED <<stream, out>> /\ sendChat(r, new)
  BY <1>1 DEF Submit, Fresh
<1>3. req \in [Requests -> {"new", "open", "closed", "detached"}]
  BY DEF Inv, Links
<1>4. Msg(LoadingMessage(r))
  BY NewMessages
<1>5. Talk(new) /\ new # <<>> /\ Msg(Last(new))
  BY <1>1, <1>4, Appended, TalkFacts
<1>6. PICK p : p = [req EXCEPT ![r] = "open"]
  OBVIOUS
<1>7. p[r] = "open" /\ \A x \in Requests : x # r => p[x] = req[x]
  BY <1>3, <1>6
<1>8. ASSUME ~unguarded' PROVE Good(new, out, p) /\ out[r] = <<>>
  <2>1. Good(t, out, req) /\ NoneOpen(req)
    BY <1>8
  <2> QED
    BY <1>1, <1>2, <1>3, <1>6, <2>1, GoodSent DEF Good
<1>9. CASE /\ req' = [req EXCEPT ![r] = "open"]
           /\ source' = IF stream THEN r ELSE source
           /\ complete' = IF stream THEN FALSE ELSE complete
           /\ Flush(new, source')
  <2>1. ASSUME ~unguarded', ~stream
        PROVE  source' = None /\ \A x \in Requests : req'[x] = "open" => out'[x] = <<>>
    <3>1. source = None /\ NoneOpen(req)
      BY <2>1, Zenon DEF Quiet
    <3> QED
      BY <1>2, <1>6, <1>7, <1>8, <1>9, <2>1, <3>1 DEF NoneOpen
  <2>2. ~unguarded' => Good(new, out', req')
    BY <1>2, <1>6, <1>8, <1>9
  <2> QED
    BY <1>2, <1>9, <2>1, <2>2, FlushFaith
<1>10. CASE /\ stream
            /\ req' = [req EXCEPT ![r] = "closed"]
            /\ source' = None
            /\ complete' = FALSE
            /\ Flush(WithLast(new, Failed(Last(new))), None)
  <2>1. PICK m : m = Failed(Last(new))
    OBVIOUS
  <2>2. PICK w : w = WithLast(new, m)
    OBVIOUS
  <2>3. PICK z : z = req'
    OBVIOUS
  <2>4. z[r] = "closed" /\ \A x \in Requests : x # r => z[x] = req[x]
    BY <1>3, <1>10, <2>3
  <2>5. ASSUME ~unguarded' PROVE Good(w, out, z)
    <3>1. Closes(z, p)
      BY <1>7, <2>4 DEF Closes
    <3>2. NoneOpen(z)
      BY <2>4, <2>5 DEF NoneOpen
    <3>3. Good(new, out, z)
      BY <1>8, <2>5, <3>1, <3>2, GoodClosed
    <3>4. Msg(m) /\ m.key = Last(new).key /\ Fits(m, out[m.key[2]], Attached(z))
      BY <1>5, <2>1, Finished, FitsFailed
    <3> QED
      BY <1>5, <2>2, <3>2, <3>3, <3>4, GoodReplaced
  <2>6. ~unguarded' => Good(w, out', req')
    BY <1>2, <2>3, <2>5
  <2>7. Flush(w, None) /\ source' = None
    BY <1>10, <2>1, <2>2
  <2> QED
    BY <1>2, <1>10, <2>6, <2>7, FlushFaith
<1> QED
  BY <1>2, <1>9, <1>10 DEF sendChat

LEMMA DrawnSubset ==
    ASSUME NEW t, NEW ms, ToSet(t) \subseteq ToSet(ms)
    PROVE  Drawn(t, ms)
  BY DEF Drawn

LEMMA EditedDrawn ==
    ASSUME NEW ms, Talk(ms), NEW k \in DOMAIN ms
    PROVE  /\ Talk(WithText(ms, k, Edited)) /\ Len(WithText(ms, k, Edited)) = Len(ms)
           /\ Drawn(WithText(ms, k, Edited), ms)
<1>1. PICK t : t = WithText(ms, k, Edited)
  OBVIOUS
<1>2. /\ Talk(t) /\ Len(t) = Len(ms)
      /\ \A m \in ToSet(t) : m \in ToSet(ms) \/ (m.key = ms[k].key /\ m.content = Edited)
  BY <1>1, EditedMessages
<1>3. ms[k] \in ToSet(ms)
  BY TalkSet
<1>4. Drawn(t, ms)
  BY <1>2, <1>3 DEF Drawn
<1> QED
  BY <1>1, <1>2, <1>4

\* All that submits.
LEMMA SubmitFaithful ==
    ASSUME Inv, Faith, NEW r \in Requests,
           \/ handleSubmit(r) \/ handleSuggestionClick(r)
           \/ \E i \in DOMAIN shown : handleRegenerateMessage(r, i) \/ saveEditAndSubmit(r, i)
    PROVE  Faith'
<1>1. ASSUME NEW t, Talk(t), Submit(r, Append(t, LoadingMessage(r))), Drawn(t, shown),
             \/ unguarded' = (unguarded \/ Busy)
             \/ (~generating /\ unguarded' = (unguarded \/ (~stream /\ Busy)))
      PROVE  Faith'
  <2>1. ASSUME ~unguarded' PROVE Quiet /\ Good(t, out, req) /\ NoneOpen(req)
    <3>1. Quiet /\ Good(shown, out, req) /\ NoneOpen(req)
      BY <1>1, <2>1, Calm
    <3> QED
      BY <1>1, <3>1, GoodDrawn
  <2> QED
    BY <1>1, <2>1, SubmitFaith
<1>2. Talk(shown)
  BY DEF Inv, Talks
<1>3. ASSUME handleSubmit(r) \/ handleSuggestionClick(r) PROVE Faith'
  <2>1. PICK u : u = UserMessage(r)
    OBVIOUS
  <2>2. Msg(u) /\ From(u) = "user"
    BY <2>1, NewMessages DEF UserMessage, From
  <2>3. PICK t : t = Append(shown, u)
    OBVIOUS
  <2>4. Talk(t) /\ ToSet(t) = ToSet(shown) \cup {u}
    BY <1>2, <2>2, <2>3, TalkAppend
  <2>5. Drawn(t, shown)
    BY <2>2, <2>4 DEF Drawn
  <2>6. Append(t, LoadingMessage(r)) = Conversation(r)
    BY <1>2, <2>1, <2>3, TwoAppended DEF Conversation
  <2>7. /\ Submit(r, Append(t, LoadingMessage(r)))
        /\ \/ unguarded' = (unguarded \/ Busy)
           \/ (~generating /\ unguarded' = (unguarded \/ (~stream /\ Busy)))
    BY <1>3, <2>6, Zenon DEF handleSubmit, handleSuggestionClick
  <2> QED
    BY <1>1, <2>4, <2>5, <2>7
<1>4. ASSUME NEW i \in DOMAIN shown, handleRegenerateMessage(r, i) PROVE Faith'
  <2>1. PICK t : t = SubSeq(shown, 1, i - 1)
    OBVIOUS
  <2>2. i - 1 \in 0 .. Len(shown)
    BY <1>2, TalkFacts
  <2>3. Talk(t) /\ Drawn(t, shown)
    BY <1>2, <2>1, <2>2, Prefix, DrawnSubset
  <2>4. /\ Submit(r, Append(t, LoadingMessage(r)))
        /\ ~generating /\ unguarded' = (unguarded \/ (~stream /\ Busy))
    BY <1>4, <2>1, Zenon DEF handleRegenerateMessage, HasActions
  <2> QED
    BY <1>1, <2>3, <2>4
<1>5. ASSUME NEW i \in DOMAIN shown, saveEditAndSubmit(r, i) PROVE Faith'
  <2>1. PICK e : e = WithText(shown, i, Edited) /\ e = WithEdit(i)
    BY DEF WithText, WithEdit
  <2>2. Talk(e) /\ Len(e) = Len(shown) /\ Drawn(e, shown)
    BY <1>2, <2>1, EditedDrawn
  <2>3. PICK t : t = SubSeq(e, 1, i)
    OBVIOUS
  <2>4. i \in 0 .. Len(e)
    BY <1>2, <2>2, TalkFacts
  <2>5. Talk(t) /\ Drawn(t, shown)
    BY <2>2, <2>3, <2>4, Prefix DEF Drawn
  <2>6. Submit(r, Append(t, LoadingMessage(r))) /\ unguarded' = (unguarded \/ Busy)
    BY <1>5, <2>1, <2>3, Zenon DEF saveEditAndSubmit
  <2> QED
    BY <1>1, <2>5, <2>6
<1> QED
  BY <1>3, <1>4, <1>5

LEMMA ClickFaithful ==
    ASSUME Inv, Faith, \/ Render \/ handleEditCancel
                       \/ \E i \in DOMAIN shown : handleDeleteMessage(i) \/ handleEditMessage(i) \/ saveEdit(i)
    PROVE  Faith'
<1>1. Talk(shown)
  BY DEF Inv, Talks
<1>2. ASSUME Render \/ handleEditCancel \/ \E i \in DOMAIN shown : handleEditMessage(i) PROVE Faith'
  <2>1. Flush(msgs, source) /\ UNCHANGED <<stream, source, req, out, unguarded>>
    BY <1>2 DEF Render, handleEditCancel, handleEditMessage
  <2>2. ASSUME ~unguarded'
        PROVE  /\ Good(msgs, out', req')
               /\ ~stream => source = None /\ \A r \in Requests : req'[r] = "open" => out'[r] = <<>>
    <3>1. Good(msgs, out, req) /\ Quiet
      BY <2>1, <2>2 DEF Faith
    <3> QED
      BY <2>1, <3>1 DEF Quiet
  <2> QED
    BY <2>1, <2>2, FlushFaith
<1>3. ASSUME NEW t, Drawn(t, shown), Flush(t, source), UNCHANGED <<stream, source, req, out>>,
             \/ unguarded' = (unguarded \/ Busy)
             \/ (~generating /\ unguarded' = (unguarded \/ (~stream /\ Busy)))
      PROVE  Faith'
  <2>1. ASSUME ~unguarded'
        PROVE  /\ Good(t, out', req')
               /\ ~stream => source = None /\ \A r \in Requests : req'[r] = "open" => out'[r] = <<>>
    <3>1. Quiet /\ Good(shown, out, req) /\ NoneOpen(req)
      BY <1>3, <2>1, Calm
    <3>2. Good(t, out, req)
      BY <1>3, <3>1, GoodDrawn
    <3> QED
      BY <1>3, <3>1, <3>2 DEF Quiet
  <2> QED
    BY <1>3, <2>1, FlushFaith
<1>4. ASSUME NEW i \in DOMAIN shown, handleDeleteMessage(i) PROVE Faith'
  <2>1. PICK t : t = RemoveAt(shown, i)
    OBVIOUS
  <2>2. Drawn(t, shown)
    BY <1>1, <2>1, Removed, DrawnSubset
  <2>3. /\ Flush(t, source) /\ UNCHANGED <<stream, source, req, out>>
        /\ ~generating /\ unguarded' = (unguarded \/ (~stream /\ Busy))
    BY <1>4, <2>1, Zenon DEF handleDeleteMessage, HasActions
  <2> QED
    BY <1>3, <2>2, <2>3
<1>5. ASSUME NEW i \in DOMAIN shown, saveEdit(i) PROVE Faith'
  <2>1. PICK t : t = WithText(shown, i, Edited) /\ t = WithEdit(i)
    BY DEF WithText, WithEdit
  <2>2. Drawn(t, shown)
    BY <1>1, <2>1, EditedDrawn
  <2>3. /\ Flush(t, source) /\ UNCHANGED <<stream, source, req, out>>
        /\ unguarded' = (unguarded \/ Busy)
    BY <1>5, <2>1, Zenon DEF saveEdit
  <2> QED
    BY <1>3, <2>2, <2>3
<1> QED
  BY <1>2, <1>4, <1>5

\* The answer to a request that is open.
LEMMA Answering ==
    ASSUME Inv, Faith, ~unguarded, NEW r \in Requests, req[r] = "open"
    PROVE  /\ Good(msgs, out, req) /\ Kept(saved, out, req) /\ Quiet
           /\ Live(msgs, out[r], r) /\ Numbers(out[r]) /\ LastIsAssistant(msgs)
           /\ Talk(msgs) /\ msgs # <<>> /\ Msg(Last(msgs)) /\ Last(msgs).key = <<"assistant", r>>
           /\ Fits(Last(msgs), out[r], Attached(req))
           /\ stream => generating
<1>1. Good(msgs, out, req) /\ Kept(saved, out, req) /\ Quiet
  BY DEF Faith
<1>2. Live(msgs, out[r], r) /\ Numbers(out[r])
  BY <1>1 DEF Good, Numbered
<1>3. Talk(msgs)
  BY DEF Inv, Talks
<1>4. msgs # <<>> /\ Msg(Last(msgs)) /\ Last(msgs).key = <<"assistant", r>>
  BY <1>2, <1>3, TalkFacts DEF Live
<1>5. LastIsAssistant(msgs) /\ Last(msgs).key[2] = r
  BY <1>4 DEF LastIsAssistant, From
<1>6. Fits(Last(msgs), out[r], Attached(req))
  <2>1. Last(msgs) \in ToSet(msgs)
    BY <1>3, <1>4, TalkSet
  <2> QED
    BY <1>1, <1>5, <2>1 DEF Good, FitAll
<1>7. stream => generating
  BY NoneIsNoRequest DEF Inv, Guarded, Referred
<1> QED
  BY <1>1, <1>2, <1>3, <1>4, <1>5, <1>6, <1>7

LEMMA OpenCloses ==
    ASSUME Inv, Faith, ~unguarded, NEW r \in Requests, req[r] = "open",
           req' = [req EXCEPT ![r] = "closed"]
    PROVE  Closes(req', req) /\ NoneOpen(req')
<1>1. req \in [Requests -> {"new", "open", "closed", "detached"}]
  BY DEF Inv, Links
<1>2. req'[r] = "closed" /\ \A x \in Requests : x # r => req'[x] = req[x]
  BY <1>1
<1>3. \A x \in Requests : req[x] = "open" => x = r
  BY OneOpen DEF Faith
<1> QED
  BY <1>2, <1>3 DEF Closes, NoneOpen

\* An update while a request is open, or as it ends.
LEMMA UpdateFaith ==
    ASSUME NEW m, UpdateLast(m), UNCHANGED <<stream, unguarded>>, source' \in {source, None},
           ~unguarded =>
               /\ LastIsAssistant(msgs) /\ Quiet /\ (stream => generating)
               /\ Good(WithLast(msgs, m), out', req') /\ Kept(saved, out', req')
               /\ ~stream => NoneOpen(req')
    PROVE  Faith'
<1>1. ASSUME ~unguarded PROVE Good(msgs', out', req') /\ Kept(saved', out', req') /\ Quiet'
  <2>1. PICK new : new = WithLast(msgs, m)
    OBVIOUS
  <2>2. LastIsAssistant(msgs)
    BY <1>1
  <2>3. Update(new)
    BY <2>1, <2>2 DEF UpdateLast
  <2>4. msgs' = new /\ saved' \in {saved, new} /\ UNCHANGED <<shown, generating>>
    BY <2>3 DEF Update
  <2>5. dirty'
    BY <2>2, <2>3, Zenon DEF Update
  <2>6. Good(new, out', req') /\ Kept(new, out', req')
    BY <1>1, <2>1, GoodIsKept
  <2>7. Kept(saved', out', req')
    BY <1>1, <2>4, <2>6
  <2>8. ASSUME ~stream' PROVE ~generating' /\ source' = None
    BY <1>1, <2>4, <2>8 DEF Quiet
  <2>9. ~stream' => \A r \in Requests : req'[r] = "open" => out'[r] = <<>>
    BY <1>1 DEF NoneOpen
  <2>10. stream' => generating'
    BY <1>1, <2>4
  <2>11. Quiet'
    BY <2>5, <2>8, <2>9, <2>10, Zenon DEF Quiet
  <2> QED
    BY <2>4, <2>6, <2>7, <2>11
<1> QED
  BY <1>1, Zenon DEF Faith, Good, Kept

LEMMA ChunksOf ==
    ASSUME NEW s, Numbers(s)
    PROVE  ToSet(s) \subseteq Chunks
<1>1. s \in Seq(Chunks)
  BY DEF Numbers
<1>2. \A i \in DOMAIN s : s[i] \in Chunks
  BY <1>1, ElementOfSeq, LenProperties
<1> QED
  BY <1>2 DEF ToSet

LEMMA ChunkFaithful ==
    ASSUME Inv, Faith, NEW r \in Requests, NEW kind \in Kinds, chunk(r, kind)
    PROVE  Faith'
<1>1. PICK c : c = <<r, Len(out[r]) + 1, kind>>
  OBVIOUS
<1>2. PICK m : /\ m = IF Last(msgs).status = "error" THEN Last(msgs)
                      ELSE [(IF kind = "reason" THEN [Last(msgs) EXCEPT !.reasoning = Append(@, c)]
                             ELSE processStreamingContent(Last(msgs), c)) EXCEPT !.status = "streaming"]
               /\ UpdateLast(m)
  BY <1>1 DEF chunk
<1>3. /\ UNCHANGED <<stream, source, req, unguarded>> /\ req[r] = "open" /\ stream
      /\ out' = [out EXCEPT ![r] = Append(out[r], c)]
  BY <1>1 DEF chunk, Streaming
<1>4. ASSUME ~unguarded
      PROVE  /\ LastIsAssistant(msgs) /\ Quiet /\ (stream => generating)
             /\ Good(WithLast(msgs, m), out', req') /\ Kept(saved, out', req')
             /\ ~stream => NoneOpen(req')
  <2>1. /\ Good(msgs, out, req) /\ Kept(saved, out, req) /\ Quiet
        /\ Live(msgs, out[r], r) /\ Numbers(out[r]) /\ LastIsAssistant(msgs)
        /\ Talk(msgs) /\ msgs # <<>> /\ Msg(Last(msgs)) /\ Last(msgs).key = <<"assistant", r>>
        /\ stream => generating
    BY <1>3, <1>4, Answering
  <2>2. c \in Chunks /\ c[2] = Len(out[r]) + 1 /\ c[3] = kind
    <3>1. Len(out[r]) \in Nat
      BY <2>1, UptoAll
    <3> QED
      BY <1>1, <3>1 DEF Chunks
  <2>3. PICK l : l = Last(msgs)
    OBVIOUS
  <2>4. /\ Unfinished(l) /\ Msg(l) /\ l.key = <<"assistant", r>> /\ From(l) = "assistant"
        /\ ~Mixes(ToSet(out[r])) => Raw(l, ToSet(out[r]))
    BY <2>1, <2>3 DEF Live, From
  <2>5. l.status # "error"
    BY <2>4 DEF Unfinished
  <2>6. m = Extended(l, c)
    BY <1>2, <2>2, <2>3, <2>5 DEF Extended
  <2>7. Msg(m)
    BY <2>2, <2>4, <2>6, ChunkMessage DEF Extended
  <2>8. m.key = <<"assistant", r>> /\ Unfinished(m)
    BY <2>4, <2>6, ExtendedFields DEF Unfinished
  <2>9. PICK O : O = ToSet(out[r])
    OBVIOUS
  <2>10. O \subseteq Chunks /\ \A d \in O : d[2] < c[2]
    BY <2>1, <2>2, <2>9, ChunksOf, NumbersGrown
  <2>11. ASSUME ~Mixes(O \cup {c}) PROVE Holds(m, O \cup {c})
    <3>1. ~Mixes(O)
      BY <2>11, NoneMixed
    <3>2. Raw(l, O)
      BY <2>4, <2>9, <3>1
    <3>3. Raw(m, O \cup {c})
      BY <2>2, <2>4, <2>6, <2>10, <2>11, <3>2, ExtendedIsRaw
    <3> QED
      BY <2>8, <3>3 DEF Holds
  <2>12. Closes(req, req)
    BY DEF Closes
  <2>13. Good(WithLast(msgs, m), [out EXCEPT ![r] = Append(out[r], c)], req)
    BY <1>3, <2>1, <2>2, <2>7, <2>8, <2>9, <2>11, <2>12, GoodWritten
  <2>14. Kept(saved, [out EXCEPT ![r] = Append(out[r], c)], req)
    <3>1. Talk(saved) /\ Numbered(out)
      BY <2>1 DEF Inv, Talks, Good
    <3> QED
      BY <2>1, <2>2, <2>12, <3>1, KeptGrown
  <2> QED
    BY <1>3, <2>1, <2>13, <2>14
<1> QED
  BY <1>2, <1>3, <1>4, UpdateFaith

\* A request ends and its answer becomes m.
LEMMA FinishFaith ==
    ASSUME Inv, Faith, NEW r \in Requests, req[r] = "open", req' = [req EXCEPT ![r] = "closed"],
           NEW m, UpdateLast(m), UNCHANGED <<stream, out, unguarded>>, source' \in {source, None},
           ~unguarded => Msg(m) /\ m.key = <<"assistant", r>> /\ Fits(m, out[r], Attached(req))
    PROVE  Faith'
<1>1. ASSUME ~unguarded
      PROVE  /\ LastIsAssistant(msgs) /\ Quiet /\ (stream => generating)
             /\ Good(WithLast(msgs, m), out', req') /\ Kept(saved, out', req')
             /\ ~stream => NoneOpen(req')
  <2>1. /\ Good(msgs, out, req) /\ Kept(saved, out, req) /\ Quiet /\ LastIsAssistant(msgs)
        /\ Talk(msgs) /\ msgs # <<>> /\ Last(msgs).key = <<"assistant", r>>
        /\ stream => generating
    BY <1>1, Answering
  <2>2. PICK p : p = req'
    OBVIOUS
  <2>3. Closes(p, req) /\ NoneOpen(p)
    BY <1>1, <2>2, OpenCloses
  <2>4. Good(msgs, out, p) /\ Kept(saved, out, p)
    BY <2>1, <2>3, GoodClosed, KeptClosed
  <2>5. m.key[2] = r /\ Fits(m, out[r], Attached(p))
    <3>1. m.key[2] = r
      BY <1>1
    <3>2. r \in Attached(p) => r \in Attached(req)
      BY <2>3 DEF Attached, Closes
    <3> QED
      BY <1>1, <3>1, <3>2, FitsLess
  <2>6. Good(WithLast(msgs, m), out, p)
    <3>1. Msg(m) /\ m.key = Last(msgs).key /\ Fits(m, out[m.key[2]], Attached(p))
      BY <1>1, <2>1, <2>5
    <3> QED
      BY <2>1, <2>3, <2>4, <3>1, GoodReplaced
  <2> QED
    BY <2>1, <2>2, <2>3, <2>4, <2>6
<1> QED
  BY <1>1, UpdateFaith

\* A request ends without a word.
LEMMA SilentFaith ==
    ASSUME Inv, Faith, NEW r \in Requests, req[r] = "open", req' = [req EXCEPT ![r] = "closed"],
           UNCHANGED <<stream, msgs, shown, saved, dirty, generating, source, out, unguarded>>
    PROVE  Faith'
<1>1. ASSUME ~unguarded PROVE Good(msgs, out, req') /\ Kept(saved, out, req') /\ Quiet'
  <2>1. Good(msgs, out, req) /\ Kept(saved, out, req) /\ Quiet
    BY <1>1 DEF Faith
  <2>2. PICK p : p = req'
    OBVIOUS
  <2>3. Closes(p, req) /\ NoneOpen(p)
    BY <1>1, <2>2, OpenCloses
  <2>4. Good(msgs, out, p) /\ Kept(saved, out, p)
    BY <2>1, <2>3, GoodClosed, KeptClosed
  <2>5. \A x \in Requests : req'[x] # "open"
    BY <2>2, <2>3 DEF NoneOpen
  <2>6. Quiet'
    BY <2>1, <2>5, Zenon DEF Quiet
  <2> QED
    BY <2>2, <2>4, <2>6
<1> QED
  BY <1>1, Zenon DEF Faith, Good, Kept

\* An answer that comes whole.
LEMMA ResponseIsWhole ==
    ASSUME NEW l, Msg(l), Raw(l, {}), NEW c \in Chunks, c[3] = "text"
    PROVE  Whole(Completed([l EXCEPT !.content = <<c>>]), {c})
<1>1. PICK x : x = [l EXCEPT !.content = <<c>>]
  OBVIOUS
<1>2. Msg(x) /\ x.content = <<c>> /\ x.reasoning = l.reasoning
  <2>1. PICK y : y = <<c>>
    OBVIOUS
  <2>2. Msg([l EXCEPT !.content = y])
    BY Rewritten
  <2>3. [l EXCEPT !.content = y].content = y /\ [l EXCEPT !.content = y].reasoning = l.reasoning
    BY DEF Msg
  <2> QED
    BY <1>1, <2>1, <2>2, <2>3
<1>3. ~Mixes({c})
  BY DEF Mixes
<1>4. PICK e : e = Extended(l, c)
  OBVIOUS
<1>5. Raw(e, {c})
  <2>1. {} \cup {c} = {c} /\ {} \subseteq Chunks
    OBVIOUS
  <2> QED
    BY <1>3, <1>4, <2>1, ExtendedIsRaw
<1>6. l.content = <<>>
  <2>1. l.content \in Seq(Chunks) /\ ToSet(l.content) = {}
    BY DEF Raw
  <2> QED
    BY <2>1, NoElements
<1>7. PICK y : y = <<c>> /\ y = Append(l.content, c)
  <2>1. Append(<<>>, c) = <<c>>
    OBVIOUS
  <2> QED
    BY <1>6, <2>1
<1>8. PICK p : p = parseThinkTags(y)
  OBVIOUS
<1>9. /\ e.content = y
      /\ e.reasoning = IF p.reasoning # <<>> THEN p.reasoning ELSE l.reasoning
  <2>1. PICK a : a = Append(l.content, c)
    OBVIOUS
  <2>2. /\ Extended(l, c).content = a
        /\ Extended(l, c).reasoning = IF parseThinkTags(a).reasoning # <<>>
                                      THEN parseThinkTags(a).reasoning ELSE l.reasoning
    BY <2>1, ExtendedFields
  <2>3. a = y
    BY <1>7, <2>1
  <2> QED
    BY <1>4, <1>8, <2>2, <2>3
<1>10. ParseOf(e.content, p) /\ ToSet(e.content) \subseteq {c}
  BY <1>5, <1>8, <1>9 DEF Raw
<1>11. p.reasoning = <<>>
  BY <1>10 DEF ParseOf
<1>12. e.content = x.content /\ e.reasoning = x.reasoning
  BY <1>2, <1>7, <1>9, <1>11
<1>13. Raw(x, {c})
  BY <1>5, <1>12 DEF Raw
<1>14. Whole(Completed(x), {c})
  BY <1>2, <1>3, <1>13, CompletedIsWhole
<1> QED
  BY <1>1, <1>14

LEMMA ResponseFaith ==
    ASSUME Inv, Faith, NEW r \in Requests, ~stream, req[r] = "open",
           req' = [req EXCEPT ![r] = "closed"], NEW c, c = <<r, 1, "text">>,
           out' = [out EXCEPT ![r] = <<c>>],
           UpdateLast(Completed([Last(msgs) EXCEPT !.content = <<c>>])),
           UNCHANGED <<stream, source, unguarded>>
    PROVE  Faith'
<1>1. PICK m : /\ m = Completed([Last(msgs) EXCEPT !.content = <<c>>])
               /\ UpdateLast(m)
  OBVIOUS
<1>2. ASSUME ~unguarded
      PROVE  /\ LastIsAssistant(msgs) /\ Quiet /\ (stream => generating)
             /\ Good(WithLast(msgs, m), out', req') /\ Kept(saved, out', req')
             /\ ~stream => NoneOpen(req')
  <2>1. /\ Good(msgs, out, req) /\ Kept(saved, out, req) /\ Quiet
        /\ Live(msgs, out[r], r) /\ LastIsAssistant(msgs)
        /\ Talk(msgs) /\ msgs # <<>> /\ Msg(Last(msgs)) /\ Last(msgs).key = <<"assistant", r>>
    BY <1>2, Answering
  <2>2. out[r] = <<>> /\ ToSet(out[r]) = {}
    BY <2>1, EmptySet DEF Quiet
  <2>3. c \in Chunks /\ c[2] = Len(out[r]) + 1 /\ c[3] = "text"
    <3>1. c \in Chunks /\ c[2] = 1 /\ c[3] = "text"
      BY DEF Chunks, Kinds
    <3>2. Len(out[r]) = 0
      BY <2>2
    <3> QED
      BY <3>1, <3>2
  <2>4. Append(out[r], c) = <<c>>
    BY <2>2
  <2>5. PICK l : l = Last(msgs)
    OBVIOUS
  <2>6. Msg(l) /\ l.key = <<"assistant", r>> /\ Raw(l, {})
    <3>1. ~Mixes({})
      BY DEF Mixes
    <3> QED
      BY <2>1, <2>2, <2>5, <3>1 DEF Live
  <2>7. Msg(m) /\ m.key = <<"assistant", r>> /\ ~Unfinished(m)
    <3>1. PICK y : y = <<c>>
      OBVIOUS
    <3>2. PICK x : x = [l EXCEPT !.content = y]
      OBVIOUS
    <3>3. Msg(x)
      BY <2>6, <3>2, Rewritten
    <3>4. x.key = l.key
      BY <2>6, <3>2 DEF Msg
    <3>5. m = Completed(x)
      BY <1>1, <2>5, <3>1, <3>2
    <3> QED
      BY <2>6, <3>3, <3>4, <3>5, Finished, CompletedFields
  <2>8. Whole(m, {c})
    BY <1>1, <2>3, <2>5, <2>6, ResponseIsWhole
  <2>9. Holds(m, ToSet(out[r]) \cup {c})
    BY <2>2, <2>7, <2>8 DEF Holds
  <2>10. PICK p : p = req'
    OBVIOUS
  <2>11. Closes(p, req) /\ NoneOpen(p)
    BY <1>2, <2>10, OpenCloses
  <2>12. p[r] # "open"
    BY <2>11 DEF NoneOpen
  <2>13. Good(WithLast(msgs, m), [out EXCEPT ![r] = Append(out[r], c)], p)
    BY <2>1, <2>3, <2>7, <2>9, <2>11, <2>12, GoodWritten
  <2>14. Kept(saved, [out EXCEPT ![r] = Append(out[r], c)], p)
    <3>1. Talk(saved) /\ Numbered(out)
      BY <2>1 DEF Inv, Talks, Good
    <3> QED
      BY <2>1, <2>3, <2>11, <3>1, KeptGrown
  <2>15. out' = [out EXCEPT ![r] = Append(out[r], c)]
    BY <2>4
  <2> QED
    BY <2>1, <2>10, <2>11, <2>13, <2>14, <2>15
<1> QED
  BY <1>1, <1>2, UpdateFaith

\* The end of a request.
LEMMA EndFaithful ==
    ASSUME Inv, Faith, NEW r \in Requests, Ends(r)
    PROVE  Faith'
<1>1. ASSUME ~unguarded, req[r] = "open"
      PROVE  LET d == Completed(Last(msgs))
                 f == Failed(Last(msgs))
             IN  /\ Unfinished(Last(msgs))
                 /\ Msg(d) /\ d.key = <<"assistant", r>> /\ Fits(d, out[r], Attached(req))
                 /\ Msg(f) /\ f.key = <<"assistant", r>> /\ Fits(f, out[r], Attached(req))
  <2>1. PICK l : l = Last(msgs)
    OBVIOUS
  <2>2. /\ Msg(l) /\ l.key = <<"assistant", r>> /\ Fits(l, out[r], Attached(req))
        /\ Unfinished(l)
    BY <1>1, <2>1, Answering DEF Live
  <2>3. Msg(Completed(l)) /\ Msg(Failed(l)) /\ Completed(l).key = l.key
    BY <2>2, Finished, CompletedFields
  <2>4. Fits(Completed(l), out[r], Attached(req))
    BY <2>2, FitsCompleted
  <2>5. Failed(l).key = l.key /\ Fits(Failed(l), out[r], Attached(req))
    BY <2>2, FitsFailed
  <2> QED
    BY <2>1, <2>2, <2>3, <2>4, <2>5
<1>2. ASSUME done(r) PROVE Faith'
  <2>1. PICK m : /\ m = IF Unfinished(Last(msgs)) THEN Completed(Last(msgs)) ELSE Last(msgs)
                 /\ UpdateLast(m)
    BY <1>2 DEF done
  <2>2. /\ req[r] = "open" /\ req' = [req EXCEPT ![r] = "closed"] /\ source' = None
        /\ UNCHANGED <<stream, out, unguarded>>
    BY <1>2 DEF done, Streaming
  <2>3. ~unguarded => Msg(m) /\ m.key = <<"assistant", r>> /\ Fits(m, out[r], Attached(req))
    BY <1>1, <2>1, <2>2
  <2> QED
    BY <2>1, <2>2, <2>3, FinishFaith
<1>3. ASSUME UpdateLast(Failed(Last(msgs))), req[r] = "open", req' = [req EXCEPT ![r] = "closed"],
             UNCHANGED <<stream, out, unguarded>>, source' \in {source, None}
      PROVE  Faith'
  <2>1. PICK m : m = Failed(Last(msgs)) /\ UpdateLast(m)
    BY <1>3
  <2>2. ~unguarded => Msg(m) /\ m.key = <<"assistant", r>> /\ Fits(m, out[r], Attached(req))
    BY <1>1, <1>3, <2>1
  <2> QED
    BY <1>3, <2>1, <2>2, FinishFaith
<1>4. ASSUME handleError(r) PROVE Faith'
  <2>1. /\ req[r] = "open" /\ req' = [req EXCEPT ![r] = "closed"]
        /\ UNCHANGED <<stream, out, unguarded>>
    BY <1>4 DEF handleError, Streaming
  <2>2. ASSUME source' = None, UpdateLast(Failed(Last(msgs))) PROVE Faith'
    BY <1>3, <2>1, <2>2
  <2>3. ASSUME UNCHANGED <<source, msgs, dirty, saved, shown, generating>> PROVE Faith'
    BY <2>1, <2>3, SilentFaith
  <2> QED
    BY <1>4, <2>2, <2>3 DEF handleError
<1>5. ASSUME endsSilently(r) PROVE Faith'
  BY <1>5, SilentFaith DEF endsSilently, Streaming
<1>6. ASSUME response(r) PROVE Faith'
  <2>1. /\ req[r] = "open" /\ req' = [req EXCEPT ![r] = "closed"] /\ ~stream
        /\ UNCHANGED <<stream, source, unguarded>>
    BY <1>6 DEF response
  <2>2. PICK c : c = <<r, 1, "text">>
    OBVIOUS
  <2>3. ASSUME out' = [out EXCEPT ![r] = <<c>>],
               UpdateLast(Completed([Last(msgs) EXCEPT !.content = <<c>>]))
        PROVE  Faith'
    BY <2>1, <2>2, <2>3, ResponseFaith
  <2>4. ASSUME UpdateLast(Failed(Last(msgs))), UNCHANGED out PROVE Faith'
    BY <1>3, <2>1, <2>4
  <2>5. ASSUME UNCHANGED <<out, msgs, shown, saved, dirty, generating>> PROVE Faith'
    BY <2>1, <2>5, SilentFaith
  <2> QED
    BY <1>6, <2>2, <2>3, <2>4, <2>5 DEF response
<1> QED
  BY <1>2, <1>4, <1>5, <1>6 DEF Ends

LEMMA StopFaithful ==
    ASSUME Inv, Faith, stopGeneration
    PROVE  Faith'
<1>1. PICK new : /\ new = IF LastIsAssistant(msgs) /\ Unfinished(Last(msgs))
                          THEN WithLast(msgs, Completed(Last(msgs))) ELSE msgs
                 /\ Flush(new, None)
  BY DEF stopGeneration
<1>2. /\ req' = IF source # None /\ req[source] = "open" THEN [req EXCEPT ![source] = "closed"] ELSE req
      /\ source' = None /\ UNCHANGED <<stream, out, unguarded>> /\ generating
  BY DEF stopGeneration
<1>3. ASSUME ~unguarded
      PROVE  /\ Good(new, out', req')
             /\ ~stream => \A r \in Requests : req'[r] = "open" => out'[r] = <<>>
  <2>1. Good(msgs, out, req) /\ Quiet
    BY <1>3 DEF Faith
  <2>2. stream
    BY <1>2, <2>1 DEF Quiet
  <2>3. Referred /\ req \in [Requests -> {"new", "open", "closed", "detached"}]
    BY <1>3, <2>2 DEF Inv, Guarded, Links
  <2>4. PICK p : p = req'
    OBVIOUS
  <2>5. Closes(p, req) /\ NoneOpen(p)
    BY <1>2, <2>3, <2>4, NoneIsNoRequest DEF Referred, Closes, NoneOpen
  <2>6. Good(msgs, out, p)
    BY <2>1, <2>5, GoodClosed
  <2>7. CASE LastIsAssistant(msgs) /\ Unfinished(Last(msgs))
    <3>1. PICK l : l = Last(msgs)
      OBVIOUS
    <3>2. Talk(msgs) /\ msgs # <<>>
      BY <2>7 DEF Inv, Talks, LastIsAssistant
    <3>3. Msg(l) /\ l \in ToSet(msgs) /\ Unfinished(l)
      BY <2>7, <3>1, <3>2, TalkSet
    <3>4. Fits(l, out[l.key[2]], Attached(p))
      BY <2>6, <3>3 DEF Good, FitAll
    <3>5. PICK m : m = Completed(l)
      OBVIOUS
    <3>6. Msg(m) /\ m.key = l.key
      BY <3>3, <3>5, Finished, CompletedFields
    <3>7. Fits(m, out[m.key[2]], Attached(p))
      BY <3>3, <3>4, <3>5, <3>6, FitsCompleted
    <3>8. Good(WithLast(msgs, m), out, p)
      BY <2>5, <2>6, <3>1, <3>2, <3>6, <3>7, GoodReplaced
    <3> QED
      BY <1>1, <1>2, <2>2, <2>4, <2>7, <3>1, <3>5, <3>8
  <2>8. CASE ~(LastIsAssistant(msgs) /\ Unfinished(Last(msgs)))
    BY <1>1, <1>2, <2>2, <2>4, <2>6, <2>8
  <2> QED
    BY <2>7, <2>8
<1> QED
  BY <1>1, <1>2, <1>3, FlushFaith

LEMMA MountFaithful ==
    ASSUME Inv, Faith, mount
    PROVE  Faith'
<1>1. PICK new : new = sanitizeMessagesOnLoad(saved) /\ Flush(new, None)
  BY DEF mount
<1>2. /\ req' = [r \in Requests |-> IF req[r] = "new" THEN "new" ELSE "detached"]
      /\ source' = None /\ UNCHANGED <<stream, out, unguarded>>
  BY DEF mount
<1>3. ASSUME ~unguarded PROVE Good(new, out', req')
  <2>1. /\ Numbered(out) /\ Kept(saved, out, req)
        /\ \A r \in Requests : req[r] = "new" => out[r] = <<>>
    BY <1>3 DEF Faith, Good
  <2>2. PICK p : p = [r \in Requests |-> IF req[r] = "new" THEN "new" ELSE "detached"]
    OBVIOUS
  <2>3. Talk(saved)
    BY DEF Inv, Talks
  <2>4. Good(sanitizeMessagesOnLoad(saved), out, p)
    BY <2>1, <2>2, <2>3, GoodLoaded
  <2> QED
    BY <1>1, <1>2, <2>2, <2>4
<1>4. \A r \in Requests : req'[r] # "open"
  BY <1>2
<1> QED
  BY <1>1, <1>2, <1>3, <1>4, FlushFaith

LEMMA FaithInit == Init => Faith
<1> SUFFICES ASSUME Init PROVE Faith
  OBVIOUS
<1>1. /\ msgs = <<>> /\ shown = <<>> /\ saved = <<>> /\ source = None
      /\ req = [r \in Requests |-> "new"] /\ out = [r \in Requests |-> <<>>]
  BY DEF Init
<1>2. ~dirty /\ ~generating
  BY Zenon DEF Init
<1>3. Numbers(<<>>)
  BY EmptySet DEF Numbers
<1>4. Numbered(out)
  BY <1>1, <1>3, EmptySet DEF Numbered
<1>5. \A r \in Requests : NoKey(<<>>, r)
  BY EmptySet DEF NoKey
<1>6. \A R : FitAll(<<>>, out, R)
  BY EmptySet DEF FitAll
<1>7. Good(msgs, out, req)
  BY <1>1, <1>4, <1>5, <1>6 DEF Good
<1>8. Kept(saved, out, req)
  BY <1>1, <1>5, <1>6 DEF Kept
<1>9. \A r \in Requests : req[r] # "open"
  BY <1>1
<1>10. Quiet
  BY <1>1, <1>2, <1>9, Zenon DEF Quiet
<1> QED
  BY <1>7, <1>8, <1>10 DEF Faith

LEMMA FaithStep == Inv /\ Faith /\ [Next]_vars => Faith'
<1> SUFFICES ASSUME Inv, Faith, [Next]_vars PROVE Faith'
  OBVIOUS
<1>1. ASSUME UNCHANGED vars PROVE Faith'
  <2>1. ASSUME ~unguarded PROVE Good(msgs, out, req) /\ Kept(saved, out, req) /\ Quiet
    BY <2>1 DEF Faith
  <2>2. ~unguarded => Quiet'
    BY <1>1, <2>1, Zenon DEF vars, Quiet
  <2> QED
    BY <1>1, <2>1, <2>2, Zenon DEF vars, Faith, Good, Kept
<1>2. ASSUME User PROVE Faith'
  BY <1>2, SubmitFaithful, ClickFaithful, StopFaithful, MountFaithful DEF User
<1>3. ASSUME Render PROVE Faith'
  BY <1>3, ClickFaithful
<1>4. ASSUME NEW r \in Requests, Ends(r) \/ \E k \in {"reason", "text", "open", "close"} : chunk(r, k)
      PROVE  Faith'
  BY <1>4, EndFaithful, ChunkFaithful DEF Kinds
<1> QED
  BY <1>1, <1>2, <1>3, <1>4 DEF Next

\* What an answer that holds the first part of its request shows.
LEMMA HoldsIsFaithful ==
    ASSUME NEW m, NEW s, Numbers(s), ~Mixes(ToSet(s)), NEW n \in 0 .. Len(s), Holds(m, Upto(s, n))
    PROVE  LET S == {c \in ToSet(s) : c[3] \notin Tags} IN
           /\ Shown(m) \subseteq S
           /\ InOrder(m.content) /\ InOrder(m.reasoning)
           /\ \A c, d \in S : c[2] < d[2] /\ d \in Shown(m) => c \in Shown(m)
           /\ n = Len(s) => Shown(m) = S
<1>1. ~Mixes(Upto(s, n))
  BY NoneMixed DEF Upto
<1>2. Whole(m, Upto(s, n))
  BY <1>1, RawIsWhole DEF Holds
<1>3. InOrder(m.content) /\ InOrder(m.reasoning) /\ Shown(m) = {c \in Upto(s, n) : c[3] \notin Tags}
  BY <1>2 DEF Whole
<1>4. \A c \in ToSet(s) : c[2] \in Nat
  <2>1. \A c \in Chunks : c[2] \in Nat
    BY DEF Chunks
  <2> QED
    BY <2>1, ChunksOf
<1>5. Len(s) \in Nat
  BY UptoAll
<1>6. \A c, d \in ToSet(s) : c[2] < d[2] /\ d[2] <= n => c[2] <= n
  BY <1>4, <1>5
<1>7. n = Len(s) => Upto(s, n) = ToSet(s)
  BY UptoAll
<1> QED
  BY <1>3, <1>6, <1>7 DEF Upto

\* An answer is what its own request was sent, whatever is clicked, stopped,
\* edited, deleted, cut off or reloaded in between, however long the answers
\* are and wherever the tags are in them.
THEOREM AnswersAreFaithful == Spec => []FaithfulAnswer
<1>1. ASSUME Inv, Faith PROVE FaithfulAnswer
  <2>1. SUFFICES ASSUME ~unguarded, NEW i \in DOMAIN msgs,
                        From(msgs[i]) = "assistant", msgs[i].status # "error",
                        msgs[i].content # Edited, ~Mixed(msgs[i].key[2])
                 PROVE  LET m == msgs[i]
                            r == m.key[2]
                        IN  /\ Shown(m) \subseteq Sent(r)
                            /\ InOrder(m.content) /\ InOrder(m.reasoning)
                            /\ \A c, d \in Sent(r) : c[2] < d[2] /\ d \in Shown(m) => c \in Shown(m)
                            /\ req[r] # "detached" => Shown(m) = Sent(r)
    BY Zenon DEF FaithfulAnswer
  <2>2. PICK m : m = msgs[i]
    OBVIOUS
  <2>3. PICK r : r = m.key[2]
    OBVIOUS
  <2>4. m \in ToSet(msgs) /\ r \in Requests
    BY <1>1, <2>2, <2>3, TalkSet DEF Inv, Talks
  <2>5. Fits(m, out[r], Attached(req)) /\ Numbers(out[r])
    BY <1>1, <2>1, <2>3, <2>4 DEF Faith, Good, FitAll, Numbered
  <2>6. ~Mixes(ToSet(out[r]))
    BY <2>1, <2>2, <2>3 DEF Mixed, Mixes
  <2>7. PICK n \in 0 .. Len(out[r]) :
          (r \in Attached(req) => n = Len(out[r])) /\ Holds(m, Upto(out[r], n))
    BY <2>1, <2>2, <2>3, <2>5, <2>6 DEF Fits
  <2>8. Sent(r) = {c \in ToSet(out[r]) : c[3] \notin Tags}
    BY DEF Sent
  <2>9. /\ Shown(m) \subseteq Sent(r)
        /\ InOrder(m.content) /\ InOrder(m.reasoning)
        /\ \A c, d \in Sent(r) : c[2] < d[2] /\ d \in Shown(m) => c \in Shown(m)
        /\ n = Len(out[r]) => Shown(m) = Sent(r)
    BY <2>5, <2>6, <2>7, <2>8, HoldsIsFaithful
  <2>10. req[r] # "detached" => n = Len(out[r])
    BY <2>4, <2>7 DEF Attached
  <2> QED
    BY <2>2, <2>3, <2>9, <2>10
<1>2. Inv /\ Faith /\ [Next]_vars => Inv' /\ Faith'
  BY InvStep, FaithStep
<1> QED
  BY <1>1, <1>2, InvInit, FaithInit, PTL DEF Spec

=============================================================================
