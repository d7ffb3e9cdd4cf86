------------------------- MODULE LanguageServerProofs -------------------------
(* Theorems about LanguageServer: what answers are made from, that none is  *)
(* lost or made twice, and what the editor shows, for every number of files *)
(* and however much the user does while messages are under way.             *)
EXTENDS LanguageServer, SequenceTheorems, TLAPS

-----------------------------------------------------------------------------
(* What a queue does to a function of the documents: each message that sets *)
(* u replaces the value of u.  In inbox the function is the server's        *)
(* documents, in outbox the errors the editor shows.                        *)
Sets(m, u) == m.kind \in {"didOpen", "didChange", "didClose", "diagnostics"} /\ m.uri = u

Value(m) ==
  IF m.kind = "diagnostics" THEN m.errors ELSE IF m.kind = "didClose" THEN Closed ELSE m.text

\* The first n messages of queue bring the value of u from start[u] to x.
After(queue, start, n, u, x) ==
  \/ x = start[u] /\ \A j \in 1..n : ~Sets(queue[j], u)
  \/ \E j \in 1..n : Sets(queue[j], u) /\ x = Value(queue[j]) /\ \A k \in (j + 1)..n : ~Sets(queue[k], u)

-----------------------------------------------------------------------------
(* The inductive invariant.  With the messages under way the server comes   *)
(* to know what the user sees; each question meets the documents it was     *)
(* asked about; and the editor comes to show what the server found.         *)
SentInOrder ==
  client = "running" =>
    \A u \in Uris \ toOpen : After(inbox, documents, Len(inbox), u, editor[u])

AskedInOrder ==
  \A i \in 1..Len(inbox) :
    inbox[i].kind \in Methods => \A u \in Uris : After(inbox, documents, i - 1, u, inbox[i].asked[u])

PendingAsked == pending \subseteq 1..events

StoppedIsQuiet ==
  client = "stopped" =>
    server # "running" /\ inbox = <<>> /\ outbox = <<>> /\ pending = {} /\ shown = NoErrors

Diagnosed ==
  client # "stopped" => \A u \in Uris :
    /\ documents[u] = Closed => After(outbox, shown, Len(outbox), u, FALSE)
    /\ documents[u] # Closed /\ u \in fresh => After(outbox, shown, Len(outbox), u, HasErrors(documents[u]))

\* Only documents that are open are opened again.
ReopensOpen == \A u \in toOpen : editor[u] \in Texts

IInv ==
  /\ TypeOK
  /\ ReopensOpen
  /\ SentInOrder
  /\ AskedInOrder
  /\ PendingAsked
  /\ StoppedIsQuiet
  /\ Diagnosed
  /\ AnswersFromEditor
  /\ EachAnsweredOnce

-----------------------------------------------------------------------------
\* Before any message.
LEMMA AfterNone ==
  ASSUME NEW queue, NEW start, NEW u, NEW x
  PROVE  After(queue, start, 0, u, x) <=> x = start[u]
BY DEF After

\* Only the first n messages count.
LEMMA AfterPrefix ==
  ASSUME NEW queue, NEW other, NEW start, NEW n \in Nat, NEW u, NEW x,
         \A j \in 1..n : other[j] = queue[j],
         After(queue, start, n, u, x)
  PROVE  After(other, start, n, u, x)
<1>1. CASE x = start[u] /\ \A j \in 1..n : ~Sets(queue[j], u)
    BY <1>1 DEF After
<1>2. CASE \E j \in 1..n : Sets(queue[j], u) /\ x = Value(queue[j]) /\ \A k \in (j + 1)..n : ~Sets(queue[k], u)
  <2>1. PICK j \in 1..n : Sets(queue[j], u) /\ x = Value(queue[j]) /\ \A k \in (j + 1)..n : ~Sets(queue[k], u)
      BY <1>2
  <2>2. \A k \in (j + 1)..n : k \in 1..n
      OBVIOUS
  <2>3. Sets(other[j], u) /\ x = Value(other[j]) /\ \A k \in (j + 1)..n : ~Sets(other[k], u)
      BY <2>1, <2>2
  <2> QED
      BY <2>3 DEF After
<1> QED
    BY <1>1, <1>2 DEF After

\* One more message, which does not set u.
LEMMA AfterSkip ==
  ASSUME NEW queue, NEW start, NEW n \in Nat, NEW u, NEW x,
         After(queue, start, n, u, x), ~Sets(queue[n + 1], u)
  PROVE  After(queue, start, n + 1, u, x)
<1>1. \A k \in 1..(n + 1) : k \in 1..n \/ k = n + 1
    OBVIOUS
<1>2. CASE x = start[u] /\ \A j \in 1..n : ~Sets(queue[j], u)
    BY <1>1, <1>2 DEF After
<1>3. CASE \E j \in 1..n : Sets(queue[j], u) /\ x = Value(queue[j]) /\ \A k \in (j + 1)..n : ~Sets(queue[k], u)
  <2>1. PICK j \in 1..n : Sets(queue[j], u) /\ x = Value(queue[j]) /\ \A k \in (j + 1)..n : ~Sets(queue[k], u)
      BY <1>3
  <2>2. j \in 1..(n + 1) /\ \A k \in (j + 1)..(n + 1) : k \in (j + 1)..n \/ k = n + 1
      OBVIOUS
  <2>3. \A k \in (j + 1)..(n + 1) : ~Sets(queue[k], u)
      BY <2>1, <2>2
  <2> QED
      BY <2>1, <2>2, <2>3 DEF After
<1> QED
    BY <1>2, <1>3 DEF After

\* One more message, which sets u.
LEMMA AfterSet ==
  ASSUME NEW queue, NEW start, NEW n \in Nat, NEW u, Sets(queue[n + 1], u)
  PROVE  After(queue, start, n + 1, u, Value(queue[n + 1]))
<1>1. n + 1 \in 1..(n + 1) /\ \A k \in (n + 1 + 1)..(n + 1) : FALSE
    OBVIOUS
<1> QED
    BY <1>1 DEF After

\* The first message is taken: the start takes over what it sets.
LEMMA AfterTake ==
  ASSUME NEW queue, NEW rest, NEW start, NEW next, NEW n \in Nat, NEW u, NEW x,
         \A j \in 1..n : rest[j] = queue[j + 1],
         next[u] = IF Sets(queue[1], u) THEN Value(queue[1]) ELSE start[u],
         After(queue, start, n + 1, u, x)
  PROVE  After(rest, next, n, u, x)
<1>1. \A j \in 1..n : j + 1 \in 1..(n + 1)
    OBVIOUS
<1>0. 1 \in 1..(n + 1)
    OBVIOUS
<1>2. CASE x = start[u] /\ \A j \in 1..(n + 1) : ~Sets(queue[j], u)
    BY <1>0, <1>1, <1>2 DEF After
<1>3. CASE \E j \in 1..(n + 1) : Sets(queue[j], u) /\ x = Value(queue[j]) /\ \A k \in (j + 1)..(n + 1) : ~Sets(queue[k], u)
  <2>1. PICK j \in 1..(n + 1) : Sets(queue[j], u) /\ x = Value(queue[j]) /\ \A k \in (j + 1)..(n + 1) : ~Sets(queue[k], u)
      BY <1>3
  <2>2. CASE j = 1
    <3>1. x = next[u]
        BY <2>1, <2>2
    <3>2. \A k \in 1..n : k + 1 \in (j + 1)..(n + 1)
        BY <2>2
    <3>3. \A k \in 1..n : ~Sets(rest[k], u)
        BY <2>1, <3>2
    <3> QED
        BY <3>1, <3>3 DEF After
  <2>3. CASE j # 1
    <3>1. j - 1 \in 1..n /\ (j - 1) + 1 = j
        BY <2>3
    <3>2. Sets(rest[j - 1], u) /\ x = Value(rest[j - 1])
        BY <2>1, <3>1
    <3>3. \A k \in ((j - 1) + 1)..n : k \in 1..n /\ k + 1 \in (j + 1)..(n + 1)
        BY <2>3
    <3>4. \A k \in ((j - 1) + 1)..n : ~Sets(rest[k], u)
        BY <2>1, <3>3
    <3> QED
        BY <3>1, <3>2, <3>4 DEF After
  <2> QED
      BY <2>2, <2>3
<1> QED
    BY <1>2, <1>3 DEF After

\* A message is appended to a queue: what the queue brought is still brought
\* by its first messages, and the new message comes last.
LEMMA Appended ==
  ASSUME NEW S, NEW queue \in Seq(S), NEW m \in S
  PROVE  /\ Append(queue, m) \in Seq(S)
         /\ Len(queue) \in Nat
         /\ Len(Append(queue, m)) = Len(queue) + 1
         /\ \A i \in 1..Len(queue) : Append(queue, m)[i] = queue[i]
         /\ Append(queue, m)[Len(queue) + 1] = m
OBVIOUS

\* It sets u,
LEMMA AppendSets ==
  ASSUME NEW S, NEW queue \in Seq(S), NEW m \in S, NEW start, NEW u, Sets(m, u),
         NEW longer, longer = Append(queue, m)
  PROVE  After(longer, start, Len(longer), u, Value(m))
<1> DEFINE n == Len(queue)
<1>1. n \in Nat /\ Len(longer) = n + 1 /\ longer[n + 1] = m
    BY Appended
<1> HIDE DEF n
<1> QED
    BY <1>1, AfterSet

\* or it does not.
LEMMA AppendSkips ==
  ASSUME NEW S, NEW queue \in Seq(S), NEW m \in S, NEW start, NEW u, ~Sets(m, u),
         NEW longer, longer = Append(queue, m),
         NEW x, After(queue, start, Len(queue), u, x)
  PROVE  After(longer, start, Len(longer), u, x)
<1> DEFINE n == Len(queue)
<1>1. n \in Nat /\ Len(longer) = n + 1 /\ longer[n + 1] = m /\ \A i \in 1..n : longer[i] = queue[i]
    BY Appended
<1> HIDE DEF n
<1>2. After(longer, start, n, u, x)
    BY <1>1, AfterPrefix DEF n
<1> QED
    BY <1>1, <1>2, AfterSkip

LEMMA AppendKeeps ==
  ASSUME NEW S, NEW queue \in Seq(S), NEW m \in S, NEW start, NEW u,
         NEW longer, longer = Append(queue, m),
         NEW i \in 1..(Len(queue) + 1), NEW x, After(queue, start, i - 1, u, x)
  PROVE  After(longer, start, i - 1, u, x)
<1>1. Len(queue) \in Nat /\ \A j \in 1..Len(queue) : longer[j] = queue[j]
    BY Appended
<1>2. i - 1 \in Nat /\ \A j \in 1..(i - 1) : j \in 1..Len(queue)
    BY <1>1
<1> QED
    BY <1>1, <1>2, AfterPrefix

\* The queue without its first message.
LEMMA Rest ==
  ASSUME NEW S, NEW queue \in Seq(S), queue # <<>>
  PROVE  /\ Head(queue) \in S
         /\ Head(queue) = queue[1]
         /\ Tail(queue) \in Seq(S)
         /\ Len(Tail(queue)) \in Nat
         /\ Len(queue) = Len(Tail(queue)) + 1
         /\ \A j \in 1..Len(Tail(queue)) : Tail(queue)[j] = queue[j + 1]
<1>1. Len(queue) \in Nat /\ Len(queue) > 0
    BY EmptySeq, LenProperties
<1>2. /\ Tail(queue) \in Seq(S) /\ Len(Tail(queue)) = Len(queue) - 1
      /\ \A j \in 1..Len(Tail(queue)) : Tail(queue)[j] = queue[j + 1]
      /\ Head(queue) \in S
    BY HeadTailProperties
<1>3. Head(queue) = queue[1]
    OBVIOUS
<1> QED
    BY <1>1, <1>2, <1>3

-----------------------------------------------------------------------------
(* The requests in a queue. *)
Ids(m) == IF IsRequest(m) THEN {m.id} ELSE {}

Distinct(queue) ==
  \A i, j \in 1..Len(queue) :
    IsRequest(queue[i]) /\ IsRequest(queue[j]) /\ queue[i].id = queue[j].id => i = j

\* An id is waiting in a queue exactly if a request of the queue has it.
LEMMA WaitingIs ==
  ASSUME NEW queue
  PROVE  /\ \A i \in 1..Len(queue) : IsRequest(queue[i]) => queue[i].id \in Waiting(queue)
         /\ \A id \in Waiting(queue) : \E i \in 1..Len(queue) : IsRequest(queue[i]) /\ id = queue[i].id
BY DEF Waiting

LEMMA WaitingAppend ==
  ASSUME NEW S, NEW queue \in Seq(S), NEW m \in S, NEW longer, longer = Append(queue, m)
  PROVE  /\ Waiting(longer) = Waiting(queue) \cup Ids(m)
         /\ Distinct(queue) /\ Waiting(queue) \cap Ids(m) = {} => Distinct(longer)
<1> DEFINE n == Len(queue)
<1>1. n \in Nat /\ Len(longer) = n + 1 /\ longer[n + 1] = m /\ \A i \in 1..n : longer[i] = queue[i]
    BY Appended
<1>2. \A i \in 1..(n + 1) : i \in 1..n \/ i = n + 1
    BY <1>1
<1>3. \A i \in 1..n : i \in 1..(n + 1)
    BY <1>1
<1>4. n + 1 \in 1..(n + 1)
    BY <1>1
<1> HIDE DEF n
<1>5. Waiting(longer) \subseteq Waiting(queue) \cup Ids(m)
  <2> SUFFICES ASSUME NEW id \in Waiting(longer) PROVE id \in Waiting(queue) \cup Ids(m)
      OBVIOUS
  <2>1. PICK i \in 1..(n + 1) : IsRequest(longer[i]) /\ id = longer[i].id
      BY <1>1, WaitingIs
  <2>2. CASE i \in 1..n
      BY <1>1, <2>1, <2>2, WaitingIs DEF n
  <2>3. CASE i = n + 1
      BY <1>1, <2>1, <2>3 DEF Ids
  <2> QED
      BY <1>2, <2>2, <2>3
<1>6. Waiting(queue) \subseteq Waiting(longer)
  <2> SUFFICES ASSUME NEW id \in Waiting(queue) PROVE id \in Waiting(longer)
      OBVIOUS
  <2>1. PICK i \in 1..n : IsRequest(queue[i]) /\ id = queue[i].id
      BY WaitingIs DEF n
  <2> QED
      BY <1>1, <1>3, <2>1, WaitingIs
<1>7. Ids(m) \subseteq Waiting(longer)
    BY <1>1, <1>4, WaitingIs DEF Ids
<1>8. ASSUME Distinct(queue), Waiting(queue) \cap Ids(m) = {} PROVE Distinct(longer)
  <2> SUFFICES ASSUME NEW i \in 1..(n + 1), NEW j \in 1..(n + 1),
                      IsRequest(longer[i]), IsRequest(longer[j]), longer[i].id = longer[j].id
               PROVE  i = j
      BY <1>1 DEF Distinct
  <2>1. \A k \in 1..n : IsRequest(queue[k]) /\ IsRequest(m) => queue[k].id # m.id
      BY <1>8, WaitingIs DEF Ids, n
  <2>2. CASE i \in 1..n /\ j \in 1..n
      BY <1>1, <1>8, <2>2 DEF Distinct, n
  <2> QED
      BY <1>1, <1>2, <2>1, <2>2
<1> QED
    BY <1>5, <1>6, <1>7, <1>8

LEMMA WaitingTake ==
  ASSUME NEW S, NEW queue \in Seq(S), queue # <<>>, NEW rest, rest = Tail(queue)
  PROVE  /\ Waiting(queue) = Waiting(rest) \cup Ids(Head(queue))
         /\ Distinct(queue) => Distinct(rest) /\ Waiting(rest) \cap Ids(Head(queue)) = {}
<1> DEFINE n == Len(rest)
           m == Head(queue)
<1>1. n \in Nat /\ Len(queue) = n + 1 /\ queue[1] = m /\ \A j \in 1..n : rest[j] = queue[j + 1]
    BY Rest
<1>2. \A i \in 1..(n + 1) : i = 1 \/ (i - 1 \in 1..n /\ (i - 1) + 1 = i)
    BY <1>1
<1>3. \A j \in 1..n : j + 1 \in 1..(n + 1) /\ j + 1 # 1
    BY <1>1
<1>4. 1 \in 1..(n + 1)
    BY <1>1
<1> HIDE DEF n, m
<1>5. Waiting(queue) \subseteq Waiting(rest) \cup Ids(m)
  <2> SUFFICES ASSUME NEW id \in Waiting(queue) PROVE id \in Waiting(rest) \cup Ids(m)
      OBVIOUS
  <2>1. PICK i \in 1..(n + 1) : IsRequest(queue[i]) /\ id = queue[i].id
      BY <1>1, WaitingIs
  <2>2. CASE i = 1
      BY <1>1, <2>1, <2>2 DEF Ids
  <2>3. CASE i - 1 \in 1..n /\ (i - 1) + 1 = i
    <3>1. rest[i - 1] = queue[i]
        BY <1>1, <2>3
    <3> QED
        BY <2>1, <2>3, <3>1, WaitingIs DEF n
  <2> QED
      BY <1>2, <2>2, <2>3
<1>6. Waiting(rest) \subseteq Waiting(queue)
  <2> SUFFICES ASSUME NEW id \in Waiting(rest) PROVE id \in Waiting(queue)
      OBVIOUS
  <2>1. PICK j \in 1..n : IsRequest(rest[j]) /\ id = rest[j].id
      BY WaitingIs DEF n
  <2>2. rest[j] = queue[j + 1] /\ j + 1 \in 1..(n + 1)
      BY <1>1, <1>3
  <2> QED
      BY <1>1, <2>1, <2>2, WaitingIs
<1>7. Ids(m) \subseteq Waiting(queue)
    BY <1>1, <1>4, WaitingIs DEF Ids
<1>8. ASSUME Distinct(queue) PROVE Distinct(rest) /\ Waiting(rest) \cap Ids(m) = {}
  <2>1. \A i, j \in 1..(n + 1) :
          IsRequest(queue[i]) /\ IsRequest(queue[j]) /\ queue[i].id = queue[j].id => i = j
      BY <1>1, <1>8 DEF Distinct
  <2>2. ASSUME NEW i \in 1..n, NEW j \in 1..n,
               IsRequest(rest[i]), IsRequest(rest[j]), rest[i].id = rest[j].id
        PROVE  i = j
    <3>1. i + 1 = j + 1
        BY <1>1, <1>3, <2>1, <2>2
    <3> QED
        BY <3>1
  <2>3. \A j \in 1..n : IsRequest(rest[j]) /\ IsRequest(m) => rest[j].id # m.id
      BY <1>1, <1>3, <1>4, <2>1
  <2>4. Distinct(rest)
      BY <2>2 DEF Distinct, n
  <2>5. ASSUME NEW id \in Waiting(rest) \cap Ids(m) PROVE FALSE
    <3>1. PICK j \in 1..n : IsRequest(rest[j]) /\ id = rest[j].id
        BY WaitingIs DEF n
    <3> QED
        BY <2>3, <2>5, <3>1 DEF Ids
  <2> QED
      BY <2>4, <2>5
<1> QED
    BY <1>5, <1>6, <1>7, <1>8 DEF m

-----------------------------------------------------------------------------
\* What a message of each kind carries.
LEMMA MessageFacts ==
  ASSUME NEW m \in Message
  PROVE  /\ m.kind \in {"didOpen", "didChange", "didClose"} \cup Methods \cup {"shutdown", "exit"}
         /\ m.kind \in {"didOpen", "didChange"} => m.uri \in Uris /\ m.text \in Texts
         /\ m.kind = "didClose" => m.uri \in Uris
         /\ m.kind \in Methods => m.uri \in Uris /\ m.id \in 1..MaxEvents /\ m.asked \in Documents
         /\ m.kind = "shutdown" => m.id \in 1..MaxEvents
         /\ IsRequest(m) => \A u : ~Sets(m, u)
BY DEF Message, Methods, IsRequest, Sets

LEMMA ReplyFacts ==
  ASSUME NEW m \in Reply
  PROVE  /\ m.kind \in {"diagnostics"} \cup Methods \cup {"shutdown"}
         /\ m.kind = "diagnostics" => m.uri \in Uris /\ m.errors \in BOOLEAN
         /\ IsRequest(m) => m.id \in 1..MaxEvents /\ \A u : ~Sets(m, u)
         /\ m.kind = "diagnostics" => ~IsRequest(m)
BY DEF Reply, Methods, IsRequest, Sets

-----------------------------------------------------------------------------
\* Where the requests without an answer are.
OnePlace(ids, in, out) ==
  /\ ids = Waiting(in) \cup Waiting(out)
  /\ Waiting(in) \cap Waiting(out) = {}
  /\ Distinct(in) /\ Distinct(out)

LEMMA EachInOnePlace == EachAnsweredOnce <=> (server = "running" => OnePlace(pending, inbox, outbox))
BY DEF EachAnsweredOnce, OnePlace, Distinct

LEMMA NothingWaits == OnePlace({}, <<>>, <<>>)
<1>1. Len(<<>>) = 0 /\ \A i \in 1..0 : FALSE
    BY EmptySeq
<1>2. Waiting(<<>>) = {}
    BY <1>1, WaitingIs
<1> QED
    BY <1>1, <1>2 DEF OnePlace, Distinct

LEMMA TypeFacts ==
  ASSUME TypeOK
  PROVE  /\ inbox \in Seq(Message) /\ Len(inbox) \in Nat
         /\ outbox \in Seq(Reply) /\ Len(outbox) \in Nat
         /\ events \in Nat /\ documents \in Documents /\ editor \in Documents
BY ServerAssumption DEF TypeOK

LEMMA InitInv == Init => IInv
<1> SUFFICES ASSUME Init PROVE IInv
    OBVIOUS
<1>0. Len(inbox) = 0 /\ Len(outbox) = 0 /\ inbox = <<>> /\ outbox = <<>> /\ \A i \in 1..0 : FALSE
    BY EmptySeq DEF Init
<1>1. TypeOK
  <2>1. NoDocuments \in Documents /\ NoErrors \in [Uris -> BOOLEAN]
      BY DEF NoDocuments, NoErrors, Documents
  <2>2. inbox \in Seq(Message) /\ outbox \in Seq(Reply)
      BY EmptySeq DEF Init
  <2> QED
      BY <2>1, <2>2, ServerAssumption DEF Init, TypeOK
<1>2. ASSUME NEW u \in Uris
      PROVE  After(inbox, documents, Len(inbox), u, Closed) /\ After(outbox, shown, Len(outbox), u, FALSE)
  <2>1. documents[u] = Closed /\ shown[u] = FALSE
      BY DEF Init, NoDocuments, NoErrors
  <2>2. After(inbox, documents, 0, u, Closed)
      BY <2>1, AfterNone
  <2>3. After(outbox, shown, 0, u, FALSE)
      BY <2>1, AfterNone
  <2> QED
      BY <1>0, <2>2, <2>3
<1>3. SentInOrder /\ AskedInOrder /\ Diagnosed
    BY <1>0, <1>2 DEF Init, SentInOrder, AskedInOrder, Diagnosed, NoDocuments
<1>4. AnswersFromEditor
    BY <1>0 DEF AnswersFromEditor
<1>5. EachAnsweredOnce
    BY NothingWaits, EachInOnePlace DEF Init
<1>6. ReopensOpen /\ PendingAsked /\ StoppedIsQuiet
    BY DEF Init, ReopensOpen, PendingAsked, StoppedIsQuiet
<1> QED
    BY <1>1, <1>3, <1>4, <1>5, <1>6 DEF IInv

-----------------------------------------------------------------------------
\* The editor tells the server a document, which is the user's from then on.
LEMMA EditorSends ==
  ASSUME IInv, NEW u \in Uris, NEW m \in Message, ~IsRequest(m), Sets(m, u),
         Value(m) = editor'[u], editor' \in Documents,
         \A w \in Uris : w # u => editor'[w] = editor[w],
         toOpen' = toOpen \ {u}, Tells(m), events' \in 0..MaxEvents, events' >= events,
         UNCHANGED <<disk, config, client, pending, shown, serverVars, fresh>>
  PROVE  IInv'
<1>0. /\ TypeOK /\ ReopensOpen /\ SentInOrder /\ AskedInOrder /\ PendingAsked /\ StoppedIsQuiet /\ Diagnosed
      /\ AnswersFromEditor /\ EachAnsweredOnce
    BY DEF IInv
<1>1. UNCHANGED <<disk, config, client, pending, shown, server, documents, outbox, fresh>>
    BY DEF serverVars
<1>2. /\ inbox \in Seq(Message) /\ Len(inbox) \in Nat /\ events \in Nat
    BY <1>0, TypeFacts
<1>3. \A w \in Uris : w # u => ~Sets(m, w)
    BY DEF Sets
<1>4. PICK q : q = inbox'
    OBVIOUS
<1>5. ReopensOpen' /\ PendingAsked' /\ AnswersFromEditor'
  <2>1. PendingAsked'
      BY <1>0, <1>1, <1>2 DEF PendingAsked, TypeOK
  <2>2. ReopensOpen'
      BY <1>0 DEF ReopensOpen, TypeOK
  <2> QED
      BY <1>0, <1>1, <2>1, <2>2 DEF AnswersFromEditor
<1>6. Diagnosed'
    BY <1>0, <1>1 DEF Diagnosed, HasErrors, Resolves
<1>7. CASE client = "running"
  <2>1. q = Append(inbox, m)
      BY <1>4, <1>7 DEF Tells
  <2>2. /\ q \in Seq(Message) /\ Len(q) = Len(inbox) + 1 /\ q[Len(inbox) + 1] = m
        /\ \A i \in 1..Len(inbox) : q[i] = inbox[i]
      BY <1>2, <2>1, Appended
  <2>3. \A w \in Uris \ (toOpen \ {u}) : After(q, documents, Len(q), w, editor'[w])
    <3> SUFFICES ASSUME NEW w \in Uris \ (toOpen \ {u}) PROVE After(q, documents, Len(q), w, editor'[w])
        OBVIOUS
    <3>1. CASE w = u
      <4>1. After(q, documents, Len(q), u, Value(m))
          BY <1>2, <2>1, AppendSets
      <4> QED
          BY <3>1, <4>1
    <3>2. CASE w # u
      <4>1. After(inbox, documents, Len(inbox), w, editor[w])
          BY <1>0, <1>7, <3>2 DEF SentInOrder
      <4>2. ~Sets(m, w) /\ editor'[w] = editor[w]
          BY <1>3, <3>2
      <4> QED
          BY <1>2, <2>1, <4>1, <4>2, AppendSkips
    <3> QED
        BY <3>1, <3>2
  <2>4. SentInOrder'
      BY <1>1, <1>4, <2>3 DEF SentInOrder
  <2>5. m.kind \notin Methods
      BY DEF IsRequest
  <2>6. ASSUME NEW i \in 1..Len(q), q[i].kind \in Methods, NEW w \in Uris
        PROVE  After(q, documents, i - 1, w, q[i].asked[w])
    <3>1. i \in 1..Len(inbox)
        BY <1>2, <2>2, <2>5, <2>6
    <3>2. After(inbox, documents, i - 1, w, inbox[i].asked[w])
        BY <1>0, <2>2, <2>6, <3>1 DEF AskedInOrder
    <3>3. i \in 1..(Len(inbox) + 1) /\ q[i].asked[w] = inbox[i].asked[w]
        BY <1>2, <2>2, <3>1
    <3>4. PICK x : x = q[i].asked[w]
        OBVIOUS
    <3>5. After(inbox, documents, i - 1, w, x)
        BY <3>2, <3>3, <3>4
    <3>6. After(q, documents, i - 1, w, x)
        BY <1>2, <2>1, <3>3, <3>5, AppendKeeps
    <3> QED
        BY <3>4, <3>6
  <2>7. AskedInOrder'
      BY <1>1, <1>4, <2>6 DEF AskedInOrder
  <2>8. EachAnsweredOnce'
    <3>1. Waiting(q) = Waiting(inbox) \cup Ids(m) /\ Ids(m) = {} /\ (Distinct(inbox) => Distinct(q))
        BY <1>2, <2>1, WaitingAppend DEF Ids
    <3>2. server = "running" => OnePlace(pending, q, outbox)
        BY <1>0, <3>1, EachInOnePlace DEF OnePlace
    <3>3. server' = "running" => OnePlace(pending', inbox', outbox')
        BY <1>1, <1>4, <3>2
    <3> QED
        BY <3>3 DEF EachAnsweredOnce, OnePlace, Distinct
  <2>9. StoppedIsQuiet'
      BY <1>1, <1>7 DEF StoppedIsQuiet
  <2>10. TypeOK'
      BY <1>0, <1>1, <1>4, <2>2 DEF TypeOK
  <2> QED
      BY <1>5, <1>6, <2>4, <2>7, <2>8, <2>9, <2>10 DEF IInv
<1>8. CASE client # "running"
  <2>1. inbox' = inbox
      BY <1>8 DEF Tells
  <2>2. TypeOK'
      BY <1>0, <1>1, <2>1 DEF TypeOK
  <2>3. EachAnsweredOnce'
    <3>1. server' = "running" => OnePlace(pending', inbox', outbox')
        BY <1>0, <1>1, <2>1, EachInOnePlace
    <3> QED
        BY <3>1 DEF EachAnsweredOnce, OnePlace, Distinct
  <2>4. SentInOrder' /\ AskedInOrder'
      BY <1>0, <1>1, <1>8, <2>1 DEF SentInOrder, AskedInOrder
  <2>5. StoppedIsQuiet'
      BY <1>0, <1>1, <2>1 DEF StoppedIsQuiet
  <2> QED
      BY <1>5, <1>6, <2>2, <2>3, <2>4, <2>5 DEF IInv
<1> QED
    BY <1>7, <1>8

\* The user asks something, or for the server to shut down.
LEMMA EditorAsks ==
  ASSUME IInv, NEW m \in Message, IsRequest(m), m.id = events',
         m.kind \in Methods => Connected /\ m.asked = editor,
         client = "running", client' \in {"running", "stopping"},
         events < MaxEvents, events' = events + 1,
         pending' = pending \cup {events'}, inbox' = Append(inbox, m),
         UNCHANGED <<disk, config, editor, toOpen, shown, serverVars, fresh>>
  PROVE  IInv'
<1>0. /\ TypeOK /\ ReopensOpen /\ SentInOrder /\ AskedInOrder /\ PendingAsked /\ StoppedIsQuiet /\ Diagnosed
      /\ AnswersFromEditor /\ EachAnsweredOnce
    BY DEF IInv
<1>1. UNCHANGED <<disk, config, editor, toOpen, shown, server, documents, outbox, fresh>>
    BY DEF serverVars
<1>2. /\ inbox \in Seq(Message) /\ Len(inbox) \in Nat /\ events \in Nat
    BY <1>0, TypeFacts
<1>3. \A w : ~Sets(m, w)
    BY MessageFacts
<1>4. PICK q : q = inbox'
    OBVIOUS
<1>5. q = Append(inbox, m)
    BY <1>4
<1>6. /\ q \in Seq(Message) /\ Len(q) = Len(inbox) + 1 /\ q[Len(inbox) + 1] = m
      /\ \A i \in 1..Len(inbox) : q[i] = inbox[i]
    BY <1>2, <1>5, Appended
<1>7. TypeOK'
  <2>1. events' \in 0..MaxEvents /\ events' \in 1..MaxEvents
      BY <1>2, ServerAssumption
  <2> QED
      BY <1>0, <1>1, <1>4, <1>6, <2>1 DEF TypeOK
<1>8. SentInOrder'
  <2>1. ASSUME NEW w \in Uris \ toOpen PROVE After(q, documents, Len(q), w, editor[w])
    <3>1. After(inbox, documents, Len(inbox), w, editor[w])
        BY <1>0 DEF SentInOrder
    <3> QED
        BY <1>2, <1>3, <1>5, <3>1, AppendSkips
  <2> QED
      BY <1>1, <1>4, <2>1 DEF SentInOrder
<1>9. AskedInOrder'
  <2>1. ASSUME NEW i \in 1..Len(q), q[i].kind \in Methods, NEW w \in Uris
        PROVE  After(q, documents, i - 1, w, q[i].asked[w])
    <3>1. PICK x : x = q[i].asked[w]
        OBVIOUS
    <3>2. i \in 1..(Len(inbox) + 1) /\ (i \in 1..Len(inbox) \/ i = Len(inbox) + 1)
        BY <1>2, <1>6
    <3>3. After(inbox, documents, i - 1, w, x)
      <4>1. CASE i \in 1..Len(inbox)
        <5>1. q[i] = inbox[i]
            BY <1>6, <4>1
        <5> QED
            BY <1>0, <2>1, <3>1, <4>1, <5>1 DEF AskedInOrder
      <4>2. CASE i = Len(inbox) + 1
        <5>1. q[i] = m /\ i - 1 = Len(inbox)
            BY <1>2, <1>6, <4>2
        <5>2. toOpen = {} /\ x = editor[w]
            BY <2>1, <3>1, <5>1 DEF Connected
        <5>3. After(inbox, documents, Len(inbox), w, x)
            BY <1>0, <5>2 DEF SentInOrder
        <5> QED
            BY <5>1, <5>3
      <4> QED
          BY <3>2, <4>1, <4>2
    <3>4. After(q, documents, i - 1, w, x)
        BY <1>2, <1>5, <3>2, <3>3, AppendKeeps
    <3> QED
        BY <3>1, <3>4
  <2> QED
      BY <1>1, <1>4, <2>1 DEF AskedInOrder
<1>10. EachAnsweredOnce'
  <2> SUFFICES ASSUME server' = "running" PROVE OnePlace(pending', inbox', outbox')
      BY DEF EachAnsweredOnce, OnePlace, Distinct
  <2>1. OnePlace(pending, inbox, outbox)
      BY <1>0, <1>1, EachInOnePlace
  <2>2. Ids(m) = {events'} /\ events' \notin pending
      BY <1>0, <1>2 DEF Ids, PendingAsked
  <2>3. Waiting(q) = Waiting(inbox) \cup Ids(m)
      BY <1>2, <1>5, WaitingAppend
  <2>5. Waiting(inbox) \cap Ids(m) = {} /\ Distinct(inbox)
      BY <2>1, <2>2 DEF OnePlace
  <2>4. Distinct(q)
      BY <1>2, <1>5, <2>5, WaitingAppend
  <2> QED
      BY <1>1, <1>4, <2>1, <2>2, <2>3, <2>4 DEF OnePlace
<1>11. PendingAsked'
    BY <1>0, <1>2 DEF PendingAsked
<1>12. ReopensOpen' /\ StoppedIsQuiet' /\ AnswersFromEditor'
    BY <1>0, <1>1 DEF ReopensOpen, StoppedIsQuiet, AnswersFromEditor
<1>13. Diagnosed'
    BY <1>0, <1>1 DEF Diagnosed, HasErrors, Resolves
<1> QED
    BY <1>7, <1>8, <1>9, <1>10, <1>11, <1>12, <1>13 DEF IInv

-----------------------------------------------------------------------------
\* The server has taken the first message, and docs are its documents then.
LEMMA Took ==
  ASSUME IInv, inbox # <<>>, NEW rest, rest = Tail(inbox), NEW docs,
         \A w \in Uris : docs[w] = IF Sets(Head(inbox), w) THEN Value(Head(inbox)) ELSE documents[w]
  PROVE  /\ rest \in Seq(Message)
         /\ client = "running" => \A w \in Uris \ toOpen : After(rest, docs, Len(rest), w, editor[w])
         /\ \A i \in 1..Len(rest) :
              rest[i].kind \in Methods => \A w \in Uris : After(rest, docs, i - 1, w, rest[i].asked[w])
<1>0. TypeOK /\ SentInOrder /\ AskedInOrder /\ inbox \in Seq(Message)
    BY TypeFacts DEF IInv
<1>1. /\ rest \in Seq(Message) /\ Len(rest) \in Nat /\ Len(inbox) = Len(rest) + 1
      /\ Head(inbox) = inbox[1]
      /\ \A j \in 1..Len(rest) : rest[j] = inbox[j + 1]
    BY <1>0, Rest
<1>2. \A w \in Uris : docs[w] = IF Sets(inbox[1], w) THEN Value(inbox[1]) ELSE documents[w]
    BY <1>1
<1>3. ASSUME client = "running", NEW w \in Uris \ toOpen PROVE After(rest, docs, Len(rest), w, editor[w])
  <2>1. PICK x : x = editor[w]
      OBVIOUS
  <2>2. After(inbox, documents, Len(rest) + 1, w, x)
      BY <1>0, <1>1, <1>3, <2>1 DEF SentInOrder
  <2>3. docs[w] = IF Sets(inbox[1], w) THEN Value(inbox[1]) ELSE documents[w]
      BY <1>2
  <2>4. After(rest, docs, Len(rest), w, x)
      BY <1>1, <2>2, <2>3, AfterTake
  <2> QED
      BY <2>1, <2>4
<1>4. ASSUME NEW i \in 1..Len(rest), rest[i].kind \in Methods, NEW w \in Uris
      PROVE  After(rest, docs, i - 1, w, rest[i].asked[w])
  <2>1. i + 1 \in 1..Len(inbox) /\ inbox[i + 1] = rest[i] /\ (i + 1) - 1 = (i - 1) + 1 /\ i - 1 \in Nat
      BY <1>1
  <2>2. PICK x : x = rest[i].asked[w]
      OBVIOUS
  <2>3. After(inbox, documents, (i + 1) - 1, w, x)
      BY <1>0, <1>4, <2>1, <2>2 DEF AskedInOrder
  <2>4. After(inbox, documents, (i - 1) + 1, w, x)
      BY <2>1, <2>3
  <2>5. \A j \in 1..(i - 1) : rest[j] = inbox[j + 1]
      BY <1>1
  <2>6. After(rest, docs, i - 1, w, x)
      BY <1>2, <2>1, <2>4, <2>5, AfterTake
  <2> QED
      BY <2>2, <2>6
<1> QED
    BY <1>1, <1>3, <1>4

\* A request moves from inbox to its answer in outbox; nothing else does.
LEMMA Moved ==
  ASSUME NEW ids, NEW in \in Seq(Message), NEW out \in Seq(Reply), in # <<>>, OnePlace(ids, in, out),
         NEW a \in Reply, Ids(a) = Ids(Head(in)),
         NEW rest, rest = Tail(in), NEW longer, longer = Append(out, a)
  PROVE  OnePlace(ids, rest, longer)
<1>1. /\ Waiting(in) = Waiting(rest) \cup Ids(Head(in))
      /\ Distinct(rest) /\ Waiting(rest) \cap Ids(Head(in)) = {}
    BY WaitingTake DEF OnePlace
<1>2. Waiting(out) \cap Ids(a) = {}
    BY <1>1 DEF OnePlace
<1>3. Waiting(longer) = Waiting(out) \cup Ids(a) /\ Distinct(longer)
    BY <1>2, WaitingAppend DEF OnePlace
<1> QED
    BY <1>1, <1>3 DEF OnePlace

\* The server sets a document and says whether it has errors.
LEMMA PublishInv ==
  ASSUME IInv, DidOpenOrChange \/ DidClose
  PROVE  IInv'
<1> DEFINE h == Next1
<1>0. /\ TypeOK /\ ReopensOpen /\ SentInOrder /\ AskedInOrder /\ PendingAsked /\ StoppedIsQuiet /\ Diagnosed
      /\ AnswersFromEditor /\ EachAnsweredOnce
    BY DEF IInv
<1>1. /\ server = "running" /\ inbox # <<>> /\ inbox' = Tail(inbox)
      /\ h.kind \in {"didOpen", "didChange", "didClose"}
      /\ UNCHANGED <<disk, config, client, editor, toOpen, pending, shown, events, server>>
      /\ fresh' = fresh \cup {h.uri}
      /\ documents' = [documents EXCEPT ![h.uri] = Value(h)]
    BY DEF DidOpenOrChange, DidClose, Takes, Publishes, userVars, Value
<1>2. /\ inbox \in Seq(Message) /\ outbox \in Seq(Reply) /\ documents \in Documents
    BY <1>0, TypeFacts
<1>3. h \in Message /\ h = Head(inbox)
    BY <1>1, <1>2, Rest DEF Next1
<1>4. /\ h.uri \in Uris /\ ~IsRequest(h)
      /\ Value(h) \in Texts \cup {Closed}
      /\ (Value(h) = Closed <=> h.kind = "didClose")
    BY <1>1, <1>3, MessageFacts, ServerAssumption DEF Value, IsRequest, Methods, Texts
<1>5. PICK e : e = IF Value(h) = Closed THEN FALSE ELSE HasErrors(Value(h))
    OBVIOUS
<1>6. e \in BOOLEAN
    BY <1>5 DEF HasErrors
<1> DEFINE a == [kind |-> "diagnostics", uri |-> h.uri, errors |-> e]
<1>7. outbox' = Append(outbox, a)
  <2>1. CASE DidOpenOrChange
    <3>1. e = HasErrors(h.text)
        BY <1>4, <1>5, <2>1 DEF DidOpenOrChange, Takes, Value
    <3> QED
        BY <2>1, <3>1 DEF DidOpenOrChange, Publishes
  <2>2. CASE DidClose
    <3>1. e = FALSE
        BY <1>4, <1>5, <2>2 DEF DidClose, Takes
    <3> QED
        BY <2>2, <3>1 DEF DidClose, Publishes
  <2> QED
      BY <2>1, <2>2
<1>8. /\ a \in Reply /\ Sets(a, h.uri) /\ Value(a) = e /\ ~IsRequest(a) /\ a.kind \notin Methods
      /\ \A w : w # h.uri => ~Sets(a, w)
    BY <1>4, <1>6 DEF Reply, Sets, Value, IsRequest, Methods
<1>9. PICK rest, longer, docs : rest = inbox' /\ longer = outbox' /\ docs = documents'
    OBVIOUS
<1> HIDE DEF a, h
<1>10. docs \in Documents /\ \A w \in Uris : docs[w] = IF Sets(h, w) THEN Value(h) ELSE documents[w]
    BY <1>1, <1>2, <1>4, <1>9 DEF Documents, Sets
<1>11. /\ rest \in Seq(Message)
       /\ client = "running" => \A w \in Uris \ toOpen : After(rest, docs, Len(rest), w, editor[w])
       /\ \A i \in 1..Len(rest) :
            rest[i].kind \in Methods => \A w \in Uris : After(rest, docs, i - 1, w, rest[i].asked[w])
  <2>1. \A w \in Uris : docs[w] = IF Sets(Head(inbox), w) THEN Value(Head(inbox)) ELSE documents[w]
      BY <1>3, <1>10
  <2>2. rest = Tail(inbox)
      BY <1>1, <1>9
  <2> QED
      BY <1>1, <2>1, <2>2, Took
<1>12. SentInOrder' /\ AskedInOrder'
    BY <1>1, <1>9, <1>11 DEF SentInOrder, AskedInOrder
<1>13. /\ longer \in Seq(Reply) /\ Len(outbox) \in Nat /\ Len(longer) = Len(outbox) + 1
       /\ longer[Len(outbox) + 1] = a /\ \A i \in 1..Len(outbox) : longer[i] = outbox[i]
    BY <1>2, <1>7, <1>8, <1>9, Appended
<1>14. TypeOK'
    BY <1>0, <1>1, <1>4, <1>9, <1>10, <1>11, <1>13 DEF TypeOK
<1>15. EachAnsweredOnce'
  <2>1. OnePlace(pending, inbox, outbox)
      BY <1>0, <1>1, EachInOnePlace
  <2>2. Ids(a) = Ids(Head(inbox))
      BY <1>3, <1>4, <1>8 DEF Ids
  <2>3. OnePlace(pending, rest, longer)
      BY <1>1, <1>2, <1>7, <1>8, <1>9, <2>1, <2>2, Moved
  <2> QED
      BY <1>1, <1>9, <2>3 DEF EachAnsweredOnce, OnePlace, Distinct
<1>16. AnswersFromEditor'
  <2>1. \A i \in 1..Len(longer) : longer[i].kind \in Methods => i \in 1..Len(outbox)
      BY <1>8, <1>13
  <2> QED
      BY <1>0, <1>9, <1>13, <2>1 DEF AnswersFromEditor
<1>17. Diagnosed'
  <2> SUFFICES ASSUME client # "stopped", NEW w \in Uris
               PROVE  /\ docs[w] = Closed => After(longer, shown, Len(longer), w, FALSE)
                      /\ docs[w] # Closed /\ w \in fresh' => After(longer, shown, Len(longer), w, HasErrors(docs[w]))
      BY <1>1, <1>9 DEF Diagnosed, HasErrors, Resolves
  <2>1. CASE w = h.uri
    <3>1. After(longer, shown, Len(longer), w, e)
        BY <1>2, <1>7, <1>8, <1>9, <2>1, AppendSets
    <3>2. docs[w] = Value(h)
        BY <1>10, <1>1, <2>1 DEF Sets
    <3>3. (docs[w] = Closed => e = FALSE) /\ (docs[w] # Closed => e = HasErrors(docs[w]))
        BY <1>5, <3>2
    <3> QED
        BY <3>1, <3>3
  <2>2. CASE w # h.uri
    <3>1. ~Sets(a, w) /\ docs[w] = documents[w] /\ (w \in fresh' => w \in fresh)
        BY <1>1, <1>8, <1>10, <2>2 DEF Sets
    <3>2. ASSUME NEW x, After(outbox, shown, Len(outbox), w, x) PROVE After(longer, shown, Len(longer), w, x)
        BY <1>2, <1>7, <1>8, <1>9, <3>1, <3>2, AppendSkips
    <3>3. docs[w] = Closed => After(longer, shown, Len(longer), w, FALSE)
        BY <1>0, <3>1, <3>2 DEF Diagnosed
    <3>4. ASSUME docs[w] # Closed, w \in fresh' PROVE After(longer, shown, Len(longer), w, HasErrors(docs[w]))
      <4>1. PICK x : x = HasErrors(docs[w])
          OBVIOUS
      <4>2. After(outbox, shown, Len(outbox), w, x)
          BY <1>0, <3>1, <3>4, <4>1 DEF Diagnosed
      <4> QED
          BY <3>2, <4>1, <4>2
    <3> QED
        BY <3>3, <3>4
  <2> QED
      BY <2>1, <2>2
<1>18. ReopensOpen' /\ PendingAsked' /\ StoppedIsQuiet'
    BY <1>0, <1>1 DEF ReopensOpen, PendingAsked, StoppedIsQuiet
<1> QED
    BY <1>12, <1>14, <1>15, <1>16, <1>17, <1>18 DEF IInv

\* What AnswersFromEditor says of one answer.
Faithful(a) ==
  /\ a.asked[a.uri] # Closed => a.text = a.asked[a.uri]
  /\ a.kind = "rename" /\ a.text \in Specifiers =>
       \A u \in Canonical : a.asked[u] # Closed => (u \in a.changes <=> a.asked[u] = a.text)

\* The server answers a request.
LEMMA ReplyInv ==
  ASSUME IInv, server = "running", inbox # <<>>, inbox' = Tail(inbox), IsRequest(Head(inbox)),
         NEW a \in Reply, IsRequest(a), a.id = Head(inbox).id, a.kind \in Methods => Faithful(a),
         outbox' = Append(outbox, a),
         UNCHANGED <<userVars, server, documents, fresh>>
  PROVE  IInv'
<1>0. /\ TypeOK /\ ReopensOpen /\ SentInOrder /\ AskedInOrder /\ PendingAsked /\ StoppedIsQuiet /\ Diagnosed
      /\ AnswersFromEditor /\ EachAnsweredOnce
    BY DEF IInv
<1>1. UNCHANGED <<disk, config, client, editor, toOpen, pending, shown, events, server, documents, fresh>>
    BY DEF userVars
<1>2. inbox \in Seq(Message) /\ outbox \in Seq(Reply)
    BY <1>0, TypeFacts
<1>3. Head(inbox) \in Message
    BY <1>2, Rest
<1>4. \A w : ~Sets(Head(inbox), w) /\ ~Sets(a, w)
    BY <1>3, MessageFacts, ReplyFacts
<1>5. PICK rest, longer : rest = inbox' /\ longer = outbox'
    OBVIOUS
<1>6. /\ rest \in Seq(Message)
      /\ client = "running" => \A w \in Uris \ toOpen : After(rest, documents, Len(rest), w, editor[w])
      /\ \A i \in 1..Len(rest) :
           rest[i].kind \in Methods => \A w \in Uris : After(rest, documents, i - 1, w, rest[i].asked[w])
  <2>1. \A w \in Uris : documents[w] = IF Sets(Head(inbox), w) THEN Value(Head(inbox)) ELSE documents[w]
      BY <1>4
  <2>2. rest = Tail(inbox)
      BY <1>5
  <2> QED
      BY <2>1, <2>2, Took
<1>7. /\ longer \in Seq(Reply) /\ Len(outbox) \in Nat /\ Len(longer) = Len(outbox) + 1
      /\ longer[Len(outbox) + 1] = a /\ \A i \in 1..Len(outbox) : longer[i] = outbox[i]
    BY <1>2, <1>5, Appended
<1>8. TypeOK'
    BY <1>0, <1>1, <1>5, <1>6, <1>7 DEF TypeOK
<1>9. SentInOrder' /\ AskedInOrder'
    BY <1>1, <1>5, <1>6 DEF SentInOrder, AskedInOrder
<1>10. EachAnsweredOnce'
  <2>1. OnePlace(pending, inbox, outbox)
      BY <1>0, EachInOnePlace
  <2>2. Ids(a) = Ids(Head(inbox))
      BY DEF Ids
  <2>3. OnePlace(pending, rest, longer)
      BY <1>2, <1>5, <2>1, <2>2, Moved
  <2>4. OnePlace(pending', inbox', outbox')
      BY <1>1, <1>5, <2>3
  <2> QED
      BY <2>4 DEF EachAnsweredOnce, OnePlace, Distinct
<1>11. AnswersFromEditor'
  <2>1. \A i \in 1..Len(longer) : i \in 1..Len(outbox) \/ longer[i] = a
      BY <1>7
  <2>2. \A i \in 1..Len(outbox) : outbox[i].kind \in Methods => Faithful(outbox[i])
      BY <1>0 DEF AnswersFromEditor, Faithful
  <2>3. \A i \in 1..Len(longer) : longer[i].kind \in Methods => Faithful(longer[i])
      BY <1>7, <2>1, <2>2
  <2> QED
      BY <1>5, <2>3 DEF AnswersFromEditor, Faithful
<1>12. Diagnosed'
  <2>1. ASSUME NEW w \in Uris, NEW x, After(outbox, shown, Len(outbox), w, x)
        PROVE  After(longer, shown, Len(longer), w, x)
      BY <1>2, <1>4, <1>5, <2>1, AppendSkips
  <2> SUFFICES ASSUME client # "stopped", NEW w \in Uris
               PROVE  /\ documents[w] = Closed => After(longer, shown, Len(longer), w, FALSE)
                      /\ documents[w] # Closed /\ w \in fresh =>
                           After(longer, shown, Len(longer), w, HasErrors(documents[w]))
      BY <1>1, <1>5 DEF Diagnosed, HasErrors, Resolves
  <2>2. PICK x : x = HasErrors(documents[w])
      OBVIOUS
  <2>3. documents[w] = Closed => After(longer, shown, Len(longer), w, FALSE)
      BY <1>0, <2>1 DEF Diagnosed
  <2>4. documents[w] # Closed /\ w \in fresh => After(outbox, shown, Len(outbox), w, x)
      BY <1>0, <2>2 DEF Diagnosed
  <2> QED
      BY <2>1, <2>2, <2>3, <2>4
<1>13. ReopensOpen' /\ PendingAsked' /\ StoppedIsQuiet'
    BY <1>0, <1>1 DEF ReopensOpen, PendingAsked, StoppedIsQuiet
<1> QED
    BY <1>8, <1>9, <1>10, <1>11, <1>12, <1>13 DEF IInv

\* When a request is taken the server has the documents it was asked about.
LEMMA AnswerInv ==
  ASSUME IInv, AnswerDocument \/ AnswerCompletion \/ AnswerHover \/ AnswerRename
  PROVE  IInv'
<1> DEFINE h == Next1
           u == h.uri
           t == Text(u)
<1>0. TypeOK /\ AskedInOrder
    BY DEF IInv
<1>1. PICK changes : changes = IF h.kind = "rename" /\ OnRequire(u) THEN Requiring(t) ELSE {}
    OBVIOUS
<1>2. /\ server = "running" /\ inbox # <<>> /\ inbox' = Tail(inbox) /\ h.kind \in Methods
      /\ t # NoFile /\ Answers(changes)
    BY <1>1 DEF AnswerDocument, AnswerCompletion, AnswerHover, AnswerRename, Takes, Methods
<1>3. inbox \in Seq(Message) /\ documents \in Documents
    BY <1>0, TypeFacts
<1>4. h \in Message /\ h = Head(inbox) /\ h = inbox[1] /\ 1 \in 1..Len(inbox)
    BY <1>2, <1>3, Rest DEF Next1
<1>5. u \in Uris /\ h.id \in 1..MaxEvents /\ h.asked \in Documents
    BY <1>2, <1>4, MessageFacts
<1>6. \A w \in Uris : h.asked[w] = documents[w]
  <2> SUFFICES ASSUME NEW w \in Uris PROVE h.asked[w] = documents[w]
      OBVIOUS
  <2>1. PICK x : x = h.asked[w]
      OBVIOUS
  <2>2. After(inbox, documents, 1 - 1, w, x)
      BY <1>0, <1>2, <1>4, <2>1 DEF AskedInOrder
  <2>3. After(inbox, documents, 0, w, x)
      BY <2>2
  <2> QED
      BY <2>1, <2>3, AfterNone
<1>7. t \in Texts
    BY <1>0, <1>2, <1>3, <1>5 DEF Text, TypeOK, Documents
<1>8. changes \in SUBSET Uris
    BY <1>1 DEF Requiring
<1> DEFINE a == [kind |-> h.kind, uri |-> u, id |-> h.id, asked |-> h.asked, text |-> t, changes |-> changes]
<1>9. outbox' = Append(outbox, a) /\ UNCHANGED <<userVars, server, documents, fresh>>
    BY <1>2 DEF Answers
<1> HIDE DEF h
<1>10. /\ a.kind = h.kind /\ a.uri = u /\ a.id = h.id /\ a.asked = h.asked /\ a.text = t /\ a.changes = changes
    OBVIOUS
<1>11. a \in Reply
    BY <1>2, <1>5, <1>7, <1>8 DEF Reply
<1> HIDE DEF a, u, t
<1>12. Faithful(a)
  <2>1. a.asked[a.uri] # Closed => a.text = a.asked[a.uri]
      BY <1>5, <1>6, <1>10 DEF Text, t
  <2>2. ASSUME a.kind = "rename", a.text \in Specifiers, NEW w \in Canonical, a.asked[w] # Closed
        PROVE  w \in a.changes <=> a.asked[w] = a.text
    <3>1. a.changes = Requiring(t)
        BY <1>1, <1>10, <2>2 DEF OnRequire, t
    <3>2. IndexedText(w) = a.asked[w] /\ w \in Uris
        BY <1>6, <1>10, <2>2, ServerAssumption DEF IndexedText, Text
    <3> QED
        BY <1>10, <3>1, <3>2 DEF Requiring
  <2> QED
      BY <2>1, <2>2 DEF Faithful
<1>13. IsRequest(a) /\ IsRequest(Head(inbox)) /\ a.id = Head(inbox).id
    BY <1>2, <1>4, <1>10 DEF IsRequest
<1> QED
    BY <1>2, <1>9, <1>11, <1>12, <1>13, ReplyInv

LEMMA ShutdownInv == IInv /\ Shutdown => IInv'
<1> SUFFICES ASSUME IInv, Shutdown PROVE IInv'
    OBVIOUS
<1> DEFINE h == Next1
           a == [kind |-> "shutdown", id |-> h.id]
<1>1. /\ server = "running" /\ inbox # <<>> /\ inbox' = Tail(inbox) /\ h.kind = "shutdown"
      /\ outbox' = Append(outbox, a) /\ UNCHANGED <<userVars, server, documents, fresh>>
    BY DEF Shutdown, Takes
<1>2. inbox \in Seq(Message)
    BY TypeFacts DEF IInv
<1>3. h \in Message /\ h = Head(inbox)
    BY <1>1, <1>2, Rest DEF Next1
<1>4. h.id \in 1..MaxEvents
    BY <1>1, <1>3, MessageFacts
<1>5. /\ a \in Reply /\ IsRequest(a) /\ a.id = Head(inbox).id /\ a.kind \notin Methods
    BY <1>3, <1>4 DEF Reply, IsRequest, Methods
<1>6. IsRequest(Head(inbox))
    BY <1>1, <1>3 DEF IsRequest
<1> HIDE DEF a
<1> QED
    BY <1>1, <1>5, <1>6, ReplyInv

\* The server ends.
LEMMA EndInv ==
  ASSUME IInv, Fail \/ Exit
  PROVE  IInv'
<1>0. /\ TypeOK /\ ReopensOpen /\ SentInOrder /\ AskedInOrder /\ PendingAsked /\ StoppedIsQuiet /\ Diagnosed
      /\ AnswersFromEditor
    BY DEF IInv
<1>1. /\ server = "running" /\ inbox # <<>> /\ inbox' = Tail(inbox)
      /\ Next1.kind \in Methods \cup {"exit"}
      /\ server' \in {"failed", "exited"}
      /\ UNCHANGED <<disk, config, client, editor, toOpen, pending, shown, events, documents, outbox, fresh>>
    BY DEF Fail, Exit, Takes, userVars
<1>2. \A w : ~Sets(Head(inbox), w)
    BY <1>1 DEF Sets, Methods, Next1
<1>3. PICK rest : rest = inbox'
    OBVIOUS
<1>4. /\ rest \in Seq(Message)
      /\ client = "running" => \A w \in Uris \ toOpen : After(rest, documents, Len(rest), w, editor[w])
      /\ \A i \in 1..Len(rest) :
           rest[i].kind \in Methods => \A w \in Uris : After(rest, documents, i - 1, w, rest[i].asked[w])
  <2>1. \A w \in Uris : documents[w] = IF Sets(Head(inbox), w) THEN Value(Head(inbox)) ELSE documents[w]
      BY <1>2
  <2>2. rest = Tail(inbox)
      BY <1>1, <1>3
  <2> QED
      BY <1>1, <2>1, <2>2, Took
<1>5. TypeOK'
    BY <1>0, <1>1, <1>3, <1>4 DEF TypeOK
<1>6. SentInOrder' /\ AskedInOrder'
    BY <1>1, <1>3, <1>4 DEF SentInOrder, AskedInOrder
<1>7. ReopensOpen' /\ PendingAsked' /\ StoppedIsQuiet' /\ AnswersFromEditor' /\ EachAnsweredOnce'
    BY <1>0, <1>1 DEF ReopensOpen, PendingAsked, StoppedIsQuiet, AnswersFromEditor, EachAnsweredOnce
<1>8. Diagnosed'
    BY <1>0, <1>1 DEF Diagnosed, HasErrors, Resolves
<1> QED
    BY <1>5, <1>6, <1>7, <1>8 DEF IInv

-----------------------------------------------------------------------------
\* The editor takes a message; of a shutdown's answer it makes an exit.
LEMMA ReceiveInv == IInv /\ Receive => IInv'
<1> SUFFICES ASSUME IInv, Receive PROVE IInv'
    OBVIOUS
<1> DEFINE m == Head(outbox)
           exit == [kind |-> "exit"]
<1>0. /\ TypeOK /\ ReopensOpen /\ SentInOrder /\ AskedInOrder /\ PendingAsked /\ StoppedIsQuiet /\ Diagnosed
      /\ AnswersFromEditor /\ EachAnsweredOnce
    BY DEF IInv
<1>1. /\ client # "stopped" /\ outbox # <<>> /\ outbox' = Tail(outbox)
      /\ UNCHANGED <<disk, config, client, editor, toOpen, server, documents, fresh, events>>
    BY DEF Receive
<1>2. inbox \in Seq(Message) /\ outbox \in Seq(Reply)
    BY <1>0, TypeFacts
<1>3. PICK rest : rest = outbox'
    OBVIOUS
<1>4. /\ rest \in Seq(Reply) /\ Len(rest) \in Nat /\ Len(outbox) = Len(rest) + 1
      /\ m \in Reply /\ m = outbox[1]
      /\ \A j \in 1..Len(rest) : rest[j] = outbox[j + 1]
    BY <1>1, <1>2, <1>3, Rest
<1>5. /\ shown' \in [Uris -> BOOLEAN]
      /\ \A w \in Uris : shown'[w] = IF Sets(m, w) THEN Value(m) ELSE shown[w]
      /\ pending' = pending \ Ids(m)
      /\ inbox' = inbox \/ inbox' = Append(inbox, exit)
  <2>1. CASE m.kind = "diagnostics"
    <3>1. m.uri \in Uris /\ m.errors \in BOOLEAN /\ ~IsRequest(m)
        BY <1>4, <2>1, ReplyFacts
    <3>2. shown' = [shown EXCEPT ![m.uri] = m.errors] /\ UNCHANGED <<pending, inbox>>
        BY <2>1 DEF Receive, Methods
    <3> QED
        BY <1>0, <2>1, <3>1, <3>2 DEF TypeOK, Sets, Value, Ids
  <2>2. CASE m.kind \in Methods \cup {"shutdown"}
    <3>1. IsRequest(m) /\ \A w : ~Sets(m, w)
        BY <1>4, <2>2, ReplyFacts DEF IsRequest
    <3>2. /\ shown' = shown /\ pending' = pending \ {m.id}
          /\ inbox' = inbox \/ inbox' = Append(inbox, exit)
        BY <2>2 DEF Receive, Methods
    <3> QED
        BY <1>0, <3>1, <3>2 DEF TypeOK, Ids
  <2> QED
      BY <1>4, <2>1, <2>2, ReplyFacts
<1> HIDE DEF m
<1>6. exit \in Message /\ ~IsRequest(exit) /\ exit.kind \notin Methods /\ \A w : ~Sets(exit, w)
    BY DEF Message, IsRequest, Methods, Sets
<1> HIDE DEF exit
<1>7. PICK in : in = inbox'
    OBVIOUS
<1>8. /\ in \in Seq(Message)
      /\ client = "running" => \A w \in Uris \ toOpen : After(in, documents, Len(in), w, editor[w])
      /\ \A i \in 1..Len(in) :
           in[i].kind \in Methods => \A w \in Uris : After(in, documents, i - 1, w, in[i].asked[w])
      /\ Waiting(in) = Waiting(inbox)
      /\ Distinct(inbox) => Distinct(in)
  <2>1. CASE in = inbox
      BY <1>0, <1>2, <2>1 DEF SentInOrder, AskedInOrder
  <2>2. CASE in = Append(inbox, exit)
    <3>1. /\ in \in Seq(Message) /\ Len(inbox) \in Nat /\ Len(in) = Len(inbox) + 1
          /\ in[Len(inbox) + 1] = exit /\ \A i \in 1..Len(inbox) : in[i] = inbox[i]
        BY <1>2, <1>6, <2>2, Appended
    <3>2. Waiting(in) = Waiting(inbox) /\ (Distinct(inbox) => Distinct(in))
        BY <1>2, <1>6, <2>2, WaitingAppend DEF Ids
    <3>3. ASSUME client = "running", NEW w \in Uris \ toOpen PROVE After(in, documents, Len(in), w, editor[w])
      <4>1. After(inbox, documents, Len(inbox), w, editor[w])
          BY <1>0, <3>3 DEF SentInOrder
      <4> QED
          BY <1>2, <1>6, <2>2, <4>1, AppendSkips
    <3>4. ASSUME NEW i \in 1..Len(in), in[i].kind \in Methods, NEW w \in Uris
          PROVE  After(in, documents, i - 1, w, in[i].asked[w])
      <4>1. i \in 1..Len(inbox) /\ i \in 1..(Len(inbox) + 1) /\ in[i] = inbox[i]
          BY <1>6, <3>1, <3>4
      <4>2. PICK x : x = in[i].asked[w]
          OBVIOUS
      <4>3. After(inbox, documents, i - 1, w, x)
          BY <1>0, <3>4, <4>1, <4>2 DEF AskedInOrder
      <4>4. After(in, documents, i - 1, w, x)
          BY <1>2, <1>6, <2>2, <4>1, <4>3, AppendKeeps
      <4> QED
          BY <4>2, <4>4
    <3> QED
        BY <3>1, <3>2, <3>3, <3>4
  <2> QED
      BY <1>5, <1>7, <2>1, <2>2
<1>9. TypeOK'
    BY <1>0, <1>1, <1>3, <1>4, <1>5, <1>7, <1>8 DEF TypeOK
<1>10. SentInOrder' /\ AskedInOrder'
    BY <1>1, <1>7, <1>8 DEF SentInOrder, AskedInOrder
<1>11. EachAnsweredOnce'
  <2> SUFFICES ASSUME server' = "running" PROVE OnePlace(pending', inbox', outbox')
      BY DEF EachAnsweredOnce, OnePlace, Distinct
  <2>1. OnePlace(pending, inbox, outbox)
      BY <1>0, <1>1, EachInOnePlace
  <2>2. /\ Waiting(outbox) = Waiting(rest) \cup Ids(m)
        /\ Distinct(rest) /\ Waiting(rest) \cap Ids(m) = {}
      BY <1>1, <1>2, <1>3, <2>1, WaitingTake DEF OnePlace, m
  <2>3. OnePlace(pending \ Ids(m), in, rest)
      BY <1>8, <2>1, <2>2 DEF OnePlace
  <2> QED
      BY <1>3, <1>5, <1>7, <2>3
<1>12. AnswersFromEditor'
  <2>1. \A i \in 1..Len(outbox) : outbox[i].kind \in Methods => Faithful(outbox[i])
      BY <1>0 DEF AnswersFromEditor, Faithful
  <2>2. \A j \in 1..Len(rest) : j + 1 \in 1..Len(outbox)
      BY <1>4
  <2>3. \A j \in 1..Len(rest) : rest[j].kind \in Methods => Faithful(rest[j])
      BY <1>4, <2>1, <2>2
  <2> QED
      BY <1>3, <2>3 DEF AnswersFromEditor, Faithful
<1>13. Diagnosed'
  <2>1. PICK show : show = shown'
      OBVIOUS
  <2>2. ASSUME NEW w \in Uris, NEW x, After(outbox, shown, Len(outbox), w, x)
        PROVE  After(rest, show, Len(rest), w, x)
    <3>1. show[w] = IF Sets(outbox[1], w) THEN Value(outbox[1]) ELSE shown[w]
        BY <1>4, <1>5, <2>1
    <3>2. After(outbox, shown, Len(rest) + 1, w, x)
        BY <1>4, <2>2
    <3> QED
        BY <1>4, <3>1, <3>2, AfterTake
  <2> SUFFICES ASSUME NEW w \in Uris
               PROVE  /\ documents[w] = Closed => After(rest, show, Len(rest), w, FALSE)
                      /\ documents[w] # Closed /\ w \in fresh =>
                           After(rest, show, Len(rest), w, HasErrors(documents[w]))
      BY <1>1, <1>3, <2>1 DEF Diagnosed, HasErrors, Resolves
  <2>3. PICK x : x = HasErrors(documents[w])
      OBVIOUS
  <2>4. documents[w] = Closed => After(rest, show, Len(rest), w, FALSE)
      BY <1>0, <1>1, <2>2 DEF Diagnosed
  <2>5. documents[w] # Closed /\ w \in fresh => After(outbox, shown, Len(outbox), w, x)
      BY <1>0, <1>1, <2>3 DEF Diagnosed
  <2> QED
      BY <2>2, <2>3, <2>4, <2>5
<1>14. ReopensOpen' /\ PendingAsked' /\ StoppedIsQuiet'
    BY <1>0, <1>1, <1>5 DEF ReopensOpen, PendingAsked, StoppedIsQuiet
<1> QED
    BY <1>9, <1>10, <1>11, <1>12, <1>13, <1>14 DEF IInv

\* A file or the config is written: what the server found may be outdated.
LEMMA WriteInv ==
  ASSUME IInv,
         \/ \E u \in Uris, text \in Texts \cup {NoFile} : WriteFile(u, text)
         \/ \E contents \in {"ok", "broken"} : WriteConfig(contents)
  PROVE  IInv'
<1>0. /\ TypeOK /\ ReopensOpen /\ SentInOrder /\ AskedInOrder /\ PendingAsked /\ StoppedIsQuiet /\ Diagnosed
      /\ AnswersFromEditor /\ EachAnsweredOnce
    BY DEF IInv
<1>1. /\ disk' \in [Uris -> Texts \cup {NoFile}] /\ config' \in {"ok", "broken"}
      /\ fresh' = {} /\ events < MaxEvents /\ events' = events + 1
      /\ UNCHANGED <<client, editor, toOpen, pending, shown, inbox, server, documents, outbox>>
    BY <1>0 DEF WriteFile, WriteConfig, Acts, TypeOK, serverVars
<1>2. events \in Nat
    BY <1>0, TypeFacts
<1>3. TypeOK'
  <2>1. events' \in 0..MaxEvents
      BY <1>1, <1>2, ServerAssumption
  <2> QED
      BY <1>0, <1>1, <2>1 DEF TypeOK
<1>4. EachAnsweredOnce'
  <2>1. server' = "running" => OnePlace(pending', inbox', outbox')
      BY <1>0, <1>1, EachInOnePlace
  <2> QED
      BY <2>1 DEF EachAnsweredOnce, OnePlace, Distinct
<1>5. PendingAsked'
    BY <1>0, <1>1, <1>2 DEF PendingAsked
<1>6. ReopensOpen' /\ SentInOrder' /\ AskedInOrder' /\ StoppedIsQuiet' /\ AnswersFromEditor'
    BY <1>0, <1>1 DEF ReopensOpen, SentInOrder, AskedInOrder, StoppedIsQuiet, AnswersFromEditor
<1>7. Diagnosed'
    BY <1>0, <1>1 DEF Diagnosed
<1> QED
    BY <1>3, <1>4, <1>5, <1>6, <1>7 DEF IInv

\* The client notices the end of its server, and starts another one.
LEMMA NoticeInv == IInv /\ Notice => IInv'
<1> SUFFICES ASSUME IInv, Notice PROVE IInv'
    OBVIOUS
<1>0. TypeOK
    BY DEF IInv
<1>1. /\ server # "running" /\ client' = "stopped" /\ toOpen' = {} /\ pending' = {} /\ shown' = NoErrors
      /\ inbox' = <<>> /\ outbox' = <<>>
      /\ UNCHANGED <<disk, config, editor, server, documents, fresh, events>>
    BY DEF Notice
<1>2. Len(<<>>) = 0 /\ \A i \in 1..0 : FALSE
    BY EmptySeq
<1>3. TypeOK'
  <2>1. NoErrors \in [Uris -> BOOLEAN] /\ inbox' \in Seq(Message) /\ outbox' \in Seq(Reply)
      BY <1>1, EmptySeq DEF NoErrors
  <2> QED
      BY <1>0, <1>1, <2>1 DEF TypeOK
<1>4. AskedInOrder' /\ AnswersFromEditor'
    BY <1>1, <1>2 DEF AskedInOrder, AnswersFromEditor
<1> QED
    BY <1>1, <1>3, <1>4 DEF IInv, ReopensOpen, SentInOrder, PendingAsked, StoppedIsQuiet, Diagnosed, EachAnsweredOnce

LEMMA StartInv == IInv /\ Start => IInv'
<1> SUFFICES ASSUME IInv, Start PROVE IInv'
    OBVIOUS
<1>0. TypeOK /\ StoppedIsQuiet
    BY DEF IInv
<1>1. /\ client' = "running" /\ server' = "running" /\ documents' = NoDocuments /\ fresh' = {}
      /\ toOpen' = {u \in Uris : editor[u] # Closed}
      /\ UNCHANGED <<disk, config, editor, pending, shown, inbox, outbox, events>>
      /\ inbox = <<>> /\ outbox = <<>> /\ pending = {} /\ shown = NoErrors
    BY <1>0 DEF Start, StoppedIsQuiet
<1>2. Len(<<>>) = 0 /\ \A i \in 1..0 : FALSE
    BY EmptySeq
<1>3. TypeOK'
  <2>1. NoDocuments \in Documents
      BY DEF NoDocuments, Documents
  <2> QED
      BY <1>0, <1>1, <2>1 DEF TypeOK
<1>4. AskedInOrder' /\ AnswersFromEditor'
    BY <1>1, <1>2 DEF AskedInOrder, AnswersFromEditor
<1>5. SentInOrder' /\ Diagnosed'
  <2>1. ASSUME NEW u \in Uris
        PROVE  /\ NoDocuments[u] = Closed
               /\ After(<<>>, NoDocuments, 0, u, Closed) /\ After(<<>>, NoErrors, 0, u, FALSE)
    <3>1. NoDocuments[u] = Closed /\ NoErrors[u] = FALSE
        BY DEF NoDocuments, NoErrors
    <3>2. After(<<>>, NoDocuments, 0, u, Closed)
        BY <3>1, AfterNone
    <3>3. After(<<>>, NoErrors, 0, u, FALSE)
        BY <3>1, AfterNone
    <3> QED
        BY <3>1, <3>2, <3>3
  <2>2. \A u \in Uris \ toOpen' : editor[u] = Closed
      BY <1>1
  <2> QED
      BY <1>1, <1>2, <2>1, <2>2 DEF SentInOrder, Diagnosed
<1>6. EachAnsweredOnce'
  <2>1. OnePlace(pending', inbox', outbox')
      BY <1>1, NothingWaits
  <2> QED
      BY <2>1 DEF EachAnsweredOnce, OnePlace, Distinct
<1>7. ReopensOpen'
    BY <1>0, <1>1 DEF ReopensOpen, TypeOK, Documents
<1> QED
    BY <1>1, <1>3, <1>4, <1>5, <1>6, <1>7 DEF IInv, PendingAsked, StoppedIsQuiet

-----------------------------------------------------------------------------
\* Each step of the editor and of the user is one of the above.
LEMMA MessageIs ==
  ASSUME NEW u \in Uris
  PROVE  /\ \A t \in Texts, k \in {"didOpen", "didChange"} :
              LET m == [kind |-> k, uri |-> u, text |-> t]
              IN  m \in Message /\ ~IsRequest(m) /\ Sets(m, u) /\ Value(m) = t
         /\ LET m == [kind |-> "didClose", uri |-> u]
            IN  m \in Message /\ ~IsRequest(m) /\ Sets(m, u) /\ Value(m) = Closed
BY DEF Message, IsRequest, Methods, Sets, Value

LEMMA OneEventMore ==
  ASSUME IInv, Acts
  PROVE  events' \in 0..MaxEvents /\ events' \in 1..MaxEvents /\ events' >= events
<1>1. events \in Nat
    BY TypeFacts DEF IInv
<1> QED
    BY <1>1, ServerAssumption DEF Acts

LEMMA OpenInv == ASSUME IInv, NEW u \in Uris, Open(u) PROVE IInv'
<1>1. disk[u] \in Texts /\ editor \in Documents
    BY TypeFacts DEF Open, IInv, TypeOK
<1> DEFINE m == [kind |-> "didOpen", uri |-> u, text |-> disk[u]]
<1>2. /\ Tells(m) /\ editor' = [editor EXCEPT ![u] = disk[u]] /\ toOpen' = toOpen \ {u}
      /\ UNCHANGED <<disk, config, client, pending, shown, serverVars, fresh>> /\ Acts
    BY DEF Open
<1>3. editor' \in Documents /\ editor'[u] = disk[u] /\ \A w \in Uris : w # u => editor'[w] = editor[w]
    BY <1>1, <1>2 DEF Documents
<1>4. m \in Message /\ ~IsRequest(m) /\ Sets(m, u) /\ Value(m) = disk[u]
    BY <1>1, MessageIs
<1> HIDE DEF m
<1> QED
    BY <1>2, <1>3, <1>4, OneEventMore, EditorSends

LEMMA EditInv == ASSUME IInv, NEW u \in Uris, NEW text \in Texts, Edit(u, text) PROVE IInv'
<1>1. editor \in Documents
    BY TypeFacts DEF IInv
<1> DEFINE m == [kind |-> "didChange", uri |-> u, text |-> text]
<1>2. /\ Tells(m) /\ editor' = [editor EXCEPT ![u] = text] /\ toOpen' = toOpen \ {u}
      /\ UNCHANGED <<disk, config, client, pending, shown, serverVars, fresh>> /\ Acts
    BY DEF Edit
<1>3. editor' \in Documents /\ editor'[u] = text /\ \A w \in Uris : w # u => editor'[w] = editor[w]
    BY <1>1, <1>2 DEF Documents
<1>4. m \in Message /\ ~IsRequest(m) /\ Sets(m, u) /\ Value(m) = text
    BY MessageIs
<1> HIDE DEF m
<1> QED
    BY <1>2, <1>3, <1>4, OneEventMore, EditorSends

LEMMA CloseInv == ASSUME IInv, NEW u \in Uris, Close(u) PROVE IInv'
<1>1. editor \in Documents
    BY TypeFacts DEF IInv
<1> DEFINE m == [kind |-> "didClose", uri |-> u]
<1>2. /\ Tells(m) /\ editor' = [editor EXCEPT ![u] = Closed] /\ toOpen' = toOpen \ {u}
      /\ UNCHANGED <<disk, config, client, pending, shown, serverVars, fresh>> /\ Acts
    BY DEF Close
<1>3. editor' \in Documents /\ editor'[u] = Closed /\ \A w \in Uris : w # u => editor'[w] = editor[w]
    BY <1>1, <1>2 DEF Documents
<1>4. m \in Message /\ ~IsRequest(m) /\ Sets(m, u) /\ Value(m) = Closed
    BY MessageIs
<1> HIDE DEF m
<1> QED
    BY <1>2, <1>3, <1>4, OneEventMore, EditorSends

LEMMA ReopenInv == ASSUME IInv, NEW u \in Uris, Reopen(u) PROVE IInv'
<1>1. editor \in Documents /\ events \in 0..MaxEvents /\ events \in Nat
    BY TypeFacts DEF IInv, TypeOK
<1> DEFINE m == [kind |-> "didOpen", uri |-> u, text |-> editor[u]]
<1>2. /\ Tells(m) /\ editor' = editor /\ toOpen' = toOpen \ {u} /\ events' = events
      /\ UNCHANGED <<disk, config, client, pending, shown, serverVars, fresh>>
    BY DEF Reopen
<1>3. editor[u] \in Texts
    BY DEF Reopen, IInv, ReopensOpen
<1>4. m \in Message /\ ~IsRequest(m) /\ Sets(m, u) /\ Value(m) = editor[u]
    BY <1>3, MessageIs
<1>5. events' \in 0..MaxEvents /\ events' >= events
    BY <1>1, <1>2
<1>6. Value(m) = editor'[u] /\ editor' \in Documents /\ \A w \in Uris : w # u => editor'[w] = editor[w]
    BY <1>1, <1>2, <1>4
<1> HIDE DEF m
<1> QED
    BY <1>2, <1>4, <1>5, <1>6, EditorSends

LEMMA AskInv == ASSUME IInv, NEW method \in Methods, NEW u \in Uris, Ask(method, u) PROVE IInv'
<1> DEFINE m == [kind |-> method, uri |-> u, id |-> events', asked |-> editor]
<1>1. editor \in Documents /\ events' \in 1..MaxEvents
    BY TypeFacts, OneEventMore DEF IInv, Ask
<1>2. /\ events < MaxEvents /\ events' = events + 1 /\ Connected /\ client = "running" /\ client' = client
      /\ pending' = pending \cup {events'} /\ inbox' = Append(inbox, m)
      /\ UNCHANGED <<disk, config, editor, toOpen, shown, serverVars, fresh>>
    BY DEF Ask, Acts, Connected
<1>3. m \in Message /\ IsRequest(m) /\ m.id = events' /\ m.asked = editor
    BY <1>1 DEF Message, IsRequest
<1> HIDE DEF m
<1> QED
    BY <1>2, <1>3, EditorAsks

LEMMA StopInv == IInv /\ Stop => IInv'
<1> SUFFICES ASSUME IInv, Stop PROVE IInv'
    OBVIOUS
<1> DEFINE m == [kind |-> "shutdown", id |-> events']
<1>1. events' \in 1..MaxEvents
    BY OneEventMore DEF Stop
<1>2. /\ events < MaxEvents /\ events' = events + 1 /\ client = "running" /\ client' = "stopping"
      /\ pending' = pending \cup {events'} /\ inbox' = Append(inbox, m)
      /\ UNCHANGED <<disk, config, editor, toOpen, shown, serverVars, fresh>>
    BY DEF Stop, Acts, Connected
<1>3. m \in Message /\ IsRequest(m) /\ m.id = events' /\ m.kind \notin Methods
    BY <1>1 DEF Message, IsRequest, Methods
<1> HIDE DEF m
<1> QED
    BY <1>2, <1>3, EditorAsks

LEMMA StutterInv == IInv /\ UNCHANGED vars => IInv'
<1> SUFFICES ASSUME IInv, UNCHANGED vars PROVE IInv'
    OBVIOUS
<1>0. UNCHANGED <<disk, config, client, editor, toOpen, pending, shown, inbox, server, documents, outbox, fresh, events>>
    BY DEF vars
<1>1. TypeOK'
    BY <1>0 DEF IInv, TypeOK
<1>2. EachAnsweredOnce'
  <2>1. server' = "running" => OnePlace(pending', inbox', outbox')
      BY <1>0, EachInOnePlace DEF IInv
  <2> QED
      BY <2>1 DEF EachAnsweredOnce, OnePlace, Distinct
<1>3. ReopensOpen' /\ SentInOrder' /\ AskedInOrder' /\ PendingAsked' /\ StoppedIsQuiet' /\ AnswersFromEditor'
    BY <1>0 DEF IInv, ReopensOpen, SentInOrder, AskedInOrder, PendingAsked, StoppedIsQuiet, AnswersFromEditor
<1>4. Diagnosed'
    BY <1>0 DEF IInv, Diagnosed, HasErrors, Resolves
<1> QED
    BY <1>1, <1>2, <1>3, <1>4 DEF IInv

LEMMA NextInv == IInv /\ [Next]_vars => IInv'
<1> SUFFICES ASSUME IInv, [Next]_vars PROVE IInv'
    OBVIOUS
<1>1. CASE Serve
    BY <1>1, PublishInv, AnswerInv, ShutdownInv, EndInv DEF Serve
<1>2. CASE Editor
    BY <1>2, ReceiveInv, NoticeInv, StartInv, ReopenInv DEF Editor
<1>3. CASE User
    BY <1>3, OpenInv, CloseInv, EditInv, AskInv, StopInv, WriteInv DEF User
<1>4. CASE UNCHANGED vars
    BY <1>4, StutterInv
<1> QED
    BY <1>1, <1>2, <1>3, <1>4 DEF Next

LEMMA Invariant == Spec => []IInv
BY InitInv, NextInv, PTL DEF Spec

-----------------------------------------------------------------------------
(* Documents, messages and requests keep their types.                       *)
THEOREM TypeCorrect == Spec => []TypeOK
<1>1. IInv => TypeOK
    BY DEF IInv
<1> QED
    BY <1>1, Invariant, PTL

(* An answer is made from what the user saw when asking, however much was   *)
(* typed before the server took the request.                                *)
THEOREM SafeAnswersFromEditor == Spec => []AnswersFromEditor
<1>1. IInv => AnswersFromEditor
    BY DEF IInv
<1> QED
    BY <1>1, Invariant, PTL

(* A request without an answer is in exactly one queue, and only once.      *)
THEOREM SafeEachAnsweredOnce == Spec => []EachAnsweredOnce
<1>1. IInv => EachAnsweredOnce
    BY DEF IInv
<1> QED
    BY <1>1, Invariant, PTL

(* When nothing is under way the editor shows the errors of what the user   *)
(* sees, also after the server was restarted.                               *)
THEOREM SafeDiagnosticsCurrent == Spec => []DiagnosticsCurrent
<1>1. IInv => DiagnosticsCurrent
  <2> SUFFICES ASSUME IInv, AtRest, NEW u \in Uris
               PROVE  /\ editor[u] = Closed => ~shown[u]
                      /\ editor[u] # Closed /\ u \in fresh => shown[u] = HasErrors(editor[u])
      BY DEF DiagnosticsCurrent
  <2>0. client = "running" /\ toOpen = {} /\ inbox = <<>> /\ outbox = <<>>
      BY DEF AtRest, Connected
  <2>1. Len(inbox) = 0 /\ Len(outbox) = 0
      BY <2>0, EmptySeq
  <2>2. PICK x : x = editor[u]
      OBVIOUS
  <2>3. After(inbox, documents, 0, u, x)
      BY <2>0, <2>1, <2>2 DEF IInv, SentInOrder
  <2>4. editor[u] = documents[u]
      BY <2>2, <2>3, AfterNone
  <2>5. documents[u] = Closed => After(outbox, shown, 0, u, FALSE)
      BY <2>0, <2>1 DEF IInv, Diagnosed
  <2>6. PICK y : y = HasErrors(documents[u])
      OBVIOUS
  <2>7. documents[u] # Closed /\ u \in fresh => After(outbox, shown, 0, u, y)
      BY <2>0, <2>1, <2>6 DEF IInv, Diagnosed
  <2>8. documents[u] = Closed => shown[u] = FALSE
      BY <2>5, AfterNone
  <2>9. documents[u] # Closed /\ u \in fresh => shown[u] = y
      BY <2>7, AfterNone
  <2> QED
      BY <2>4, <2>6, <2>8, <2>9
<1> QED
    BY <1>1, Invariant, PTL

=============================================================================
