-------------------------- MODULE HttpServer_proofs --------------------------
(***************************************************************************)
(* For any number of connections, slots and room: the slots in use are the *)
(* open sockets, a frame goes to who asked for it, and a client sees whole *)
(* answers only.                                                           *)
(***************************************************************************)
EXTENDS HttpServer, FiniteSetTheorems, SequenceTheorems, WellFoundedInduction, TLAPS

Viewer == [fd: Fds, client: Clients]
Pieces == {"boundary", "length", "jpeg"}

\* Every slot but the listener's has a socket of its own, every socket a slot.
Slotted ==
    Up => /\ \A k, l \in 1 .. count - 1 : fds[k].fd = fds[l].fd => k = l
          /\ \A k \in 1 .. count - 1 : owner[fds[k].fd] # NoClient
          /\ \A f \in Fds : owner[f] # NoClient => \E k \in 1 .. count - 1 : fds[k].fd = f

\* A client has one socket, while its connection is open.
Owned ==
    /\ \A f, g \in Fds : owner[f] = owner[g] /\ owner[f] # NoClient => f = g
    /\ \A c \in Clients : link[c] = "open" <=> \E f \in Fds : owner[f] = c

\* The thread's cleanup leaves no socket; without one it ends with its sockets.
Closed == ~Up /\ \A f \in Fds : owner[f] = NoClient
Cleaned == pc = "clear" => Closed

\* Who is in the list has its socket; who leaves has left the list before.  Of a
\* descriptor that was entered twice nothing is known.
Entered ==
    ~Closed =>
        /\ \A j \in 1 .. Len(viewers) :
               viewers[j].fd \notin doubled => owner[viewers[j].fd] = viewers[j].client
        /\ \A j, h \in 1 .. Len(viewers) :
               viewers[j].fd = viewers[h].fd /\ viewers[j].fd \notin doubled => j = h

AtWork ==
    /\ pc \in {"enlist", "enlist failed", "drop", "close"} => slot \in 1 .. count - 1
    /\ pc = "close" => \A j \in 1 .. Len(viewers) :
                          viewers[j].fd = fds[slot].fd => viewers[j].fd \in doubled
    /\ pc \in {"enlist", "enlist failed"} =>
           \/ ClientOf(slot) \in again \/ fds[slot].fd \in doubled
           \/ /\ \A j \in 1 .. Len(viewers) : viewers[j].fd # fds[slot].fd
              /\ request[ClientOf(slot)] = "streaming"
              /\ got[ClientOf(slot)] = "header" \/ ClientOf(slot) \in gone

\* The frame in progress goes to the end of the list, from here on.
Here == Len(viewers) - Len(rest) + 1
Walks ==
    sending \in Pieces =>
        /\ lock = "mjpeg" /\ Len(rest) \in 1 .. Len(viewers)
        /\ \A i \in 1 .. Len(rest) : rest[i] = viewers[Len(viewers) - Len(rest) + i]

\* Before it is answered a client that asks once was sent nothing, unless its
\* socket is closed or was entered twice.
Fresh == {"unsent", "page", "stream"}
Excused(c) == c \in again \/ link[c] = "closed" \/ OnDoubled(c)
Answered ==
    \A c \in Clients : /\ request[c] \in Fresh => got[c] = "nothing" \/ Excused(c)
                       /\ c \in gone => got[c] = "nothing"

\* What a viewer was sent last: of a frame, if it is the one that is sent to.
Last(j) == IF sending = "length" /\ j = Here THEN {"boundary"}
           ELSE IF sending = "jpeg" /\ j = Here THEN {"length"} ELSE {"header", "jpeg"}
Watched ==
    ~Closed => \A j \in 1 .. Len(viewers) :
                   viewers[j].fd \notin doubled /\ viewers[j].client \notin again =>
                       /\ request[viewers[j].client] = "streaming"
                       /\ viewers[j].client \in gone \/ got[viewers[j].client] \in Last(j)

IInv == TypeOK /\ Slotted /\ Owned /\ Cleaned /\ Entered /\ AtWork /\ Walks /\ Answered /\ Watched

-----------------------------------------------------------------------------
(* Types, the lowest descriptor and the list *)

LEMMA Types ==
    ASSUME TypeOK
    PROVE  /\ Slots \in Nat \ {0} /\ count \in 1 .. Slots /\ 1 .. count - 1 \subseteq 0 .. Slots - 1
           /\ \A k \in 0 .. Slots - 1 : fds[k] \in [fd: Fds, ready: BOOLEAN] /\ fds[k].fd \in Fds
           /\ \A f \in Fds : owner[f] \in Clients \cup {NoClient}
           /\ NoClient \notin Clients /\ Len(viewers) \in Nat /\ Len(rest) \in Nat
           /\ \A j \in 1 .. Len(viewers) : viewers[j].fd \in Fds /\ viewers[j].client \in Clients
           /\ \A j \in 1 .. Len(rest) : rest[j].fd \in Fds /\ rest[j].client \in Clients
<1>1. Slots \in Nat \ {0} /\ count \in 1 .. Slots /\ MaxClients \in Nat
    BY HttpServerConstants DEF TypeOK
<1>2. 1 .. count - 1 \subseteq 0 .. Slots - 1
    BY <1>1
<1>3. \A k \in 0 .. Slots - 1 : fds[k] \in [fd: Fds, ready: BOOLEAN] /\ fds[k].fd \in Fds
    BY DEF TypeOK
<1>4. (\A f \in Fds : owner[f] \in Clients \cup {NoClient}) /\ NoClient \notin Clients
    <2>1. \A f \in Fds : owner[f] \in Clients \cup {NoClient}
        BY DEF TypeOK
    <2>2. NoClient \notin Clients
        BY <1>1 DEF Clients, NoClient
    <2> QED BY <2>1, <2>2
<1>5. viewers \in Seq(Viewer) /\ rest \in Seq(Viewer)
    BY DEF TypeOK, Viewer
<1>6. /\ \A j \in 1 .. Len(viewers) : viewers[j] \in Viewer
      /\ \A j \in 1 .. Len(rest) : rest[j] \in Viewer
      /\ Len(viewers) \in Nat /\ Len(rest) \in Nat
    BY <1>5
<1>7. \A v \in Viewer : v.fd \in Fds /\ v.client \in Clients
    BY DEF Viewer
<1> QED BY <1>1, <1>2, <1>3, <1>4, <1>6, <1>7

\* A set of numbers has a least one.
LEMMA LeastNumber ==
    ASSUME NEW T \in SUBSET Nat, T # {}
    PROVE  \E x \in T : \A y \in T : x <= y
<1> DEFINE less == OpToRel(<, Nat)
<1>1. IsWellFoundedOn(less, Nat)
    BY NatLessThanWellFounded
<1>2. \A x, y \in Nat : y < x => <<y, x>> \in less
    BY DEF OpToRel
<1> HIDE DEF less
<1>3. PICK x \in T : \A y \in T : ~ (<<y, x>> \in less)
    BY <1>1, WFMin
<1>4. ASSUME NEW y \in T PROVE x <= y
    <2>1. x \in Nat /\ y \in Nat
        OBVIOUS
    <2>2. ~(y < x)
        BY <1>2, <1>3, <2>1
    <2> QED BY <2>1, <2>2
<1> QED BY <1>4

\* While a slot is free a descriptor is, as each socket has a slot.
LEMMA FreeDescriptor ==
    ASSUME TypeOK, Slotted, Up, count < Slots
    PROVE  LowestFree \in Fds \ {0} /\ owner[LowestFree] = NoClient
<1> DEFINE taken == {f \in 1 .. Slots : owner[f] # NoClient}
           unused == {f \in 1 .. Slots : owner[f] = NoClient}
<1>1. Slots \in Nat \ {0} /\ count \in 1 .. Slots /\ 1 .. Slots \subseteq Fds /\ Fds \ {0} = 1 .. Slots
    BY Types DEF Fds
<1>2. unused # {}
    <2> SUFFICES ASSUME unused = {} PROVE FALSE
        OBVIOUS
    <2>1. \A f \in 1 .. Slots : \E k \in 1 .. count - 1 : fds[k].fd = f
        BY <1>1 DEF Slotted
    <2> DEFINE SlotOf == [f \in 1 .. Slots |-> CHOOSE k \in 1 .. count - 1 : fds[k].fd = f]
    <2>2. SlotOf \in [1 .. Slots -> 1 .. count - 1] /\ \A f \in 1 .. Slots : fds[SlotOf[f]].fd = f
        BY <2>1
    <2>3. /\ IsFiniteSet(1 .. Slots) /\ Cardinality(1 .. Slots) = Slots
          /\ IsFiniteSet(1 .. count - 1) /\ Cardinality(1 .. count - 1) = count - 1
        BY <1>1, FS_Interval
    <2> HIDE DEF SlotOf
    <2> DEFINE S == 1 .. Slots
               T == 1 .. count - 1
    <2>4. \E x, y \in S : x # y /\ SlotOf[x] = SlotOf[y]
        <3>1. IsFiniteSet(S) /\ IsFiniteSet(T) /\ Cardinality(T) < Cardinality(S) /\ SlotOf \in [S -> T]
            BY <1>1, <2>2, <2>3
        <3> HIDE DEF S, T
        <3> QED BY <3>1, FS_PigeonHole
    <2> QED BY <2>2, <2>4
<1>3. unused \subseteq Nat
    BY <1>1
<1>4. PICK f \in unused : \A g \in unused : f <= g
    BY <1>2, <1>3, LeastNumber
<1>5. f \in Fds \ {0} /\ owner[f] = NoClient
    BY <1>1
<1>6. \A g \in 1 .. f - 1 : owner[g] # NoClient
    <2> SUFFICES ASSUME NEW g \in 1 .. f - 1, owner[g] = NoClient PROVE FALSE
        OBVIOUS
    <2>1. f \in 1 .. Slots /\ g \in 1 .. Slots /\ g < f
        BY <1>1
    <2>2. g \in unused
        BY <2>1
    <2> QED BY <1>4, <2>1, <2>2
<1>7. \E h \in Fds \ {0} : owner[h] = NoClient /\ \A g \in 1 .. h - 1 : owner[g] # NoClient
    BY <1>5, <1>6
<1> QED BY <1>7 DEF LowestFree

\* What is removed from a list is gone from it, the rest stays: but for the
\* descriptors that may be in it twice.
LEMMA ForgetViewer ==
    ASSUME NEW s \in Seq(Viewer), NEW fd,
           \A j, h \in 1 .. Len(s) : s[j].fd = s[h].fd /\ s[j].fd \notin doubled => j = h
    PROVE  LET t == Forget(s, fd)
           IN  /\ t \in Seq(Viewer)
               /\ \A i \in 1 .. Len(t) : /\ t[i].fd = fd => fd \in doubled
                                         /\ \E j \in 1 .. Len(s) : t[i] = s[j]
               /\ \A i, h \in 1 .. Len(t) : t[i].fd = t[h].fd /\ t[i].fd \notin doubled => i = h
<1> DEFINE t == Forget(s, fd)
<1>1. DOMAIN s = 1 .. Len(s) /\ Len(s) \in Nat /\ \A i \in 1 .. Len(s) : s[i] \in Viewer
    OBVIOUS
<1>2. CASE ~ \E j \in DOMAIN s : s[j].fd = fd
    <2>1. t = s
        BY <1>2 DEF Forget, Listed
    <2>2. \A j \in 1 .. Len(s) : s[j].fd # fd
        BY <1>1, <1>2
    <2> HIDE DEF t
    <2> QED BY <1>1, <2>1, <2>2 DEF t
<1>3. CASE \E j \in DOMAIN s : s[j].fd = fd
    <2> DEFINE first == CHOOSE j \in DOMAIN s : s[j].fd = fd /\ \A h \in 1 .. j - 1 : s[h].fd # fd
               n == Len(s)
    <2> DEFINE places == {h \in 1 .. n : s[h].fd = fd}
    <2>1. PICK j \in places : \A h \in places : j <= h
        <3>1. places \subseteq Nat /\ places # {}
            BY <1>1, <1>3
        <3> HIDE DEF places
        <3> QED BY <3>1, LeastNumber
    <2>2. \A h \in 1 .. j - 1 : s[h].fd # fd
        <3> SUFFICES ASSUME NEW h \in 1 .. j - 1, s[h].fd = fd PROVE FALSE
            OBVIOUS
        <3>1. h \in places /\ h < j
            BY <1>1
        <3> QED BY <1>1, <2>1, <3>1
    <2>3. first \in 1 .. n /\ s[first].fd = fd
        BY <1>1, <2>1, <2>2
    <2>4. t = SubSeq(s, 1, first - 1) \o SubSeq(s, first + 1, n)
        BY <1>3 DEF Forget, Listed
    <2> DEFINE a == SubSeq(s, 1, first - 1)
               b == SubSeq(s, first + 1, n)
    <2>5. n \in Nat /\ first \in Int
        BY <1>1, <2>3
    <2> HIDE DEF first, n, t
    <2>6. /\ a \in Seq(Viewer) /\ Len(a) = first - 1
          /\ \A i \in 1 .. first - 1 : a[i] = s[i]
        <3>1. \A i \in 1 .. first - 1 : s[i] \in Viewer
            BY <1>1, <2>3, <2>5 DEF n
        <3>2. /\ a \in Seq(Viewer) /\ Len(a) = IF 1 <= first - 1 THEN (first - 1) - 1 + 1 ELSE 0
              /\ \A i \in 1 .. (first - 1) - 1 + 1 : a[i] = s[1 + i - 1]
            BY <2>5, <3>1, SubSeqProperties
        <3> QED BY <2>3, <2>5, <3>2
    <2>7. /\ b \in Seq(Viewer) /\ Len(b) = n - first
          /\ \A i \in 1 .. n - first : b[i] = s[first + i]
        <3>1. \A i \in first + 1 .. n : s[i] \in Viewer
            BY <1>1, <2>3, <2>5 DEF n
        <3>2. /\ b \in Seq(Viewer) /\ Len(b) = IF first + 1 <= n THEN n - (first + 1) + 1 ELSE 0
              /\ \A i \in 1 .. n - (first + 1) + 1 : b[i] = s[(first + 1) + i - 1]
            BY <2>5, <3>1, SubSeqProperties
        <3>3. Len(b) = n - first /\ n - (first + 1) + 1 = n - first
            BY <2>3, <2>5, <3>2
        <3>4. \A i \in 1 .. n - first : (first + 1) + i - 1 = first + i
            BY <2>5
        <3> QED BY <3>2, <3>3, <3>4
    <2> HIDE DEF a, b
    <2>8. /\ t \in Seq(Viewer) /\ Len(t) = n - 1
          /\ \A i \in 1 .. n - 1 : t[i] = IF i < first THEN s[i] ELSE s[i + 1]
        <3>1. t = a \o b
            BY <2>4 DEF a, b
        <3>2. /\ t \in Seq(Viewer) /\ Len(t) = Len(a) + Len(b)
              /\ \A i \in 1 .. Len(a) + Len(b) : t[i] = IF i <= Len(a) THEN a[i] ELSE b[i - Len(a)]
            <4>1. a \in Seq(Viewer) /\ b \in Seq(Viewer)
                BY <2>6, <2>7
            <4>2. /\ a \o b \in Seq(Viewer) /\ Len(a \o b) = Len(a) + Len(b)
                  /\ \A i \in 1 .. Len(a) + Len(b) :
                        (a \o b)[i] = IF i <= Len(a) THEN a[i] ELSE b[i - Len(a)]
                BY <4>1, ConcatProperties
            <4> QED BY <3>1, <4>2
        <3>3. Len(t) = n - 1
            BY <2>3, <2>5, <2>6, <2>7, <3>2
        <3>4. ASSUME NEW i \in 1 .. n - 1 PROVE t[i] = IF i < first THEN s[i] ELSE s[i + 1]
            <4>1. t[i] = IF i <= first - 1 THEN a[i] ELSE b[i - (first - 1)]
                BY <2>3, <2>5, <2>6, <2>7, <3>2
            <4>2. CASE i < first
                BY <2>3, <2>5, <2>6, <4>1, <4>2
            <4>3. CASE ~(i < first)
                <5>1. i - (first - 1) \in 1 .. n - first /\ first + (i - (first - 1)) = i + 1
                    BY <2>3, <2>5, <4>3
                <5> QED BY <2>3, <2>5, <2>7, <4>1, <4>3, <5>1
            <4> QED BY <4>2, <4>3
        <3> QED BY <3>2, <3>3, <3>4
    <2> DEFINE from(i) == IF i < first THEN i ELSE i + 1
    <2>9. \A i \in 1 .. n - 1 : from(i) \in 1 .. n /\ from(i) # first /\ t[i] = s[from(i)]
        BY <2>3, <2>5, <2>8
    <2>10. \A i, h \in 1 .. n - 1 : from(i) = from(h) => i = h
        BY <2>3, <2>5
    <2> HIDE DEF from
    <2>11. \A i \in 1 .. n : s[i].fd = fd /\ fd \notin doubled => i = first
        BY <2>3 DEF n
    <2>12. \A i \in 1 .. Len(t) : /\ t[i].fd = fd => fd \in doubled
                                  /\ \E k \in 1 .. n : t[i] = s[k]
        BY <2>8, <2>9, <2>11
    <2>13. \A i, h \in 1 .. Len(t) : t[i].fd = t[h].fd /\ t[i].fd \notin doubled => i = h
        <3> SUFFICES ASSUME NEW i \in 1 .. n - 1, NEW h \in 1 .. n - 1,
                            t[i].fd = t[h].fd, t[i].fd \notin doubled
                     PROVE  i = h
            BY <2>8
        <3>1. /\ s[from(i)].fd = s[from(h)].fd /\ s[from(i)].fd \notin doubled
              /\ from(i) \in 1 .. n /\ from(h) \in 1 .. n
            BY <2>9
        <3>2. from(i) = from(h)
            BY <3>1 DEF n
        <3> QED BY <2>10, <3>2
    <2> QED BY <2>8, <2>12, <2>13 DEF n, t
<1> QED BY <1>2, <1>3

-----------------------------------------------------------------------------
(* Steps that leave the sockets and the list alone *)

Quiet == {"idle", "boundary", "astray"}

LEMMA Elsewhere ==
    ASSUME IInv, TypeOK', AtWork', Walks', UNCHANGED <<clients, owner, fds, count, streams>>,
           Up' => Up, pc' = "clear" => pc = "clear",
           UNCHANGED <<sending, rest>> \/ {sending, sending'} \subseteq Quiet
    PROVE  IInv'
<1> USE DEF clients, asking, streams
<1>1. Slotted'
    BY DEF IInv, Slotted
<1>2. Owned' /\ Answered'
    BY DEF IInv, Owned, Answered, Excused, OnDoubled
<1>3. Cleaned' /\ (Closed => Closed')
    BY DEF IInv, Cleaned, Closed
<1>4. Entered'
    BY <1>3 DEF IInv, Entered
<1>5. \A j : Last(j)' = Last(j)
    BY DEF Last, Here, Quiet
<1>6. Watched'
    BY <1>3, <1>5 DEF IInv, Watched
<1> QED BY <1>1, <1>2, <1>3, <1>4, <1>6 DEF IInv

\* The HTTP thread looks at its slots, or is told to end.
LEMMA LookStep ==
    ASSUME IInv, \/ AcceptFails \/ EndPass \/ Cancelled
                 \/ \E k \in 1 .. Slots - 1 : RecvEnd(k) \/ PageCannotBeOpened(k)
    PROVE  IInv'
<1> USE DEF clients, asking, streams, polling, mjpeg
<1>1. TypeOK
    BY DEF IInv
<1>2. CASE AcceptFails
    <2>1. TypeOK'
        <3>1. failures' \in 0 .. MaxFailures
            <4>1. failures \in 0 .. MaxFailures /\ MaxFailures \in Nat
                BY <1>1, HttpServerConstants DEF TypeOK
            <4>2. failures < MaxFailures /\ failures' = failures + 1
                BY <1>2 DEF AcceptFails
            <4> QED BY <4>1, <4>2
        <3>2. pc' \in {"poll", "ended"}
            BY <1>2 DEF AcceptFails, NextPass
        <3> QED BY <1>1, <1>2, <3>1, <3>2 DEF TypeOK, AcceptFails
    <2>2. AtWork' /\ Walks'
        BY <1>2 DEF IInv, AtWork, Walks, AcceptFails, NextPass
    <2>3. (Up' => Up) /\ pc' # "clear"
        BY <1>2 DEF AcceptFails, NextPass, AtSlot, Up
    <2> QED BY <1>2, <2>1, <2>2, <2>3, Elsewhere DEF AcceptFails
<1>3. CASE EndPass
    <2>1. TypeOK'
        BY <1>1, <1>3 DEF TypeOK, EndPass, NextPass
    <2>2. AtWork' /\ Walks'
        BY <1>3 DEF IInv, AtWork, Walks, EndPass, NextPass
    <2>3. (Up' => Up) /\ pc' # "clear"
        BY <1>3 DEF EndPass, NextPass, Up
    <2> QED BY <1>3, <2>1, <2>2, <2>3, Elsewhere DEF EndPass
<1>4. ASSUME NEW k \in 1 .. Slots - 1, RecvEnd(k) PROVE IInv'
    <2>1. k \in 1 .. count - 1 /\ slot' = k /\ pc' = "drop" /\ pc = "scan"
        BY <1>1, <1>4, Types DEF RecvEnd, AtSlot, TypeOK
    <2>2. TypeOK'
        BY <1>1, <1>4, <2>1, Types DEF TypeOK, RecvEnd
    <2>3. AtWork' /\ Walks'
        BY <1>4, <2>1 DEF IInv, AtWork, Walks, RecvEnd
    <2> QED BY <1>4, <2>1, <2>2, <2>3, Elsewhere DEF RecvEnd, Up
<1>5. CASE Cancelled
    <2>1. TypeOK'
        BY <1>1, <1>5 DEF TypeOK, Cancelled
    <2>2. AtWork' /\ Walks'
        BY <1>5 DEF IInv, AtWork, Walks, Cancelled
    <2> QED BY <1>5, <2>1, <2>2, Elsewhere DEF Cancelled, Up
<1>6. ASSUME NEW k \in 1 .. Slots - 1, PageCannotBeOpened(k) PROVE IInv'
    <2>1. TypeOK'
        <3>1. failures \in 0 .. MaxFailures /\ MaxFailures \in Nat
            BY <1>1, HttpServerConstants DEF TypeOK
        <3>2. failures < MaxFailures /\ failures' = failures + 1 /\ main' = "killed"
            BY <1>6 DEF PageCannotBeOpened
        <3>3. failures' \in 0 .. MaxFailures
            BY <3>1, <3>2
        <3> QED BY <1>1, <1>6, <3>2, <3>3 DEF TypeOK, PageCannotBeOpened
    <2>2. AtWork' /\ Walks'
        BY <1>6 DEF IInv, AtWork, Walks, PageCannotBeOpened, ClientOf
    <2> QED BY <1>6, <2>1, <2>2, Elsewhere DEF PageCannotBeOpened, Up
<1> QED BY <1>2, <1>3, <1>4, <1>5, <1>6

\* The list is freed, the main thread goes on, a frame is begun.
LEMMA OtherStep ==
    ASSUME IInv, ClearConnections \/ FrameDue \/ FrameDueAfterFree \/ Astray \/ Signal \/ Main
    PROVE  IInv'
<1> USE DEF clients, asking, streams, polling, mjpeg
<1>1. TypeOK
    BY DEF IInv
<1>2. CASE ClearConnections
    <2>1. TypeOK'
        BY <1>1, <1>2 DEF TypeOK, ClearConnections
    <2>2. AtWork' /\ Walks'
        BY <1>2 DEF IInv, AtWork, Walks, ClearConnections
    <2> QED BY <1>2, <2>1, <2>2, Elsewhere DEF ClearConnections, Up
<1>3. CASE FrameDue
    <2>1. TypeOK'
        BY <1>1, <1>3 DEF TypeOK, FrameDue
    <2>2. AtWork'
        BY <1>3 DEF IInv, AtWork, FrameDue, ClientOf
    <2>3. Walks'
        <3>1. viewers \in Seq(Viewer) /\ viewers # <<>> /\ rest' = viewers /\ viewers' = viewers
            BY <1>1, <1>3 DEF TypeOK, Viewer, FrameDue
        <3>2. Len(viewers) \in Nat /\ Len(viewers) > 0
            BY <3>1
        <3>3. \A i \in 1 .. Len(viewers) : Len(viewers) - Len(viewers) + i = i
            BY <3>2
        <3> QED BY <1>3, <3>1, <3>2, <3>3 DEF Walks, FrameDue
    <2>4. {sending, sending'} \subseteq Quiet
        BY <1>3 DEF FrameDue, Quiet
    <2> QED BY <1>3, <2>1, <2>2, <2>3, <2>4, Elsewhere DEF FrameDue, Up
<1>4. CASE FrameDueAfterFree \/ Astray
    <2>1. TypeOK'
        BY ZenonT(40), <1>1, <1>4 DEF TypeOK, FrameDueAfterFree, Astray
    <2>2. AtWork'
        BY <1>4 DEF IInv, AtWork, FrameDueAfterFree, Astray, ClientOf
    <2>3. {sending, sending'} \subseteq Quiet /\ sending' \notin Pieces
        BY <1>4 DEF FrameDueAfterFree, Astray, Quiet, Pieces
    <2> QED BY <1>4, <2>1, <2>2, <2>3, Elsewhere DEF FrameDueAfterFree, Astray, Up, Walks
<1>5. CASE Signal \/ Main
    <2>2. UNCHANGED <<clients, owner, failures, pc, polling, streams, freed, lock, mjpeg>>
        BY <1>5 DEF Signal, Main, HeartbeatReturns, Joined, PortDisabled
    <2>1. TypeOK'
        <3>1. running' \in BOOLEAN
            <4>1. CASE Signal
                BY <4>1 DEF Signal
            <4>2. CASE Main
                BY <1>1, <4>2 DEF TypeOK, Main, HeartbeatReturns, Joined, PortDisabled
            <4> QED BY <1>5, <4>1, <4>2
        <3>2. main' \in {main, "joining", "stopping", "done"}
            BY <1>5 DEF Signal, Main, HeartbeatReturns, Joined, PortDisabled
        <3> QED BY ZenonT(40), <1>1, <2>2, <3>1, <3>2 DEF TypeOK
    <2>3. AtWork' /\ Walks'
        BY <2>2 DEF IInv, AtWork, Walks, ClientOf
    <2> QED BY <2>1, <2>2, <2>3, Elsewhere DEF Up
<1> QED BY <1>2, <1>3, <1>4, <1>5

-----------------------------------------------------------------------------
(* The clients *)

LEMMA BrowserStep ==
    ASSUME IInv, Browser PROVE IInv'
<1> USE DEF clients, asking, streams, polling, mjpeg
<1>1. TypeOK /\ Slotted /\ Owned /\ Cleaned /\ Entered /\ AtWork /\ Walks /\ Answered /\ Watched
    BY DEF IInv
<1>2. UNCHANGED <<owner, failures, pc, polling, streams, freed, lock, mjpeg, running, main>>
    BY DEF Browser
<1>3. Slotted' /\ Cleaned' /\ Entered' /\ Walks' /\ (Closed' <=> Closed) /\ (Up' <=> Up)
    BY <1>1, <1>2 DEF Slotted, Cleaned, Entered, Walks, Closed, Up
<1>4. \A j : Last(j)' = Last(j)
    BY <1>2 DEF Last, Here
<1>5. pc \in {"enlist", "enlist failed"} => ClientOf(slot) \in Clients
    BY <1>1, Types DEF AtWork, Slotted, Up, ClientOf
<1>6. \A j \in 1 .. Len(viewers) : viewers[j].client \in Clients
    BY <1>1, Types
<1>7. ClientOf(slot)' = ClientOf(slot)
    BY <1>2 DEF ClientOf
<1>8. ASSUME NEW c \in Clients, Connect(c) \/ \E what \in {"page", "stream"} : Ask(c, what)
      PROVE  IInv'
    <2>1. /\ \A d \in Clients : link'[d] = "open" <=> link[d] = "open"
          /\ \A d \in Clients : link'[d] = "closed" <=> link[d] = "closed"
          /\ link' \in [Clients -> {"none", "waiting", "open", "closed"}]
        BY <1>1, <1>8 DEF TypeOK, Connect, Ask
    <2>2. UNCHANGED <<gone, unread, got>>
        BY <1>8 DEF Connect, Ask
    <2>3. /\ \A d \in Clients : d \notin again' =>
                 /\ request'[d] = "streaming" <=> request[d] = "streaming"
                 /\ request'[d] \in Fresh => request[d] \in Fresh
          /\ request' \in [Clients -> {"unsent", "page", "stream", "paged", "streaming"}]
          /\ again \subseteq again' /\ again' \subseteq Clients /\ more' \in 0 .. MaxMore
        <3>1. /\ request \in [Clients -> {"unsent", "page", "stream", "paged", "streaming"}]
              /\ more \in 0 .. MaxMore /\ MaxMore \in Nat /\ again \subseteq Clients
            BY <1>1, HttpServerConstants DEF TypeOK
        <3>2. CASE Connect(c)
            BY <3>1, <3>2 DEF Connect
        <3>3. ASSUME NEW what \in {"page", "stream"}, Ask(c, what)
              PROVE  /\ \/ request[c] = "unsent" /\ UNCHANGED <<more, again>>
                        \/ request[c] = "streaming" /\ more' \in 0 .. MaxMore /\ again' = again \cup {c}
                     /\ request' = [request EXCEPT ![c] = what]
            <4>1. more < MaxMore => more + 1 \in 0 .. MaxMore
                BY <3>1
            <4> QED BY <3>3, <4>1 DEF Ask
        <3>4. CASE \E what \in {"page", "stream"} : Ask(c, what)
            <4>1. PICK what \in {"page", "stream"} :
                      /\ \/ request[c] = "unsent" /\ UNCHANGED <<more, again>>
                         \/ request[c] = "streaming" /\ more' \in 0 .. MaxMore /\ again' = again \cup {c}
                      /\ request' = [request EXCEPT ![c] = what]
                BY <3>3, <3>4
            <4> QED BY <3>1, <4>1 DEF Fresh
        <3> QED BY <1>8, <3>2, <3>4
    <2>4. TypeOK'
        BY ZenonT(40), <1>1, <1>2, <2>1, <2>2, <2>3 DEF TypeOK
    <2>5. Owned'
        BY <1>1, <1>2, <2>1 DEF Owned
    <2>6. AtWork'
        BY <1>1, <1>2, <1>5, <1>7, <2>2, <2>3 DEF AtWork
    <2>7. Answered'
        BY <1>1, <1>2, <2>1, <2>2, <2>3 DEF Answered, Excused, OnDoubled
    <2>8. Watched'
        BY <1>1, <1>2, <1>3, <1>4, <1>6, <2>2, <2>3 DEF Watched
    <2> QED BY <1>3, <2>4, <2>5, <2>6, <2>7, <2>8 DEF IInv
<1>9. ASSUME NEW c \in Clients, Read(c) \/ Leave(c) PROVE IInv'
    <2>1. UNCHANGED <<link, asking>>
        BY <1>9 DEF Read, Leave
    <2>2. /\ unread' \in [Clients -> 0 .. Room] /\ got' \in [Clients -> {"nothing", "page", "header", "boundary", "length", "jpeg"}]
          /\ gone' \subseteq Clients /\ gone \subseteq gone'
          /\ \A d \in Clients : got'[d] = got[d] \/ (d \in gone' /\ got'[d] = "nothing")
          /\ \A d \in Clients : d \in gone' => (d \in gone /\ got'[d] = got[d]) \/ got'[d] = "nothing"
          /\ \A d \in Clients : unread'[d] = unread[d] \/ unread'[d] = 0 \/ unread[d] > 0
        <3>0. /\ unread \in [Clients -> 0 .. Room] /\ Room \in Nat /\ gone \subseteq Clients
              /\ got \in [Clients -> {"nothing", "page", "header", "boundary", "length", "jpeg"}]
            BY <1>1, HttpServerConstants DEF TypeOK
        <3>1. CASE Read(c)
            <4>1. /\ UNCHANGED <<gone, got>> /\ unread[c] > 0 /\ unread[c] - 1 \in 0 .. Room
                  /\ unread' = [unread EXCEPT ![c] = unread[c] - 1]
                BY <3>0, <3>1 DEF Read
            <4>2. unread' \in [Clients -> 0 .. Room]
                BY <3>0, <4>1
            <4>3. \A d \in Clients : unread'[d] = unread[d] \/ unread[d] > 0
                BY <3>0, <4>1
            <4> QED BY <3>0, <4>1, <4>2, <4>3
        <3>2. CASE Leave(c)
            <4>1. /\ gone' = gone \cup {c}
                  /\ unread' = [unread EXCEPT ![c] = 0] /\ got' = [got EXCEPT ![c] = "nothing"]
                BY <3>2 DEF Leave
            <4>2. unread' \in [Clients -> 0 .. Room]
                BY <3>0, <4>1
            <4>3. \A d \in Clients : unread'[d] = unread[d] \/ unread'[d] = 0
                BY <3>0, <4>1
            <4>4. /\ got' \in [Clients -> {"nothing", "page", "header", "boundary", "length", "jpeg"}]
                  /\ got'[c] = "nothing" /\ \A d \in Clients \ {c} : got'[d] = got[d]
                BY <3>0, <4>1
            <4> QED BY <3>0, <4>1, <4>2, <4>3, <4>4
        <3> QED BY <1>9, <3>1, <3>2
    <2>3. TypeOK'
        BY ZenonT(40), <1>1, <1>2, <2>1, <2>2 DEF TypeOK
    <2>4. Owned'
        BY <1>1, <1>2, <2>1 DEF Owned
    <2>5. AtWork'
        BY <1>1, <1>2, <1>5, <1>7, <2>1, <2>2 DEF AtWork
    <2>6. Answered'
        <3> SUFFICES ASSUME NEW d \in Clients
                     PROVE  /\ request'[d] \in Fresh => got'[d] = "nothing" \/ Excused(d)'
                            /\ d \in gone' => got'[d] = "nothing"
            BY DEF Answered
        <3>1. request[d] \in Fresh => got[d] = "nothing" \/ Excused(d)
            BY <1>1 DEF Answered
        <3>2. d \in gone => got[d] = "nothing"
            BY <1>1 DEF Answered
        <3>3. Excused(d)' <=> Excused(d)
            BY <1>2, <2>1 DEF Excused, OnDoubled
        <3> QED BY <2>1, <2>2, <3>1, <3>2, <3>3
    <2>7. Watched'
        BY <1>1, <1>2, <1>3, <1>4, <1>6, <2>1, <2>2 DEF Watched
    <2> QED BY <1>3, <2>3, <2>4, <2>5, <2>6, <2>7 DEF IInv
<1> QED BY <1>8, <1>9 DEF Browser

-----------------------------------------------------------------------------
(* The HTTP thread *)

\* What a send changes, for one client.
LEMMA SendTo ==
    ASSUME TypeOK, NEW c \in Clients, c \notin gone => unread[c] < Room,
           NEW piece \in {"page", "header", "boundary", "length", "jpeg"}, Send(c, piece)
    PROVE  /\ unread' \in [Clients -> 0 .. Room]
           /\ got' \in [Clients -> {"nothing", "page", "header", "boundary", "length", "jpeg"}]
           /\ c \in gone => got'[c] = got[c] /\ unread'[c] = unread[c]
           /\ c \notin gone => got'[c] = piece
           /\ \A d \in Clients \ {c} : unread'[d] = unread[d] /\ got'[d] = got[d]
<1>1. /\ unread \in [Clients -> 0 .. Room] /\ Room \in Nat
      /\ got \in [Clients -> {"nothing", "page", "header", "boundary", "length", "jpeg"}]
    BY HttpServerConstants DEF TypeOK
<1>2. CASE c \in gone
    <2>1. got' = [got EXCEPT ![c] = got[c]] /\ unread' = [unread EXCEPT ![c] = unread[c]]
        BY <1>2 DEF Send
    <2> QED BY <1>1, <1>2, <2>1
<1>3. CASE c \notin gone
    <2>1. got' = [got EXCEPT ![c] = piece] /\ unread' = [unread EXCEPT ![c] = unread[c] + 1]
        BY <1>3 DEF Send
    <2>2. unread[c] + 1 \in 0 .. Room
        BY <1>1, <1>3
    <2> QED BY <1>1, <1>3, <2>1, <2>2
<1> QED BY <1>2, <1>3

\* poll() sets the events of the slots and nothing else.
LEMMA PollStep ==
    ASSUME IInv, Poll PROVE IInv'
<1> USE DEF clients, asking, streams, mjpeg
<1>1. TypeOK /\ Slotted /\ Owned /\ Cleaned /\ Entered /\ Walks /\ Answered /\ Watched
    BY DEF IInv
<1>2. /\ pc = "poll" /\ pc' = "scan" /\ slot' = 0
      /\ fds' = [k \in DOMAIN fds |-> IF k < count THEN [fds[k] EXCEPT !.ready = Ready(k)] ELSE fds[k]]
      /\ UNCHANGED <<clients, owner, failures, count, streams, freed, lock, mjpeg, running, main>>
    BY DEF Poll
<1>3. \A k : Ready(k) \in BOOLEAN
    BY DEF Ready, Readable
<1>4. DOMAIN fds = 0 .. Slots - 1
    BY <1>1 DEF TypeOK
<1>5. ASSUME NEW k \in 0 .. Slots - 1
      PROVE  fds'[k] \in [fd: Fds, ready: BOOLEAN] /\ fds'[k].fd = fds[k].fd
    <2>1. fds[k] \in [fd: Fds, ready: BOOLEAN]
        BY <1>1, Types
    <2>2. fds'[k] = IF k < count THEN [fds[k] EXCEPT !.ready = Ready(k)] ELSE fds[k]
        BY <1>2, <1>4
    <2>3. \A b \in BOOLEAN : /\ [fds[k] EXCEPT !.ready = b] \in [fd: Fds, ready: BOOLEAN]
                             /\ [fds[k] EXCEPT !.ready = b].fd = fds[k].fd
        BY <2>1
    <2> QED BY <1>3, <2>1, <2>2, <2>3
<1>6. fds' \in [0 .. Slots - 1 -> [fd: Fds, ready: BOOLEAN]]
    BY <1>2, <1>4, <1>5
<1>7. TypeOK'
    <2>1. slot' \in 0 .. Slots
        BY <1>1, <1>2, Types
    <2> QED BY ZenonT(60), <1>1, <1>2, <1>6, <2>1 DEF TypeOK
<1>8. Slotted'
    <2>1. \A k \in 1 .. count - 1 : fds'[k].fd = fds[k].fd
        BY <1>1, <1>5, Types
    <2>2. Up /\ count' = count /\ owner' = owner
        BY <1>2 DEF Up
    <2>3. \A k, l \in 1 .. count - 1 : fds'[k].fd = fds'[l].fd => k = l
        BY <1>1, <2>1, <2>2 DEF Slotted
    <2>4. \A k \in 1 .. count - 1 : owner[fds'[k].fd] # NoClient
        BY <1>1, <2>1, <2>2 DEF Slotted
    <2>5. \A f \in Fds : owner[f] # NoClient => \E k \in 1 .. count - 1 : fds'[k].fd = f
        BY <1>1, <2>1, <2>2 DEF Slotted
    <2> QED BY <2>2, <2>3, <2>4, <2>5 DEF Slotted
<1>9. Owned' /\ Cleaned' /\ Walks' /\ Answered'
    BY <1>1, <1>2 DEF Owned, Cleaned, Walks, Answered, Excused, OnDoubled
<1>10. ~Closed /\ \A j : Last(j)' = Last(j)
    BY <1>2 DEF Closed, Up, Last, Here
<1>11. Entered' /\ Watched' /\ AtWork'
    BY <1>1, <1>2, <1>10 DEF Entered, Watched, AtWork
<1> QED BY <1>7, <1>8, <1>9, <1>11 DEF IInv

\* A connection is accepted, into a slot of its own, or refused.
LEMMA AcceptStep ==
    ASSUME IInv, Accept PROVE IInv'
<1> USE DEF asking, streams, mjpeg
<1>1. TypeOK /\ Slotted /\ Owned /\ Cleaned /\ Entered /\ Walks /\ Answered /\ Watched
    BY DEF IInv
<1>2. /\ pc = "scan" /\ pc' = "scan" /\ slot' = 1
      /\ UNCHANGED <<asking, gone, unread, got, failures, streams, freed, lock, mjpeg, running, main>>
    BY DEF Accept, AtSlot
<1>3. Up /\ Up' /\ ~Closed /\ ~Closed' /\ \A j : Last(j)' = Last(j)
    BY <1>2 DEF Up, Closed, Last, Here
<1>4. Cleaned' /\ Walks' /\ AtWork'
    BY <1>1, <1>2 DEF Cleaned, Walks, AtWork
<1>5. PICK c \in Waiting :
          IF RoomFor(count)
          THEN /\ fds' = [fds EXCEPT ![count].fd = LowestFree]
               /\ owner' = [owner EXCEPT ![LowestFree] = c]
               /\ count' = count + 1
               /\ link' = [link EXCEPT ![c] = "open"]
          ELSE /\ link' = [link EXCEPT ![c] = "closed"]
               /\ UNCHANGED <<fds, owner, count>>
    BY DEF Accept
<1>6. c \in Clients /\ link[c] = "waiting" /\ \A f \in Fds : owner[f] # c
    BY <1>1 DEF Waiting, Owned
<1>7. CASE ~RoomFor(count)
    <2>1. link' = [link EXCEPT ![c] = "closed"] /\ UNCHANGED <<fds, owner, count>>
        BY <1>5, <1>7
    <2>2. TypeOK'
        BY <1>1, <1>2, <1>6, <2>1, Types DEF TypeOK
    <2>3. \A d \in Clients : link'[d] = "open" <=> link[d] = "open"
        BY <1>1, <1>6, <2>1 DEF TypeOK
    <2>4. Owned' /\ Slotted'
        BY <1>1, <1>2, <2>1, <2>3 DEF Owned, Slotted, Up
    <2>5. Entered' /\ Watched'
        BY <1>1, <1>2, <1>3, <2>1 DEF Entered, Watched
    <2>6. \A d \in Clients : link[d] = "closed" => link'[d] = "closed"
        BY <1>1, <1>6, <2>1 DEF TypeOK
    <2>7. Answered'
        BY <1>1, <1>2, <2>1, <2>6 DEF Answered, Excused, OnDoubled
    <2> QED BY <1>4, <2>2, <2>4, <2>5, <2>7 DEF IInv
<1>8. CASE RoomFor(count)
    <2> DEFINE f == LowestFree
    <2>1. /\ fds' = [fds EXCEPT ![count].fd = f] /\ owner' = [owner EXCEPT ![f] = c]
          /\ count' = count + 1 /\ link' = [link EXCEPT ![c] = "open"] /\ count < Slots
        BY <1>5, <1>8 DEF RoomFor
    <2>2. f \in Fds /\ owner[f] = NoClient
        BY <1>1, <1>3, <2>1, FreeDescriptor
    <2> HIDE DEF f
    <2>3. count \in 0 .. Slots - 1 /\ count \in 1 .. Slots /\ Slots \in Nat /\ count' - 1 = count
        <3>1. Slots \in Nat \ {0} /\ count \in 1 .. Slots
            BY <1>1, Types
        <3> QED BY <2>1, <3>1
    <2>4. fds' \in [0 .. Slots - 1 -> [fd: Fds, ready: BOOLEAN]] /\ fds'[count].fd = f
        <3>1. fds' = [fds EXCEPT ![count] = [fds[count] EXCEPT !.fd = f]]
            BY <2>1
        <3>2. fds[count] \in [fd: Fds, ready: BOOLEAN]
            BY <1>1, <2>3, Types
        <3>3. [fds[count] EXCEPT !.fd = f] \in [fd: Fds, ready: BOOLEAN] /\ [fds[count] EXCEPT !.fd = f].fd = f
            BY <2>2, <3>2
        <3> QED BY <1>1, <2>3, <3>1, <3>3 DEF TypeOK
    <2>5. \A k \in 1 .. count - 1 : fds'[k] = fds[k] /\ fds[k].fd \in Fds /\ owner[fds[k].fd] # NoClient
        <3> TAKE k \in 1 .. count - 1
        <3>1. k \in 0 .. Slots - 1 /\ k # count
            BY <2>3
        <3>2. fds'[k] = fds[k]
            BY <1>1, <2>1, <3>1 DEF TypeOK
        <3>3. fds[k].fd \in Fds
            BY <1>1, <3>1, Types
        <3>4. owner[fds[k].fd] # NoClient
            BY <1>1, <1>3 DEF Slotted
        <3> QED BY <3>2, <3>3, <3>4
    <2>6. /\ owner' \in [Fds -> Clients \cup {NoClient}] /\ owner'[f] = c
          /\ \A g \in Fds \ {f} : owner'[g] = owner[g]
        BY <1>1, <1>6, <2>1, <2>2 DEF TypeOK
    <2>7. /\ link' \in [Clients -> {"none", "waiting", "open", "closed"}] /\ link'[c] = "open"
          /\ \A d \in Clients \ {c} : link'[d] = link[d]
        BY <1>1, <1>6, <2>1 DEF TypeOK
    <2>8. TypeOK'
        BY <1>1, <1>2, <2>1, <2>3, <2>4, <2>6, <2>7 DEF TypeOK
    <2>9. Slotted'
        <3>1. \A k \in 1 .. count - 1 : fds'[k].fd # f
            BY <2>2, <2>5
        <3>2. \A k \in 1 .. count' - 1 : k \in 1 .. count - 1 \/ k = count
            BY <2>3
        <3>3. \A k, l \in 1 .. count' - 1 : fds'[k].fd = fds'[l].fd => k = l
            BY <1>1, <1>3, <2>4, <2>5, <3>1, <3>2 DEF Slotted
        <3>4. \A k \in 1 .. count' - 1 : owner'[fds'[k].fd] # NoClient
            BY <1>1, <1>6, <2>4, <2>5, <2>6, <3>1, <3>2, Types
        <3>5. \A g \in Fds : owner'[g] # NoClient => \E k \in 1 .. count' - 1 : fds'[k].fd = g
            <4> SUFFICES ASSUME NEW g \in Fds, owner'[g] # NoClient
                         PROVE  \E k \in 1 .. count' - 1 : fds'[k].fd = g
                OBVIOUS
            <4>1. CASE g = f
                BY <2>3, <2>4, <4>1
            <4>2. CASE g # f
                <5>1. PICK k \in 1 .. count - 1 : fds[k].fd = g
                    BY <1>1, <1>3, <2>6, <4>2 DEF Slotted
                <5>2. k \in 1 .. count' - 1
                    BY <2>3
                <5> QED BY <2>5, <5>1, <5>2
            <4> QED BY <4>1, <4>2
        <3> QED BY <3>3, <3>4, <3>5 DEF Slotted
    <2>10. Owned'
        <3>1. \A g, h \in Fds : owner'[g] = owner'[h] /\ owner'[g] # NoClient => g = h
            BY <1>1, <1>6, <2>6 DEF Owned
        <3>2. \A d \in Clients : link'[d] = "open" <=> \E g \in Fds : owner'[g] = d
            BY <1>1, <1>6, <2>2, <2>6, <2>7, Types DEF Owned
        <3> QED BY <3>1, <3>2 DEF Owned
    <2>11. \A j \in 1 .. Len(viewers) :
               viewers[j].fd \notin doubled => owner'[viewers[j].fd] = owner[viewers[j].fd]
        BY <1>1, <1>3, <2>2, <2>6, Types DEF Entered
    <2>12. Entered' /\ Watched'
        BY <1>1, <1>2, <1>3, <2>11 DEF Entered, Watched
    <2>13. Answered'
        <3>1. \A d \in Clients : Excused(d) => Excused(d)'
            <4> SUFFICES ASSUME NEW d \in Clients, Excused(d) PROVE Excused(d)'
                OBVIOUS
            <4>1. CASE d \in again
                BY <1>2, <4>1 DEF Excused
            <4>2. CASE link[d] = "closed"
                <5>1. d # c
                    BY <1>6, <4>2
                <5> QED BY <2>7, <4>2, <5>1 DEF Excused
            <4>3. CASE OnDoubled(d)
                <5>1. PICK g \in doubled : owner[g] = d
                    BY <4>3 DEF OnDoubled
                <5>2. g \in Fds /\ g # f
                    BY <1>1, <2>2, <5>1, Types DEF TypeOK
                <5> QED BY <1>2, <2>6, <5>1, <5>2 DEF Excused, OnDoubled
            <4> QED BY <4>1, <4>2, <4>3 DEF Excused
        <3> QED BY <1>1, <1>2, <3>1 DEF Answered
    <2> QED BY <1>4, <2>8, <2>9, <2>10, <2>12, <2>13 DEF IInv
<1> QED BY <1>7, <1>8

\* The next slot with an event has a client's socket.
LEMMA SlotHasClient ==
    ASSUME TypeOK, Slotted, Up, NEW k \in 1 .. count - 1
    PROVE  ClientOf(k) \in Clients /\ fds[k].fd \in Fds /\ owner[fds[k].fd] = ClientOf(k)
<1>1. k \in 0 .. Slots - 1
    BY Types
<1>2. fds[k].fd \in Fds /\ owner[fds[k].fd] # NoClient
    BY <1>1, Types DEF Slotted
<1> QED BY <1>2, Types DEF ClientOf

\* A request is read and answered.
LEMMA AnswerStep ==
    ASSUME IInv, NEW k \in 1 .. Slots - 1, AnswerPage(k) \/ AnswerStream(k) PROVE IInv'
<1> USE DEF streams, mjpeg
<1> DEFINE c == ClientOf(k)
           said == IF request[c] = "page" THEN "paged" ELSE "streaming"
<1>1. TypeOK /\ Slotted /\ Owned /\ Cleaned /\ Entered /\ Walks /\ Answered /\ Watched
    BY DEF IInv
<1>2. /\ pc = "scan" /\ k \in slot .. count - 1 /\ request[c] \in {"page", "stream"}
      /\ request' = [request EXCEPT ![c] = said] /\ HasRoom(c)
      /\ UNCHANGED <<link, more, again, gone, owner, failures, fds, count, streams, freed, lock,
                     mjpeg, running, main>>
    BY DEF AnswerPage, AnswerStream, AtSlot
<1>3. k \in 1 .. count - 1 /\ Slots \in Nat /\ count \in 1 .. Slots
    BY <1>1, <1>2, Types DEF TypeOK
<1>4. Up /\ ~Closed /\ \A j : Last(j)' = Last(j)
    BY <1>2 DEF Up, Closed, Last, Here
<1>5. c \in Clients /\ fds[k].fd \in Fds /\ owner[fds[k].fd] = c
    BY <1>1, <1>3, <1>4, SlotHasClient
<1>6. c \in gone => got[c] = "nothing"
    BY <1>1, <1>5 DEF Answered
<1>7. \/ /\ AnswerPage(k) /\ Send(c, "page")
         /\ \/ slot' = k + 1 /\ pc' = "scan"
            \/ slot' = k /\ pc' = "drop"
      \/ /\ AnswerStream(k) /\ Send(c, "header") /\ slot' = k /\ said = "streaming"
         /\ \/ pc' = "enlist"
            \/ pc' = "enlist failed" /\ c \in gone
    BY DEF AnswerPage, AnswerStream
<1> HIDE DEF c, said
<1>8. PICK piece \in {"page", "header"} :
          /\ Send(c, piece)
          /\ pc' \in {"enlist", "enlist failed"} => piece = "header" /\ said = "streaming"
    BY <1>7
<1>9. /\ unread' \in [Clients -> 0 .. Room]
      /\ got' \in [Clients -> {"nothing", "page", "header", "boundary", "length", "jpeg"}]
      /\ c \in gone => got'[c] = "nothing"
      /\ c \notin gone => got'[c] = piece
      /\ \A d \in Clients \ {c} : unread'[d] = unread[d] /\ got'[d] = got[d]
    <2>1. c \notin gone => unread[c] < Room
        BY <1>2 DEF HasRoom
    <2> QED BY <1>1, <1>5, <1>6, <1>8, <2>1, SendTo
<1>10. /\ request' \in [Clients -> {"unsent", "page", "stream", "paged", "streaming"}]
       /\ request'[c] = said /\ said \in {"paged", "streaming"}
       /\ \A d \in Clients \ {c} : request'[d] = request[d]
    BY <1>1, <1>2, <1>5 DEF TypeOK, said
<1>11. TypeOK'
    <2>1. slot' \in 0 .. Slots /\ pc' \in {"scan", "drop", "enlist", "enlist failed"}
        <3>1. k \in 0 .. Slots /\ k + 1 \in 0 .. Slots
            BY <1>3
        <3> QED BY <1>7, <3>1
    <2> QED BY ZenonT(40), <1>1, <1>2, <1>9, <1>10, <2>1 DEF TypeOK
<1>12. Up' /\ ~Closed' /\ pc' # "clear"
    BY <1>7 DEF Up, Closed
<1>13. Slotted' /\ Owned' /\ Cleaned' /\ Walks'
    BY <1>1, <1>2, <1>4, <1>12 DEF Slotted, Owned, Cleaned, Walks
<1>14. Entered'
    BY <1>1, <1>2, <1>4 DEF Entered
<1>15. Answered'
    <2>1. \A d \in Clients : Excused(d)' <=> Excused(d)
        BY <1>2 DEF Excused, OnDoubled
    <2> QED BY <1>1, <1>2, <1>9, <1>10, <2>1 DEF Answered, Fresh
<1>16. \A j \in 1 .. Len(viewers) : viewers[j].fd \notin doubled /\ viewers[j].client \notin again =>
           viewers[j].client \in Clients \ {c}
    BY <1>1, <1>2, <1>4, Types DEF Watched
<1>17. Watched'
    BY <1>1, <1>2, <1>4, <1>9, <1>10, <1>16 DEF Watched
<1>18. AtWork'
    <2>1. pc' \in {"enlist", "enlist failed", "drop", "close"} => slot' = k /\ pc' # "close"
        BY <1>7
    <2>2. slot' = k => ClientOf(slot)' = c
        BY <1>2 DEF ClientOf, c
    <2>3. pc' \in {"enlist", "enlist failed"} =>
              request'[c] = "streaming" /\ (got'[c] = "header" \/ c \in gone')
        BY <1>2, <1>8, <1>9, <1>10
    <2>4. c \in again \/ fds[k].fd \in doubled \/ \A j \in 1 .. Len(viewers) : viewers[j].fd # fds[k].fd
        <3> SUFFICES ASSUME c \notin again, fds[k].fd \notin doubled, NEW j \in 1 .. Len(viewers),
                            viewers[j].fd = fds[k].fd
                     PROVE  FALSE
            OBVIOUS
        <3>1. viewers[j].client = c
            BY <1>1, <1>4, <1>5 DEF Entered
        <3> QED BY <1>16, <3>1
    <2> QED BY <1>2, <1>3, <2>1, <2>2, <2>3, <2>4 DEF AtWork
<1> QED BY <1>11, <1>13, <1>14, <1>15, <1>17, <1>18 DEF IInv

\* Who asked for the stream enters the list.
LEMMA EnlistStep ==
    ASSUME IInv, Enlist PROVE IInv'
<1> USE DEF clients, asking, streams, mjpeg
<1> DEFINE c == ClientOf(slot)
           v == [fd |-> fds[slot].fd, client |-> c]
           n == Len(viewers)
<1>1. TypeOK /\ Slotted /\ Owned /\ Cleaned /\ Entered /\ AtWork /\ Walks /\ Answered /\ Watched
    BY DEF IInv
<1>2. /\ pc \in {"enlist", "enlist failed"} /\ lock = "free" /\ viewers' = Append(viewers, v)
      /\ \/ slot' = slot + 1 /\ pc' = "scan"
         \/ slot' = slot /\ pc' = "drop"
      /\ doubled' = IF Listed(viewers, fds[slot].fd) THEN doubled \cup {fds[slot].fd} ELSE doubled
      /\ UNCHANGED <<clients, owner, failures, fds, count, freed, lock, mjpeg, running, main>>
    BY DEF Enlist
<1>3. Up /\ Up' /\ ~Closed /\ ~Closed' /\ pc' # "clear" /\ pc' # "close"
    BY <1>2 DEF Up, Closed
<1>4. slot \in 1 .. count - 1 /\ Slots \in Nat \ {0} /\ count \in 1 .. Slots
    BY <1>1, <1>2, Types DEF AtWork
<1>5. c \in Clients /\ fds[slot].fd \in Fds /\ owner[fds[slot].fd] = c
    BY <1>1, <1>3, <1>4, SlotHasClient
<1>6. /\ doubled \subseteq doubled' /\ doubled' \subseteq Fds
      /\ \/ c \in again \/ fds[slot].fd \in doubled
         \/ request[c] = "streaming" /\ (got[c] = "header" \/ c \in gone)
      /\ fds[slot].fd \in doubled' \/ \A j \in 1 .. n : viewers[j].fd # fds[slot].fd
    <2>1. doubled \subseteq Fds /\ DOMAIN viewers = 1 .. n
        <3>1. viewers \in Seq(Viewer) /\ doubled \subseteq Fds
            BY <1>1 DEF TypeOK, Viewer
        <3> QED BY <3>1
    <2>2. doubled \subseteq doubled' /\ doubled' \subseteq Fds
        BY <1>2, <1>5, <2>1
    <2>3. \/ c \in again \/ fds[slot].fd \in doubled
          \/ request[c] = "streaming" /\ (got[c] = "header" \/ c \in gone)
        BY <1>1, <1>2 DEF AtWork, c
    <2>4. fds[slot].fd \in doubled' \/ \A j \in 1 .. n : viewers[j].fd # fds[slot].fd
        BY <1>2, <2>1 DEF Listed
    <2> QED BY <2>2, <2>3, <2>4
<1> HIDE DEF c
<1>7. v \in Viewer /\ v.fd = fds[slot].fd /\ v.client = c
    BY <1>5 DEF Viewer
<1> HIDE DEF v
<1>8. /\ viewers' \in Seq(Viewer) /\ Len(viewers') = n + 1 /\ n \in Nat
      /\ viewers'[n + 1] = v /\ \A j \in 1 .. n : viewers'[j] = viewers[j]
    <2>1. viewers \in Seq(Viewer)
        BY <1>1 DEF TypeOK, Viewer
    <2> DEFINE t == Append(viewers, v)
    <2>2. /\ t \in Seq(Viewer) /\ Len(t) = Len(viewers) + 1
          /\ t[Len(viewers) + 1] = v /\ \A j \in 1 .. Len(viewers) : t[j] = viewers[j]
        BY <1>7, <2>1, AppendProperties
    <2>3. Len(viewers) \in Nat
        BY <2>1
    <2>4. viewers' = t
        BY <1>2
    <2> HIDE DEF t
    <2> QED BY <2>2, <2>3, <2>4
<1>9. \A j \in 1 .. Len(viewers') : j \in 1 .. n \/ j = n + 1
    BY <1>8
<1>10. sending \notin Pieces
    BY <1>1, <1>2 DEF Walks
<1>11. TypeOK'
    <2>1. slot' \in 0 .. Slots /\ pc' \in {"scan", "drop"}
        <3>1. slot \in 0 .. Slots /\ slot + 1 \in 0 .. Slots
            BY <1>4
        <3> QED BY <1>2, <3>1
    <2> QED BY <1>1, <1>2, <1>6, <1>8, <2>1 DEF TypeOK, Viewer
<1>12. Slotted' /\ Owned' /\ Cleaned' /\ Answered'
    <2>1. Slotted' /\ Owned' /\ Cleaned'
        BY ZenonT(40), <1>1, <1>2, <1>3 DEF Slotted, Owned, Cleaned
    <2>2. \A d \in Clients : Excused(d) => Excused(d)'
        BY <1>2, <1>6 DEF Excused, OnDoubled
    <2>3. Answered'
        BY <1>1, <1>2, <2>2 DEF Answered
    <2> QED BY <2>1, <2>3
<1>13. Walks'
    BY <1>2, <1>10 DEF Walks
<1>14. AtWork'
    BY <1>2, <1>3, <1>4 DEF AtWork
<1>15. Entered'
    <2>1. \A j \in 1 .. Len(viewers') :
              viewers'[j].fd \notin doubled' => owner'[viewers'[j].fd] = viewers'[j].client
        <3>1. \A j \in 1 .. n : viewers[j].fd \notin doubled' => owner[viewers[j].fd] = viewers[j].client
            BY <1>1, <1>3, <1>6 DEF Entered
        <3>2. owner[v.fd] = v.client
            BY <1>5, <1>7
        <3> QED BY <1>2, <1>8, <1>9, <3>1, <3>2
    <2>2. \A j, h \in 1 .. Len(viewers') :
              viewers'[j].fd = viewers'[h].fd /\ viewers'[j].fd \notin doubled' => j = h
        <3>1. \A j, h \in 1 .. n : viewers[j].fd = viewers[h].fd /\ viewers[j].fd \notin doubled' => j = h
            BY <1>1, <1>3, <1>6 DEF Entered
        <3> QED BY <1>6, <1>7, <1>8, <1>9, <3>1
    <2> QED BY <2>1, <2>2 DEF Entered
<1>16. Watched'
    <2>1. \A j : Last(j) = {"header", "jpeg"} /\ Last(j)' = {"header", "jpeg"}
        BY <1>2, <1>10 DEF Last, Pieces
    <2>2. \A j \in 1 .. n :
              viewers'[j].fd \notin doubled' /\ viewers'[j].client \notin again' =>
                  /\ request'[viewers'[j].client] = "streaming"
                  /\ viewers'[j].client \in gone' \/ got'[viewers'[j].client] \in {"header", "jpeg"}
        BY <1>1, <1>2, <1>3, <1>6, <1>8, <2>1 DEF Watched
    <2>3. v.fd \notin doubled' /\ v.client \notin again' =>
              /\ request'[v.client] = "streaming"
              /\ v.client \in gone' \/ got'[v.client] \in {"header", "jpeg"}
        BY <1>2, <1>6, <1>7
    <2> QED BY <1>8, <1>9, <2>1, <2>2, <2>3 DEF Watched
<1> QED BY <1>11, <1>12, <1>13, <1>14, <1>15, <1>16 DEF IInv

\* A connection leaves the list before its socket is closed.
LEMMA DropStep ==
    ASSUME IInv, Drop PROVE IInv'
<1> USE DEF clients, asking, streams, polling, mjpeg
<1> DEFINE fd == fds[slot].fd
<1>1. TypeOK /\ Slotted /\ Owned /\ Cleaned /\ Entered /\ AtWork /\ Walks /\ Answered /\ Watched
    BY DEF IInv
<1>2. /\ pc = "drop" /\ lock = "free" /\ viewers' = Forget(viewers, fd) /\ pc' = "close"
      /\ UNCHANGED <<clients, owner, failures, polling, doubled, freed, lock, mjpeg, running, main>>
    BY DEF Drop
<1>3. Up /\ Up' /\ ~Closed /\ ~Closed'
    BY <1>2 DEF Up, Closed
<1>4. /\ viewers' \in Seq(Viewer)
      /\ \A i \in 1 .. Len(viewers') : /\ viewers'[i].fd = fd => fd \in doubled
                                       /\ \E j \in 1 .. Len(viewers) : viewers'[i] = viewers[j]
      /\ \A i, h \in 1 .. Len(viewers') :
             viewers'[i].fd = viewers'[h].fd /\ viewers'[i].fd \notin doubled => i = h
    <2>1. /\ viewers \in Seq(Viewer)
          /\ \A j, h \in 1 .. Len(viewers) :
                 viewers[j].fd = viewers[h].fd /\ viewers[j].fd \notin doubled => j = h
        BY <1>1, <1>3 DEF TypeOK, Viewer, Entered
    <2> DEFINE t == Forget(viewers, fd)
    <2>2. /\ t \in Seq(Viewer)
          /\ \A i \in 1 .. Len(t) : /\ t[i].fd = fd => fd \in doubled
                                    /\ \E j \in 1 .. Len(viewers) : t[i] = viewers[j]
          /\ \A i, h \in 1 .. Len(t) : t[i].fd = t[h].fd /\ t[i].fd \notin doubled => i = h
        <3> HIDE DEF fd
        <3> QED BY <2>1, ForgetViewer
    <2>3. viewers' = t
        BY <1>2
    <2> HIDE DEF t, fd
    <2> QED BY <2>2, <2>3
<1>5. sending \notin Pieces
    BY <1>1, <1>2 DEF Walks
<1>6. TypeOK'
    BY <1>1, <1>2, <1>4 DEF TypeOK, Viewer
<1>7. Slotted' /\ Owned' /\ Cleaned' /\ Answered'
    BY <1>1, <1>2, <1>3 DEF Slotted, Owned, Cleaned, Answered, Excused, OnDoubled
<1>8. Walks'
    BY <1>2, <1>5 DEF Walks
<1>9. AtWork'
    BY <1>1, <1>2, <1>4 DEF AtWork
<1>10. Entered'
    BY <1>1, <1>2, <1>3, <1>4 DEF Entered
<1>11. Watched'
    <2>1. \A j : Last(j) = {"header", "jpeg"} /\ Last(j)' = {"header", "jpeg"}
        BY <1>2, <1>5 DEF Last, Pieces
    <2> QED BY <1>1, <1>2, <1>3, <1>4, <2>1 DEF Watched
<1> QED BY <1>6, <1>7, <1>8, <1>9, <1>10, <1>11 DEF IInv

\* The socket closes, and the last slot moves into the one that is free.
LEMMA CloseStep ==
    ASSUME IInv, Close PROVE IInv'
<1> USE DEF asking, streams, mjpeg
<1> DEFINE c == ClientOf(slot)
           f == fds[slot].fd
           m == count - 1
<1>1. TypeOK /\ Slotted /\ Owned /\ Cleaned /\ Entered /\ AtWork /\ Walks /\ Answered /\ Watched
    BY DEF IInv
<1>2. /\ pc = "close" /\ pc' = "scan"
      /\ link' = [link EXCEPT ![c] = "closed"] /\ owner' = [owner EXCEPT ![f] = NoClient]
      /\ fds' = [fds EXCEPT ![slot] = fds[m]] /\ count' = m
      /\ UNCHANGED <<asking, gone, unread, got, failures, slot, streams, freed, lock, mjpeg, running, main>>
    BY DEF Close, Removed
<1>3. Up /\ Up' /\ ~Closed /\ ~Closed' /\ \A j : Last(j)' = Last(j)
    BY <1>2 DEF Up, Closed, Last, Here
<1>4. /\ slot \in 1 .. m /\ Slots \in Nat \ {0} /\ count \in 1 .. Slots
      /\ m \in 1 .. Slots - 1 /\ 1 .. m \subseteq 0 .. Slots - 1
    <2>1. slot \in 1 .. count - 1 /\ Slots \in Nat \ {0} /\ count \in 1 .. Slots
        BY <1>1, <1>2, Types DEF AtWork
    <2> QED BY <2>1
<1>5. c \in Clients /\ f \in Fds /\ owner[f] = c
    BY <1>1, <1>3, <1>4, SlotHasClient
<1>6. \A j \in 1 .. Len(viewers) : viewers[j].fd = f => viewers[j].fd \in doubled
    BY <1>1, <1>2 DEF AtWork
<1>7. /\ \A k, l \in 1 .. m : fds[k].fd = fds[l].fd => k = l
      /\ \A k \in 1 .. m : owner[fds[k].fd] # NoClient /\ fds[k].fd \in Fds
      /\ \A g \in Fds : owner[g] # NoClient => \E k \in 1 .. m : fds[k].fd = g
    BY <1>1, <1>3, <1>4, Types DEF Slotted
<1> HIDE DEF c, m
<1>8. /\ owner' \in [Fds -> Clients \cup {NoClient}] /\ owner'[f] = NoClient
      /\ \A g \in Fds \ {f} : owner'[g] = owner[g]
      /\ link' \in [Clients -> {"none", "waiting", "open", "closed"}] /\ link'[c] = "closed"
      /\ \A d \in Clients \ {c} : link'[d] = link[d]
    BY <1>1, <1>2, <1>5 DEF TypeOK
<1>9. /\ fds' \in [0 .. Slots - 1 -> [fd: Fds, ready: BOOLEAN]]
      /\ fds'[slot] = fds[m] /\ \A k \in 1 .. m : k # slot => fds'[k] = fds[k]
    <2>1. m \in 0 .. Slots - 1 /\ slot \in 0 .. Slots - 1
        BY <1>4
    <2>2. fds[m] \in [fd: Fds, ready: BOOLEAN] /\ fds \in [0 .. Slots - 1 -> [fd: Fds, ready: BOOLEAN]]
        BY <1>1, <2>1, Types DEF TypeOK
    <2> QED BY <1>2, <1>4, <2>1, <2>2
<1>10. TypeOK'
    <2>1. count' \in 1 .. Slots
        BY <1>2, <1>4
    <2> QED BY <1>1, <1>2, <1>8, <1>9, <2>1 DEF TypeOK
<1> DEFINE from(k) == IF k = slot THEN m ELSE k
<1>11. \A k \in 1 .. m - 1 : /\ from(k) \in 1 .. m /\ from(k) # slot
                             /\ fds'[k] = fds[from(k)]
    BY <1>4, <1>9
<1>12. \A k, l \in 1 .. m - 1 : from(k) = from(l) => k = l
    BY <1>4
<1>13. \A l \in 1 .. m : l # slot => \E k \in 1 .. m - 1 : from(k) = l
    <2> SUFFICES ASSUME NEW l \in 1 .. m, l # slot PROVE \E k \in 1 .. m - 1 : from(k) = l
        OBVIOUS
    <2>1. CASE l = m
        <3>1. slot \in 1 .. m - 1 /\ from(slot) = l
            BY <1>4, <2>1
        <3> QED BY <3>1
    <2>2. CASE l # m
        <3>1. l \in 1 .. m - 1 /\ from(l) = l
            BY <1>4, <2>2
        <3> QED BY <3>1
    <2> QED BY <2>1, <2>2
<1> HIDE DEF from
<1>14. Slotted'
    <2>1. \A k \in 1 .. m - 1 : fds'[k].fd = fds[from(k)].fd /\ fds'[k].fd # f
        BY <1>4, <1>7, <1>11
    <2>2. \A k, l \in 1 .. m - 1 : fds'[k].fd = fds'[l].fd => k = l
        BY <1>7, <1>11, <1>12, <2>1
    <2>3. \A k \in 1 .. m - 1 : owner'[fds'[k].fd] # NoClient
        BY <1>7, <1>8, <1>11, <2>1
    <2>4. \A g \in Fds : owner'[g] # NoClient => \E k \in 1 .. m - 1 : fds'[k].fd = g
        <3> SUFFICES ASSUME NEW g \in Fds, owner'[g] # NoClient PROVE \E k \in 1 .. m - 1 : fds'[k].fd = g
            OBVIOUS
        <3>1. g # f /\ owner[g] # NoClient
            BY <1>8
        <3>2. PICK l \in 1 .. m : fds[l].fd = g
            BY <1>7, <3>1
        <3>3. PICK k \in 1 .. m - 1 : from(k) = l
            BY <1>13, <3>1, <3>2
        <3> QED BY <2>1, <3>2, <3>3
    <2> QED BY <1>2, <2>2, <2>3, <2>4 DEF Slotted
<1>15. Owned'
    <2>1. \A g, h \in Fds : owner'[g] = owner'[h] /\ owner'[g] # NoClient => g = h
        BY <1>1, <1>8 DEF Owned
    <2>2. \A d \in Clients : link'[d] = "open" <=> \E g \in Fds : owner'[g] = d
        <3> TAKE d \in Clients
        <3>1. link[d] = "open" <=> \E g \in Fds : owner[g] = d
            BY <1>1 DEF Owned
        <3>2. d # NoClient
            BY <1>1, Types
        <3>3. CASE d = c
            <4>1. \A g \in Fds : owner'[g] # c
                BY <1>1, <1>5, <1>8, <3>2, <3>3 DEF Owned
            <4> QED BY <1>8, <3>3, <4>1
        <3>4. CASE d # c
            <4>1. \A g \in Fds : owner'[g] = d <=> owner[g] = d
                BY <1>5, <1>8, <3>2, <3>4
            <4> QED BY <1>8, <3>1, <3>4, <4>1
        <3> QED BY <3>3, <3>4
    <2> QED BY <2>1, <2>2 DEF Owned
<1>16. Cleaned' /\ Walks' /\ Answered' /\ AtWork'
    <2>1. Cleaned' /\ Walks' /\ AtWork'
        BY <1>1, <1>2 DEF Cleaned, Walks, AtWork
    <2>2. \A d \in Clients : Excused(d) => Excused(d)'
        <3> SUFFICES ASSUME NEW d \in Clients \ {c}, Excused(d) PROVE Excused(d)'
            BY <1>8 DEF Excused
        <3>1. OnDoubled(d) => OnDoubled(d)'
            <4> SUFFICES ASSUME NEW g \in doubled, owner[g] = d PROVE owner'[g] = d
                BY <1>2 DEF OnDoubled
            <4>1. g \in Fds /\ g # f
                BY <1>1, <1>5 DEF TypeOK
            <4> QED BY <1>8, <4>1
        <3> QED BY <1>2, <1>8, <3>1 DEF Excused
    <2>3. Answered'
        BY <1>1, <1>2, <2>2 DEF Answered
    <2> QED BY <2>1, <2>3
<1>17. \A j \in 1 .. Len(viewers) :
           viewers[j].fd \notin doubled => owner'[viewers[j].fd] = owner[viewers[j].fd]
    BY <1>1, <1>6, <1>8, Types
<1>18. Entered' /\ Watched'
    BY <1>1, <1>2, <1>3, <1>17 DEF Entered, Watched
<1> QED BY <1>10, <1>14, <1>15, <1>16, <1>18 DEF IInv

\* The thread's cleanup closes every socket, which all are in a slot.
LEMMA CloseAllStep ==
    ASSUME IInv, CloseAll PROVE IInv'
<1> USE DEF asking, polling, streams, mjpeg
<1> DEFINE closed == {fds[k].fd : k \in 0 .. count - 1}
<1>1. TypeOK /\ Slotted /\ Owned /\ Walks /\ Answered
    BY DEF IInv
<1>2. /\ pc = "cleanup" /\ pc' = "clear"
      /\ link' = [c \in Clients |-> IF \E f \in closed : owner[f] = c THEN "closed" ELSE link[c]]
      /\ owner' = [f \in Fds |-> IF f \in closed THEN NoClient ELSE owner[f]]
      /\ UNCHANGED <<asking, gone, unread, got, failures, slot, fds, count, streams, freed, lock,
                     mjpeg, running, main>>
    BY DEF CloseAll
<1>3. Up /\ ~Up'
    BY <1>2 DEF Up
<1>4. \A f \in Fds : owner[f] # NoClient => f \in closed
    <2>1. 1 .. count - 1 \subseteq 0 .. count - 1
        OBVIOUS
    <2> QED BY <1>1, <1>3, <2>1 DEF Slotted
<1> HIDE DEF closed
<1>5. \A f \in Fds : owner'[f] = NoClient
    BY <1>2, <1>4
<1>6. \A c \in Clients : link'[c] # "open"
    <2> SUFFICES ASSUME NEW c \in Clients, link'[c] = "open" PROVE FALSE
        OBVIOUS
    <2>1. link[c] = "open" /\ \A f \in closed : owner[f] # c
        BY <1>2
    <2>2. PICK f \in Fds : owner[f] = c
        BY <1>1, <2>1 DEF Owned
    <2> QED BY <1>1, <1>4, <2>1, <2>2, Types
<1>7. TypeOK'
    <2>1. link' \in [Clients -> {"none", "waiting", "open", "closed"}]
        BY <1>1, <1>2 DEF TypeOK
    <2>2. owner' \in [Fds -> Clients \cup {NoClient}]
        BY <1>2, <1>5
    <2> QED BY <1>1, <1>2, <2>1, <2>2 DEF TypeOK
<1>8. Closed'
    BY <1>3, <1>5 DEF Closed
<1>9. Slotted' /\ Cleaned' /\ Entered' /\ Watched' /\ AtWork'
    BY <1>2, <1>3, <1>8 DEF Slotted, Cleaned, Entered, Watched, AtWork
<1>10. Owned'
    BY <1>1, <1>5, <1>6, Types DEF Owned
<1>11. Walks' /\ Answered'
    <2>1. Walks'
        BY <1>1, <1>2 DEF Walks
    <2>2. \A d \in Clients : Excused(d) => Excused(d)'
        <3> SUFFICES ASSUME NEW d \in Clients, Excused(d) PROVE Excused(d)'
            OBVIOUS
        <3>1. CASE d \in again
            BY <1>2, <3>1 DEF Excused
        <3>2. CASE link[d] = "closed"
            BY <1>2, <3>2 DEF Excused
        <3>3. CASE OnDoubled(d)
            <4>1. PICK g \in doubled : owner[g] = d
                BY <3>3 DEF OnDoubled
            <4>2. g \in closed
                BY <1>1, <1>4, <4>1, Types DEF TypeOK
            <4> QED BY <1>2, <4>1, <4>2 DEF Excused
        <3> QED BY <3>1, <3>2, <3>3 DEF Excused
    <2>3. Answered'
        BY <1>1, <1>2, <2>2 DEF Answered
    <2> QED BY <2>1, <2>3
<1> QED BY <1>7, <1>9, <1>10, <1>11 DEF IInv

-----------------------------------------------------------------------------
(* The frame *)

\* The viewer that is sent to is the one the frame has come to in the list.
LEMMA HereInList ==
    ASSUME IInv, sending \in Pieces
    PROVE  /\ Here \in 1 .. Len(viewers) /\ rest # <<>> /\ Head(rest) = viewers[Here]
           /\ rest \in Seq(Viewer) /\ Len(rest) \in 1 .. Len(viewers) /\ Len(viewers) \in Nat
           /\ \A i \in 1 .. Len(rest) : rest[i] = viewers[Len(viewers) - Len(rest) + i]
           /\ lock = "mjpeg" /\ viewers[Here].fd \in Fds
<1>1. TypeOK /\ Walks
    BY DEF IInv
<1>2. /\ lock = "mjpeg" /\ Len(rest) \in 1 .. Len(viewers)
      /\ \A i \in 1 .. Len(rest) : rest[i] = viewers[Len(viewers) - Len(rest) + i]
    BY <1>1 DEF Walks
<1>3. rest \in Seq(Viewer) /\ Len(viewers) \in Nat /\ Len(rest) \in Nat
    BY <1>1, Types DEF TypeOK, Viewer
<1>4. rest # <<>> /\ Head(rest) = rest[1] /\ 1 \in 1 .. Len(rest)
    BY <1>2, <1>3
<1>5. Here \in 1 .. Len(viewers) /\ Len(viewers) - Len(rest) + 1 = Here
    BY <1>2, <1>3 DEF Here
<1>6. rest[1] = viewers[Here]
    BY <1>2, <1>4, <1>5
<1>7. viewers[Here].fd \in Fds
    BY <1>1, <1>5, Types
<1> QED BY <1>2, <1>3, <1>4, <1>5, <1>6, <1>7

\* The client a piece goes to, what it had and what it has.
LEMMA PieceGoesTo ==
    ASSUME IInv, SendPiece
    PROVE  LET c == owner[viewers[Here].fd]
           IN  /\ c \in Clients \cup {NoClient}
               /\ c = NoClient => UNCHANGED <<got, unread>>
               /\ c # NoClient =>
                      /\ c \in Clients /\ ~Closed
                      /\ c \notin gone => unread[c] < Room
                      /\ Send(c, sending)
                      /\ viewers[Here].fd \in doubled => OnDoubled(c)
                      /\ viewers[Here].fd \notin doubled =>
                             /\ c = viewers[Here].client
                             /\ \/ c \in again
                                \/ request[c] = "streaming" /\ (c \in gone \/ got[c] \in Last(Here))
<1> DEFINE c == owner[viewers[Here].fd]
<1>1. TypeOK /\ Slotted /\ Owned /\ Entered /\ Watched /\ sending \in Pieces
    BY DEF IInv, SendPiece, Pieces
<1>2. Here \in 1 .. Len(viewers) /\ Head(rest) = viewers[Here] /\ viewers[Here].fd \in Fds
    BY <1>1, HereInList
<1>3. c \in Clients \cup {NoClient} /\ viewers[Here].client \in Clients /\ NoClient \notin Clients
    BY <1>1, <1>2, Types
<1>4. IF c # NoClient THEN HasRoom(c) /\ Send(c, sending) ELSE UNCHANGED <<got, unread>>
    BY <1>2 DEF SendPiece
<1>5. viewers[Here].fd \in doubled => OnDoubled(c)
    BY DEF OnDoubled
<1>6. c # NoClient => ~Closed
    BY <1>2 DEF Closed
<1>7. c # NoClient /\ viewers[Here].fd \notin doubled =>
          /\ c = viewers[Here].client
          /\ \/ c \in again
             \/ request[c] = "streaming" /\ (c \in gone \/ got[c] \in Last(Here))
    <2> SUFFICES ASSUME c # NoClient, viewers[Here].fd \notin doubled
                 PROVE  /\ c = viewers[Here].client
                        /\ \/ c \in again
                           \/ request[c] = "streaming" /\ (c \in gone \/ got[c] \in Last(Here))
        OBVIOUS
    <2>1. c = viewers[Here].client
        BY <1>1, <1>2, <1>6 DEF Entered
    <2>2. viewers[Here].client \notin again =>
              /\ request[viewers[Here].client] = "streaming"
              /\ viewers[Here].client \in gone \/ got[viewers[Here].client] \in Last(Here)
        BY <1>1, <1>2, <1>6 DEF Watched
    <2> HIDE DEF c
    <2> QED BY <2>1, <2>2
<1> HIDE DEF c
<1>8. /\ c \in Clients \cup {NoClient}
      /\ c = NoClient => UNCHANGED <<got, unread>>
      /\ c # NoClient =>
             /\ c \in Clients /\ ~Closed
             /\ c \notin gone => unread[c] < Room
             /\ Send(c, sending)
             /\ viewers[Here].fd \in doubled => OnDoubled(c)
             /\ viewers[Here].fd \notin doubled =>
                    /\ c = viewers[Here].client
                    /\ \/ c \in again
                       \/ request[c] = "streaming" /\ (c \in gone \/ got[c] \in Last(Here))
    BY <1>3, <1>4, <1>5, <1>6, <1>7 DEF HasRoom
<1> QED BY <1>8 DEF c

LEMMA SendPieceStep ==
    ASSUME IInv, SendPiece PROVE IInv'
<1> USE DEF asking, streams
<1> DEFINE c == owner[viewers[Here].fd]
<1>1. /\ TypeOK /\ Slotted /\ Owned /\ Cleaned /\ Entered /\ AtWork /\ Walks /\ Answered /\ Watched
      /\ sending \in Pieces
    BY DEF IInv, SendPiece, Pieces
<1>2. /\ UNCHANGED <<link, asking, gone, owner, failures, pc, polling, streams, freed, running, main>>
      /\ IF sending = "jpeg"
         THEN /\ rest' = Tail(rest) /\ lock' = LockAfter(rest')
              /\ sending' = IF rest' = <<>> THEN "idle" ELSE "boundary"
         ELSE /\ UNCHANGED <<rest, lock>> /\ sending' = PieceAfter(sending)
    BY DEF SendPiece, After, PieceAfter
<1>3. /\ Here \in 1 .. Len(viewers) /\ rest # <<>> /\ rest \in Seq(Viewer)
      /\ Len(rest) \in 1 .. Len(viewers) /\ Len(viewers) \in Nat /\ lock = "mjpeg"
      /\ \A i \in 1 .. Len(rest) : rest[i] = viewers[Len(viewers) - Len(rest) + i]
      /\ viewers[Here].fd \in Fds
    BY <1>1, HereInList
<1>4. /\ c \in Clients \cup {NoClient}
      /\ c = NoClient => UNCHANGED <<got, unread>>
      /\ c # NoClient =>
             /\ c \in Clients /\ ~Closed
             /\ c \notin gone => unread[c] < Room
             /\ Send(c, sending)
             /\ viewers[Here].fd \in doubled => OnDoubled(c)
             /\ viewers[Here].fd \notin doubled =>
                    /\ c = viewers[Here].client
                    /\ \/ c \in again
                       \/ request[c] = "streaming" /\ (c \in gone \/ got[c] \in Last(Here))
    BY PieceGoesTo
<1> HIDE DEF c
<1>5. /\ unread' \in [Clients -> 0 .. Room]
      /\ got' \in [Clients -> {"nothing", "page", "header", "boundary", "length", "jpeg"}]
      /\ \A d \in Clients : d # c \/ d \in gone => unread'[d] = unread[d] /\ got'[d] = got[d]
      /\ c \in Clients /\ c \notin gone => got'[c] = sending
    <2>1. CASE c = NoClient
        BY <1>1, <1>4, <2>1, Types DEF TypeOK
    <2>2. CASE c # NoClient
        <3>1. sending \in {"page", "header", "boundary", "length", "jpeg"}
            BY <1>1 DEF Pieces
        <3> QED BY <1>1, <1>4, <2>2, <3>1, SendTo
    <2> QED BY <2>1, <2>2
<1>6. \/ sending = "boundary" /\ sending' = "length" /\ UNCHANGED <<rest, lock>>
      \/ sending = "length" /\ sending' = "jpeg" /\ UNCHANGED <<rest, lock>>
      \/ sending = "jpeg" /\ sending' = "boundary" /\ rest' = Tail(rest) /\ rest' # <<>> /\ lock' = "mjpeg"
      \/ sending = "jpeg" /\ sending' = "idle" /\ rest' = Tail(rest) /\ lock' = "free"
    <2>1. CASE sending = "jpeg"
        BY <1>2, <2>1 DEF LockAfter
    <2>2. CASE sending \in {"boundary", "length"}
        BY <1>2, <2>2 DEF PieceAfter
    <2> QED BY <1>1, <2>1, <2>2 DEF Pieces
<1>7. Tail(rest) \in Seq(Viewer) /\ Len(Tail(rest)) = Len(rest) - 1
      /\ \A i \in 1 .. Len(rest) - 1 : Tail(rest)[i] = rest[i + 1]
    BY <1>3, HeadTailProperties
<1>8. TypeOK'
    <2>1. rest' \in Seq(Viewer) /\ lock' \in {"free", "mjpeg"} /\ sending' \in {"idle", "boundary", "length", "jpeg"}
        BY <1>3, <1>6, <1>7
    <2> QED BY <1>1, <1>2, <1>5, <2>1 DEF TypeOK, Viewer, polling
<1>9. Slotted' /\ Owned' /\ Cleaned' /\ Entered' /\ (Closed' <=> Closed)
    BY <1>1, <1>2 DEF Slotted, Owned, Cleaned, Entered, Closed, Up, polling
<1>10. Walks'
    <2>1. CASE UNCHANGED <<rest, lock>>
        BY <1>2, <1>3, <2>1 DEF Walks
    <2>2. CASE sending' = "boundary" /\ rest' = Tail(rest) /\ rest' # <<>> /\ lock' = "mjpeg"
        <3>1. Len(rest') = Len(rest) - 1 /\ Len(rest') \in Nat /\ Len(rest') # 0
            BY <1>3, <1>7, <2>2
        <3>2. Len(rest') \in 1 .. Len(viewers)
            BY <1>3, <3>1
        <3>3. ASSUME NEW i \in 1 .. Len(rest') PROVE rest'[i] = viewers[Len(viewers) - Len(rest') + i]
            <4>1. i + 1 \in 1 .. Len(rest) /\ i \in 1 .. Len(rest) - 1
                  /\ Len(viewers) - Len(rest) + (i + 1) = Len(viewers) - Len(rest') + i
                BY <1>3, <3>1
            <4>2. rest'[i] = rest[i + 1]
                BY <1>7, <2>2, <4>1
            <4> QED BY <1>3, <4>1, <4>2
        <3> QED BY <1>2, <2>2, <3>2, <3>3 DEF Walks
    <2>3. CASE sending' = "idle"
        BY <2>3 DEF Walks, Pieces
    <2> QED BY <1>6, <2>1, <2>2, <2>3
<1>11. Answered'
    <2> SUFFICES ASSUME NEW d \in Clients
                 PROVE  /\ request'[d] \in Fresh => got'[d] = "nothing" \/ Excused(d)'
                        /\ d \in gone' => got'[d] = "nothing"
        BY DEF Answered
    <2>1. /\ request[d] \in Fresh => got[d] = "nothing" \/ Excused(d)
          /\ d \in gone => got[d] = "nothing"
        BY <1>1 DEF Answered
    <2>2. Excused(d)' <=> Excused(d)
        BY <1>2 DEF Excused, OnDoubled
    <2>3. d = c /\ request[d] \in Fresh => Excused(d)
        <3> SUFFICES ASSUME d = c, request[d] \in Fresh PROVE Excused(d)
            OBVIOUS
        <3>1. d # NoClient /\ request[d] # "streaming"
            BY <1>1, Types DEF Fresh
        <3> QED BY <1>4, <3>1 DEF Excused
    <2> QED BY <1>2, <1>5, <2>1, <2>2, <2>3
<1>12. AtWork'
    <2>1. ClientOf(slot)' = ClientOf(slot)
        BY <1>2 DEF ClientOf, polling
    <2>2. pc \in {"enlist", "enlist failed"} =>
              \/ viewers[Here].fd = fds[slot].fd
              \/ ClientOf(slot) \in Clients /\ got'[ClientOf(slot)] = got[ClientOf(slot)]
        <3> SUFFICES ASSUME pc \in {"enlist", "enlist failed"}, viewers[Here].fd # fds[slot].fd
                     PROVE  ClientOf(slot) \in Clients /\ got'[ClientOf(slot)] = got[ClientOf(slot)]
            OBVIOUS
        <3>1. slot \in 1 .. count - 1 /\ Up
            BY <1>1 DEF AtWork, Up
        <3>2. ClientOf(slot) \in Clients /\ fds[slot].fd \in Fds /\ owner[fds[slot].fd] = ClientOf(slot)
            BY <1>1, <3>1, SlotHasClient
        <3>3. ClientOf(slot) # c
            <4>1. \A f, g \in Fds : owner[f] = owner[g] /\ owner[f] # NoClient => f = g
                BY <1>1 DEF Owned
            <4>2. ClientOf(slot) # NoClient
                BY <1>1, <3>2, Types
            <4> QED BY <1>3, <3>2, <4>1, <4>2 DEF c
        <3> QED BY <1>5, <3>2, <3>3
    <2> QED BY <1>1, <1>2, <1>3, <2>1, <2>2 DEF AtWork, polling
<1>13. Watched'
    <2> SUFFICES ASSUME ~Closed, NEW j \in 1 .. Len(viewers), viewers[j].fd \notin doubled,
                        viewers[j].client \notin again
                 PROVE  /\ request[viewers[j].client] = "streaming"
                        /\ viewers[j].client \in gone \/ got'[viewers[j].client] \in Last(j)'
        BY <1>2, <1>9 DEF Watched
    <2> DEFINE d == viewers[j].client
    <2>1. /\ request[d] = "streaming" /\ (d \in gone \/ got[d] \in Last(j)) /\ d \in Clients
          /\ owner[viewers[j].fd] = d /\ viewers[j].fd \in Fds /\ d # NoClient
        BY <1>1, Types DEF Watched, Entered
    <2>2. c # NoClient => c \in Clients
        BY <1>4
    <2>3. CASE j = Here
        <3>1. d = c
            BY <2>1, <2>3 DEF c
        <3>2. d \notin gone => got'[d] = sending
            BY <1>5, <2>1, <3>1
        <3>3. sending \in Last(j)'
            <4>1. UNCHANGED rest => j = Here'
                BY <1>2, <2>3 DEF Here
            <4> QED BY <1>6, <4>1 DEF Last
        <3> QED BY <2>1, <3>2, <3>3
    <2>4. CASE j # Here
        <3>1. d # c
            <4>1. viewers[j].fd # viewers[Here].fd
                BY <1>1, <1>3, <2>4 DEF Entered
            <4> QED BY <1>1, <1>3, <2>1, <4>1 DEF Owned, c
        <3>2. got'[d] = got[d]
            BY <1>5, <2>1, <3>1
        <3>3. Last(j)' = Last(j)
            <4>1. UNCHANGED rest => Here' = Here
                BY <1>2 DEF Here
            <4> QED BY <1>6, <2>4, <4>1 DEF Last
        <3> QED BY <2>1, <3>2, <3>3
    <2> QED BY <2>3, <2>4
<1> QED BY <1>8, <1>9, <1>10, <1>11, <1>12, <1>13 DEF IInv

-----------------------------------------------------------------------------
(* The invariant *)

LEMMA InvInit == Init => IInv
<1> SUFFICES ASSUME Init PROVE IInv
    OBVIOUS
<1> USE DEF Init
<1>1. /\ Slots \in Nat \ {0} /\ Room \in Nat \ {0} /\ {MaxMore, MaxFailures, MaxClients} \subseteq Nat
      /\ NoClient \notin Clients
    BY HttpServerConstants DEF Clients, NoClient
<1>2. TypeOK
    <2>1. /\ link \in [Clients -> {"none", "waiting", "open", "closed"}]
          /\ request \in [Clients -> {"unsent", "page", "stream", "paged", "streaming"}]
          /\ got \in [Clients -> {"nothing", "page", "header", "boundary", "length", "jpeg"}]
          /\ owner \in [Fds -> Clients \cup {NoClient}]
        OBVIOUS
    <2>2. unread \in [Clients -> 0 .. Room] /\ failures \in 0 .. MaxFailures /\ slot \in 0 .. Slots
          /\ count \in 1 .. Slots
        BY <1>1
    <2>3. fds \in [0 .. Slots - 1 -> [fd: Fds, ready: BOOLEAN]]
        <3>1. [fd |-> 0, ready |-> FALSE] \in [fd: Fds, ready: BOOLEAN]
            BY <1>1 DEF Fds
        <3> QED BY <3>1
    <2>4. freed \in BOOLEAN /\ running \in BOOLEAN
        OBVIOUS
    <2>5. viewers \in Seq([fd: Fds, client: Clients]) /\ rest \in Seq([fd: Fds, client: Clients])
        OBVIOUS
    <2>7. more \in 0 .. MaxMore /\ again \subseteq Clients /\ doubled \subseteq Fds
        BY <1>1
    <2>6. gone \subseteq Clients /\ pc = "poll" /\ sending = "idle" /\ lock = "free" /\ main = "heartbeat"
        OBVIOUS
    <2> HIDE DEF Init
    <2> QED BY <2>1, <2>2, <2>3, <2>4, <2>5, <2>6, <2>7 DEF TypeOK
<1>3. \A f \in Fds : owner[f] = NoClient
    OBVIOUS
<1>4. Slotted
    BY <1>3 DEF Slotted
<1>5. Owned
    BY <1>1, <1>3 DEF Owned
<1>6. Len(viewers) = 0
    OBVIOUS
<1>7. Cleaned /\ Entered /\ AtWork /\ Walks /\ Answered /\ Watched
    BY <1>6 DEF Cleaned, Entered, AtWork, Walks, Answered, Watched, Pieces
<1> QED BY <1>2, <1>4, <1>5, <1>7 DEF IInv

LEMMA Unmoved == IInv /\ UNCHANGED vars => IInv'
<1> SUFFICES ASSUME IInv, UNCHANGED vars PROVE IInv'
    OBVIOUS
<1> USE DEF vars, clients, asking, streams, polling, mjpeg
<1>1. TypeOK'
    BY ZenonT(40) DEF IInv, TypeOK
<1>2. AtWork'
    BY DEF IInv, AtWork, ClientOf
<1>3. Walks'
    BY DEF IInv, Walks
<1> QED BY <1>1, <1>2, <1>3, Elsewhere DEF Up

LEMMA InvStep == IInv /\ [Next]_vars => IInv'
<1> SUFFICES ASSUME IInv, [Next]_vars PROVE IInv'
    OBVIOUS
<1>1. CASE Browser
    BY <1>1, BrowserStep
<1>2. CASE Http
    <2>1. CASE Poll \/ Accept
        BY <2>1, PollStep, AcceptStep
    <2>2. CASE \/ AcceptFails \/ EndPass \/ Cancelled
               \/ \E k \in 1 .. Slots - 1 : RecvEnd(k) \/ PageCannotBeOpened(k)
        BY <2>2, LookStep
    <2>3. CASE \E k \in 1 .. Slots - 1 : AnswerPage(k) \/ AnswerStream(k)
        BY <2>3, AnswerStep
    <2>4. CASE Enlist \/ Drop \/ Close
        BY <2>4, EnlistStep, DropStep, CloseStep
    <2>5. CASE CloseAll \/ ClearConnections
        BY <2>5, CloseAllStep, OtherStep
    <2> QED BY <1>2, <2>1, <2>2, <2>3, <2>4, <2>5 DEF Http, HttpLock, HttpAnswer
<1>3. CASE Mjpeg
    BY <1>3, OtherStep, SendPieceStep DEF Mjpeg
<1>4. CASE Signal \/ Main
    BY <1>4, OtherStep
<1>5. CASE UNCHANGED vars
    BY <1>5, Unmoved
<1> QED BY <1>1, <1>2, <1>3, <1>4, <1>5 DEF Next

LEMMA Invariance == Spec => []IInv
BY InvInit, InvStep, PTL DEF Spec

\* Every state is of its type: there is a free descriptor for each connection
\* that is accepted, and room for each answer (http.c 173-191).
THEOREM TypeCorrect == Spec => []TypeOK
<1>1. IInv => TypeOK
    BY DEF IInv
<1> QED BY <1>1, Invariance, PTL

\* Whatever is accepted, refused and removed, the slots in use are the open
\* sockets, each once (http.c 180-191 and 245-252).
THEOREM SlotsAreSockets == Spec => []SlotsAreOpenSockets
<1>1. IInv => SlotsAreOpenSockets
    <2> SUFFICES ASSUME IInv, Up
                 PROVE  /\ \A k, l \in 1 .. count - 1 : fds[k].fd = fds[l].fd => k = l
                        /\ {fds[k].fd : k \in 1 .. count - 1} = {f \in Fds : owner[f] # NoClient}
                        /\ \A c \in Clients : link[c] = "open" <=> \E f \in Fds : owner[f] = c
        BY DEF SlotsAreOpenSockets
    <2>1. TypeOK /\ Slotted /\ Owned
        BY DEF IInv
    <2>2. \A k \in 1 .. count - 1 : fds[k].fd \in Fds
        BY <2>1, Types
    <2> QED BY <2>1, <2>2 DEF Slotted, Owned
<1> QED BY <1>1, Invariance, PTL

\* Whoever is in the list owns the descriptor it asked with, and is in it once: no
\* frame goes to a connection that got the number later (http.c 231-245).  Said of
\* the descriptors that were not entered twice, as a client may that asks for the
\* stream again (http.c 209-212 and 289-293).
THEOREM FramesGoToWhoAsked == Spec => []StreamsReachWhoAsked
<1>1. IInv => StreamsReachWhoAsked
    <2> SUFFICES ASSUME IInv, Up, NEW j \in DOMAIN viewers, viewers[j].fd \notin doubled
                 PROVE  /\ owner[viewers[j].fd] = viewers[j].client
                        /\ \A h \in DOMAIN viewers : viewers[j].fd = viewers[h].fd => j = h
        BY DEF StreamsReachWhoAsked
    <2>1. DOMAIN viewers = 1 .. Len(viewers)
        <3>1. viewers \in Seq(Viewer)
            BY DEF IInv, TypeOK, Viewer
        <3> QED BY <3>1
    <2> QED BY <2>1 DEF IInv, Entered, Closed
<1> QED BY <1>1, Invariance, PTL

\* A frame goes through the list under the mutex, which nobody changes
\* meanwhile (mjpeg.c 34-50).
THEOREM ListStaysForFrame == Spec => []FrameWalksList
<1>1. IInv => FrameWalksList
    <2> SUFFICES ASSUME IInv, sending \in Pieces
                 PROVE  /\ lock = "mjpeg" /\ Len(rest) \in 1 .. Len(viewers)
                        /\ rest = SubSeq(viewers, Len(viewers) - Len(rest) + 1, Len(viewers))
        BY DEF FrameWalksList, Pieces
    <2> DEFINE n == Len(viewers)
               r == Len(rest)
    <2>1. /\ r \in 1 .. n /\ n \in Nat /\ rest \in Seq(Viewer) /\ lock = "mjpeg"
          /\ \A i \in 1 .. r : rest[i] = viewers[n - r + i]
        BY HereInList
    <2>2. \A i \in 1 .. n : viewers[i] \in Viewer
        <3>1. viewers \in Seq(Viewer)
            BY DEF IInv, TypeOK, Viewer
        <3> QED BY <3>1
    <2> DEFINE t == SubSeq(viewers, n - r + 1, n)
    <2> HIDE DEF n, r
    <2>3. t \in Seq(Viewer) /\ Len(t) = r /\ \A i \in 1 .. r : t[i] = viewers[n - r + i]
        <3>1. \A i \in n - r + 1 .. n : viewers[i] \in Viewer
            BY <2>1, <2>2
        <3>2. /\ t \in Seq(Viewer)
              /\ Len(t) = IF n - r + 1 <= n THEN n - (n - r + 1) + 1 ELSE 0
              /\ \A i \in 1 .. n - (n - r + 1) + 1 : t[i] = viewers[(n - r + 1) + i - 1]
            BY <2>1, <3>1, SubSeqProperties
        <3> HIDE DEF t
        <3>3. n - (n - r + 1) + 1 = r /\ n - r + 1 <= n
            BY <2>1
        <3>4. \A i \in 1 .. r : (n - r + 1) + i - 1 = n - r + i
            BY <2>1
        <3> QED BY <3>2, <3>3, <3>4
    <2> HIDE DEF t
    <2>4. rest = t
        BY <2>1, <2>3, SeqEqual DEF r
    <2> QED BY <2>1, <2>4 DEF n, r, t
<1> QED BY <1>1, Invariance, PTL

\* A client that asks once sees one answer: a page, or the header and then frames
\* of which no piece is missing, doubled or out of order (http.c 288-293, mjpeg.c
\* 41-47), unless its descriptor was entered twice.
THEOREM OneWholeAnswer == Spec => AnswersAreWhole
<1>1. IInv /\ [Next]_vars =>
          [\A c \in Clients \ again :
               got'[c] # got[c] /\ ~OnDoubled(c)
                   => <<got[c], got'[c]>> \in Streams \/ c \in gone' \ gone]_vars
    <2> SUFFICES ASSUME IInv, Next, NEW c \in Clients \ again, got'[c] # got[c], ~OnDoubled(c)
                 PROVE  <<got[c], got'[c]>> \in Streams \/ c \in gone' \ gone
        OBVIOUS
    <2> USE DEF clients
    <2>1. TypeOK /\ Slotted /\ Owned /\ Answered
        BY DEF IInv
    <2>2. got' # got
        OBVIOUS
    <2>3. \/ Browser \/ (\E k \in 1 .. Slots - 1 : AnswerPage(k) \/ AnswerStream(k)) \/ SendPiece
        BY <2>2 DEF Next, Http, Poll, Accept, AcceptFails, EndPass, RecvEnd, Enlist, Drop, Close, Cancelled,
                CloseAll, ClearConnections, HttpLock, HttpAnswer, PageCannotBeOpened, Mjpeg, FrameDue, FrameDueAfterFree, Astray,
                Signal, Main, HeartbeatReturns, Joined, PortDisabled
    <2>4. CASE Browser
        <3>1. PICK d \in Clients : Leave(d)
            BY <2>2, <2>4 DEF Browser, Connect, Read, Ask
        <3>2. d = c
            BY <2>1, <3>1 DEF Leave, TypeOK
        <3> QED BY <3>1, <3>2 DEF Leave
    <2>5. ASSUME NEW k \in 1 .. Slots - 1, AnswerPage(k) \/ AnswerStream(k)
          PROVE  <<got[c], got'[c]>> \in Streams
        <3>1. k \in 1 .. count - 1 /\ Up
            <4>1. pc = "scan" /\ k \in slot .. count - 1
                BY <2>5 DEF AnswerPage, AnswerStream, AtSlot
            <4>2. slot \in 0 .. Slots /\ count \in 1 .. Slots
                BY <2>1 DEF TypeOK
            <4>3. Slots \in Nat \ {0}
                BY HttpServerConstants
            <4>4. k \in 1 .. count - 1
                BY <4>1, <4>2, <4>3
            <4> QED BY <4>1, <4>4 DEF Up
        <3>2. ClientOf(k) \in Clients /\ link[ClientOf(k)] = "open"
            BY <2>1, <3>1, SlotHasClient DEF Owned
        <3>3. request[ClientOf(k)] \in Fresh /\ HasRoom(ClientOf(k))
            BY <2>5 DEF AnswerPage, AnswerStream, Fresh
        <3>4. got[ClientOf(k)] = "nothing" \/ ClientOf(k) \in again \/ OnDoubled(ClientOf(k))
            BY <2>1, <3>2, <3>3 DEF Answered, Excused
        <3>5. ClientOf(k) \notin gone => unread[ClientOf(k)] < Room
            BY <3>3 DEF HasRoom
        <3>6. PICK piece \in {"page", "header"} : Send(ClientOf(k), piece)
            BY <2>5 DEF AnswerPage, AnswerStream
        <3>7. c = ClientOf(k) /\ got'[c] = piece
            BY <2>1, <3>2, <3>5, <3>6, SendTo
        <3> QED BY <3>4, <3>7 DEF Streams
    <2>6. CASE SendPiece
        <3> DEFINE d == owner[viewers[Here].fd]
        <3>1. /\ d # NoClient /\ d \in Clients /\ (d \notin gone => unread[d] < Room) /\ Send(d, sending)
              /\ OnDoubled(d) \/ d \in again \/ d \in gone \/ got[d] \in Last(Here)
            BY <2>2, <2>6, PieceGoesTo
        <3> HIDE DEF d
        <3>2. sending \in Pieces
            BY <2>6 DEF SendPiece, Pieces
        <3>3. c = d /\ c \notin gone /\ got'[c] = sending
            BY <2>1, <3>1, <3>2, SendTo DEF Pieces
        <3>4. <<got[c], sending>> \in Streams
            BY <3>1, <3>2, <3>3 DEF Last, Pieces, Streams
        <3> QED BY <3>3, <3>4
    <2> QED BY <2>3, <2>4, <2>5, <2>6
<1> QED BY <1>1, Invariance, PTL DEF Spec, AnswersAreWhole
=============================================================================
