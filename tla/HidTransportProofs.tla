-------------------------- MODULE HidTransportProofs --------------------------
(***************************************************************************)
(* The packet loop and the registry, for any hosts, messages and lengths.  *)
(* What HidTransport adds to RequestRegistry is invisible to it: every     *)
(* packet registers a request of a host that was ready for one, cancels    *)
(* the channel's request, or changes nothing.  That a host is still ready  *)
(* when a stray continuation completes its message is PendingInv.          *)
(* PacketInv follows the packets in the buffer and in the requests, none   *)
(* of them twice; IntactInv says where a message is that nobody tore: the  *)
(* buffer holds it and nothing else, or one request has all of it.         *)
(*                                                                         *)
(* Of the responses FrameInv says that the host has read what was written, *)
(* frame by frame (InSync), or has lost a response that is too long        *)
(* (Dropped).  It holds because patient hosts have one response written    *)
(* at a time on a channel, which is OneOpen of the registry.               *)
(***************************************************************************)
EXTENDS HidTransport, RequestRegistryProofs, SequenceTheorems

(* What is in the buffer of the loop is nothing, or the beginning of a     *)
(* request of a host that waits for nothing else.                          *)
PendingInv ==
    /\ DOMAIN pending = {"need", "chan", "kind", "data"}
    /\ pending.kind \in {"request", "other"}
    /\ pending.kind = "request" => pending.chan \in Channels /\ HostReady(pending.chan)

HidInv == SlotInv /\ PendingInv

(* The empty buffer is harmless.                                           *)
LEMMA BlankIsPending == ASSUME pending' = Blank PROVE PendingInv'
  BY DEF PendingInv, Blank

(* A host that waits for nothing goes on so while others are served.       *)
LEMMA ReadyStays ==
    ASSUME SlotInv, PendingInv, UNCHANGED <<pending, newest>>,
           NEW r \in Requests, ~Ended(r), \A q \in Requests : q # r => at'[q] = at[q]
    PROVE  PendingInv'
<1>1. SUFFICES ASSUME pending.kind = "request" PROVE HostReady(pending.chan)'
  BY DEF PendingInv
<1> DEFINE c == pending.chan
<1>2. c \in Channels /\ HostReady(c)
  BY <1>1 DEF PendingInv
<1>3. newest[c] \in Requests \cup {0}
  BY <1>2 DEF SlotInv, RegTypeOK
<1>4. CASE Patient /\ newest[c] # 0
  <2>1. Ended(newest[c])
    BY <1>2, <1>4 DEF HostReady
  <2>2. at'[newest[c]] = at[newest[c]]
    BY <1>3, <1>4, <2>1
  <2> QED BY <2>1, <2>2 DEF HostReady, Ended
<1> QED
  BY <1>4 DEF HostReady

(* A whole message registers a request of a host that is ready, cancels,   *)
(* or is answered at once.                                                 *)
LEMMA WholeMessage ==
    ASSUME SlotInv, NEW m,
           m.kind = "request" => HostReady(m.chan),
           m.kind = "cancel" => m.chan \in Channels,
           HandOver(m) \/ Cancel(m) \/ AnswerAtOnce(m)
    PROVE  [RegNext]_vars
<1>1. CASE HandOver(m)
  BY <1>1 DEF HandOver, RegNext
<1>2. CASE Cancel(m)
  BY <1>2 DEF Cancel, RegNext
<1>3. CASE AnswerAtOnce(m)
  BY <1>3 DEF AnswerAtOnce
<1> QED
  BY <1>1, <1>2, <1>3

(* The first packet of a message, whole or not.                            *)
LEMMA FirstPacket ==
    ASSUME HidInv, NEW c \in Channels, NEW n \in Nat \ {0}, NEW kind, NEW piece,
           kind \in {"request", "cancel", "other"},
           kind # "request" => n = 1,
           kind = "request" => HostReady(c),
           TakePacket([first |-> TRUE, need |-> n, chan |-> c, kind |-> kind, piece |-> piece])
    PROVE  [RegNext]_vars /\ PendingInv'
<1> DEFINE m == [need |-> n, chan |-> c, kind |-> kind, data |-> <<piece>>]
<1>1. IF Len(m.data) >= m.need
      THEN /\ pending' = Blank
           /\ HandOver(m) \/ Cancel(m) \/ AnswerAtOnce(m)
      ELSE /\ pending' = m
           /\ UNCHANGED <<vars, got, outVars>>
  BY DEF TakePacket, Started, AfterMessage
<1>2. /\ m.need = n /\ m.chan = c /\ m.kind = kind /\ Len(m.data) = 1
      /\ DOMAIN m = {"need", "chan", "kind", "data"}
  OBVIOUS
<1> HIDE DEF m
<1>3. CASE n = 1
  BY <1>1, <1>2, <1>3, WholeMessage, BlankIsPending DEF HidInv
<1>4. CASE n # 1
  <2>1. pending' = m /\ UNCHANGED vars
    BY <1>1, <1>2, <1>4
  <2>2. HostReady(c)'
    BY <1>4, <2>1 DEF HostReady, Ended, vars
  <2> QED BY <1>2, <1>4, <2>1, <2>2 DEF PendingInv
<1> QED
  BY <1>3, <1>4

(* Any other packet, with whatever is in the buffer.                       *)
LEMMA NextPacket ==
    ASSUME HidInv, NEW piece, TakePacket([first |-> FALSE, piece |-> piece])
    PROVE  [RegNext]_vars /\ PendingInv'
<1> DEFINE m == [pending EXCEPT !.data = Append(@, piece)]
<1>1. IF Len(m.data) >= m.need
      THEN /\ pending' = Blank
           /\ HandOver(m) \/ Cancel(m) \/ AnswerAtOnce(m)
      ELSE /\ pending' = m
           /\ UNCHANGED <<vars, got, outVars>>
  BY DEF TakePacket, AfterMessage
<1>2. m.chan = pending.chan /\ m.kind = pending.kind /\ DOMAIN m = DOMAIN pending
  BY DEF HidInv, PendingInv
<1> HIDE DEF m
<1>3. CASE Len(m.data) >= m.need
  <2>1. pending' = Blank /\ (HandOver(m) \/ Cancel(m) \/ AnswerAtOnce(m))
    BY <1>1, <1>3
  <2>2. m.kind # "cancel" /\ (m.kind = "request" => HostReady(m.chan))
    BY <1>2 DEF HidInv, PendingInv
  <2>3. [RegNext]_vars
    BY <2>1, <2>2, WholeMessage DEF HidInv
  <2> QED BY <2>1, <2>3, BlankIsPending
<1>4. CASE ~(Len(m.data) >= m.need)
  <2>1. pending' = m /\ UNCHANGED vars
    BY <1>1, <1>4
  <2>2. pending.kind = "request" => HostReady(pending.chan)'
    BY <1>2, <2>1 DEF HidInv, PendingInv, HostReady, Ended, vars
  <2>3. PendingInv
    BY DEF HidInv
  <2> QED BY <1>2, <2>1, <2>2, <2>3 DEF PendingInv
<1> QED
  BY <1>3, <1>4

(* Every step is one of the registry, or nothing to it.                    *)
LEMMA HidStep ==
    ASSUME HidInv, [HidNext]_hidVars
    PROVE  [RegNext]_vars /\ PendingInv'
<1>1. ASSUME NEW c \in Channels, NEW n \in 1..MaxPackets, Send(c, n)
      PROVE  [RegNext]_vars /\ PendingInv'
  <2> DEFINE p == <<Len(msgs) + 1, 1>>
  <2>1. n \in Nat \ {0}
    BY HidAssumption
  <2>2. /\ HostReady(c)
        /\ TakePacket([first |-> TRUE, need |-> n, chan |-> c, kind |-> "request",
                       piece |-> p])
    BY <1>1 DEF Send
  <2> HIDE DEF p
  <2> QED BY <2>1, <2>2, FirstPacket
<1>2. ASSUME NEW c \in Channels, Continue(c) PROVE [RegNext]_vars /\ PendingInv'
  BY <1>2, NextPacket DEF Continue
<1>3. ASSUME NEW c \in Channels, NEW kind \in {"cancel", "other"}, SendSingle(c, kind)
      PROVE  [RegNext]_vars /\ PendingInv'
  <2>1. TakePacket([first |-> TRUE, need |-> 1, chan |-> c, kind |-> kind, piece |-> <<0, 1>>])
    BY <1>3 DEF SendSingle
  <2> QED BY <2>1, FirstPacket
<1>4. ASSUME NEW r \in Requests, Respond(r) PROVE [RegNext]_vars /\ PendingInv'
  <2>1. BeginResponse(r) /\ UNCHANGED pending
    BY <1>4 DEF Respond, inVars
  <2>2. ~Ended(r) /\ UNCHANGED newest /\ \A q \in Requests : q # r => at'[q] = at[q]
    BY <2>1 DEF BeginResponse, MayAnswer, Ended, HidInv, SlotInv, RegTypeOK
  <2> QED BY <2>1, <2>2, ReadyStays DEF RegNext, HidInv
<1>5. ASSUME NEW r \in Requests, Return(r) PROVE [RegNext]_vars /\ PendingInv'
  <2>1. EndResponse(r) /\ UNCHANGED pending
    BY <1>5 DEF Return, inVars
  <2>2. ~Ended(r) /\ UNCHANGED newest /\ \A q \in Requests : q # r => at'[q] = at[q]
    BY <2>1 DEF EndResponse, Ended, HidInv, SlotInv, RegTypeOK
  <2> QED BY <2>1, <2>2, ReadyStays DEF RegNext, HidInv
<1>6. ASSUME NEW r \in Requests, Abandon(r) PROVE [RegNext]_vars /\ PendingInv'
  <2>1. EndSilently(r) /\ UNCHANGED pending
    BY <1>6 DEF Abandon, inVars
  <2>2. ~Ended(r) /\ UNCHANGED newest /\ \A q \in Requests : q # r => at'[q] = at[q]
    BY <2>1 DEF EndSilently, Ended, HidInv, SlotInv, RegTypeOK
  <2> QED BY <2>1, <2>2, ReadyStays DEF RegNext, HidInv
<1>7. ASSUME UNCHANGED <<vars, pending>> PROVE [RegNext]_vars /\ PendingInv'
  BY <1>7 DEF HidInv, PendingInv, HostReady, Ended, vars
<1>8. ASSUME NEW r \in Requests, WriteFrame(r) PROVE [RegNext]_vars /\ PendingInv'
  BY <1>7, <1>8 DEF WriteFrame, inVars
<1>9. CASE UNCHANGED hidVars
  BY <1>7, <1>9 DEF hidVars
<1> QED
  BY <1>1, <1>2, <1>3, <1>4, <1>5, <1>6, <1>8, <1>9 DEF HidNext

(* The invariant of the registry and the buffer.                           *)
LEMMA HidInvariant == HidSpec => []HidInv
<1>1. HidInit => HidInv
  BY SlotInit DEF HidInit, HidInv, PendingInv, Blank
<1>2. HidInv /\ [HidNext]_hidVars => HidInv'
  BY HidStep, SlotStep DEF HidInv
<1> QED
  BY <1>1, <1>2, PTL DEF HidSpec

(* The packet loop implements the registry: mixed, repeated and stray      *)
(* packets amount to requests of hosts that wait for their turn.           *)
THEOREM HidImplementsRegistry == HidSpec => ImplementsRegistry
<1>1. HidInit => RegInit
  BY DEF HidInit
<1>2. HidInv /\ [HidNext]_hidVars => [RegNext]_vars
  BY HidStep
<1> QED
  BY <1>1, <1>2, HidInvariant, PTL DEF HidSpec, RegSpec, ImplementsRegistry

(* So CANCEL hits the newest request of its channel below packets, too.    *)
THEOREM HidCancelHitsTheNewest == HidSpec => []SlotIsNewest
  BY HidImplementsRegistry, CancelHitsTheNewest, PTL DEF ImplementsRegistry

(* And hosts that are patient message by message get whole responses and   *)
(* can cancel what they asked for.                                         *)
THEOREM HidServesPatientHosts == Patient => (HidSpec => [](Cancelable /\ WholeResponses))
<1> SUFFICES ASSUME Patient PROVE HidSpec => [](Cancelable /\ WholeResponses)
  OBVIOUS
<1>1. RegSpec => []Cancelable
  BY PatientRequestsAreCancelable
<1>2. RegSpec => []WholeResponses
  BY PatientResponsesAreWhole
<1> QED
  BY <1>1, <1>2, HidImplementsRegistry, PTL DEF ImplementsRegistry
-----------------------------------------------------------------------------
(* Where the packets go.  h is the list of messages sent so far, d the     *)
(* data in the buffer and c the channel it came from.                      *)
Pieces == Nat \X Nat
Messages == [by: Channels, size: Nat, sent: Nat, torn: BOOLEAN]

WasSent(h, p) == p \in Pieces /\ p[1] \in 1..Len(h) /\ p[2] \in 1..h[p[1]].sent

MadeOf(h, d, c) ==
    /\ d \in Seq(Pieces)
    /\ \A i \in 1..Len(d) : WasSent(h, d[i])
    /\ \A i, j \in 1..Len(d) : d[i] = d[j] => i = j
    /\ d # <<>> => d[1][2] = 1 /\ h[d[1][1]].by = c

Apart(d, e) == \A i \in 1..Len(d), j \in 1..Len(e) : d[i] # e[j]

Placed(h, d, c) ==
    /\ MadeOf(h, d, c)
    /\ \A r \in Requests : MadeOf(h, got[r], chan[r]) /\ Apart(d, got[r])
    /\ \A q, r \in Requests : q # r => Apart(got[q], got[r])

(* More messages, more of the old ones.                                    *)
Grows(h, g) ==
    /\ h \in Seq(Messages) /\ g \in Seq(Messages) /\ Len(h) <= Len(g)
    /\ \A m \in 1..Len(h) : g[m].by = h[m].by /\ h[m].sent <= g[m].sent

(* The buffer of the loop between two packets.                             *)
Buffered ==
    /\ got \in [Requests -> Seq(Pieces)]
    /\ pending.kind = "other" => pending.need = 0
    /\ pending.kind = "request" => pending.data # <<>>
    /\ Placed(msgs, pending.data, pending.chan)

PacketInv ==
    /\ msgs \in Seq(Messages)
    /\ upload \in [Channels -> 0..Len(msgs)]
    /\ Buffered

(* What was sent stays sent.                                               *)
LEMMA MadeOfGrows ==
    ASSUME NEW h, NEW g, Grows(h, g), NEW d, NEW c, MadeOf(h, d, c)
    PROVE  MadeOf(g, d, c)
<1>1. Len(h) \in Nat /\ Len(g) \in Nat /\ Len(d) \in Nat
  BY LenProperties DEF Grows, MadeOf
<1>2. ASSUME NEW p, WasSent(h, p) PROVE WasSent(g, p) /\ g[p[1]].by = h[p[1]].by
  <2>1. h[p[1]] \in Messages /\ g[p[1]] \in Messages
    BY <1>1, <1>2, ElementOfSeq DEF WasSent, Grows
  <2> DEFINE m == p[1]
             i == p[2]
  <2>2. /\ m \in 1..Len(h) /\ i \in 1..h[m].sent /\ p \in Pieces
        /\ h[m].sent \in Nat /\ g[m].sent \in Nat
        /\ h[m].sent <= g[m].sent /\ g[m].by = h[m].by /\ Len(h) <= Len(g)
    BY <1>2, <2>1 DEF WasSent, Grows, Messages
  <2> HIDE DEF m, i
  <2>3. m \in 1..Len(g) /\ i \in 1..g[m].sent
    BY <1>1, <2>2
  <2> QED BY <2>2, <2>3 DEF WasSent, m, i
<1>3. \A i \in 1..Len(d) : WasSent(g, d[i])
  BY <1>2 DEF MadeOf
<1>4. d # <<>> => g[d[1][1]].by = h[d[1][1]].by
  <2>1. d # <<>> => 1 \in 1..Len(d)
    BY <1>1, EmptySeq DEF MadeOf
  <2> QED BY <1>2, <2>1 DEF MadeOf
<1> QED
  BY <1>3, <1>4 DEF MadeOf

(* The same for everything that was taken.                                 *)
LEMMA PlacedGrows ==
    ASSUME NEW h, NEW g, Grows(h, g), NEW d, NEW c, Placed(h, d, c)
    PROVE  Placed(g, d, c)
  BY MadeOfGrows DEF Placed

(* The buffer may be emptied.                                              *)
LEMMA EmptyIsPlaced ==
    ASSUME NEW h, NEW d, NEW c, Placed(h, d, c), NEW e
    PROVE  Placed(h, <<>>, e)
  BY EmptySeq DEF Placed, MadeOf, Apart

(* A new packet at the end of what is in the buffer.                       *)
LEMMA NextIsPlaced ==
    ASSUME NEW h, NEW d, NEW c, Placed(h, d, c), d # <<>>,
           NEW g, Grows(h, g), NEW p, WasSent(g, p), ~WasSent(h, p)
    PROVE  Placed(g, Append(d, p), c) /\ Append(d, p) # <<>>
<1> DEFINE e == Append(d, p)
<1>1. /\ d \in Seq(Pieces) /\ p \in Pieces /\ Len(d) \in Nat /\ Len(d) # 0
  BY EmptySeq, LenProperties DEF Placed, MadeOf, WasSent
<1>2. /\ e \in Seq(Pieces) /\ Len(e) = Len(d) + 1
      /\ \A i \in 1..Len(d) : e[i] = d[i]
      /\ e[Len(d) + 1] = p
  BY <1>1, AppendProperties
<1> HIDE DEF e
<1>3. Placed(g, d, c)
  BY PlacedGrows
<1>4. \A i \in 1..Len(d) : d[i] # p
  BY DEF Placed, MadeOf
<1>5. ASSUME NEW r \in Requests PROVE Apart(e, got[r])
  <2>1. \A j \in 1..Len(got[r]) : got[r][j] # p
    BY DEF Placed, MadeOf
  <2> QED BY <1>1, <1>2, <1>3, <2>1 DEF Placed, Apart
<1>6. MadeOf(g, e, c)
  <2>1. \A i \in 1..Len(e) : WasSent(g, e[i])
    BY <1>1, <1>2, <1>3 DEF Placed, MadeOf
  <2>2. \A i, j \in 1..Len(e) : e[i] = e[j] => i = j
    BY <1>1, <1>2, <1>3, <1>4 DEF Placed, MadeOf
  <2>3. e[1] = d[1]
    BY <1>1, <1>2
  <2> QED BY <1>1, <1>2, <1>3, <2>1, <2>2, <2>3 DEF Placed, MadeOf
<1>7. e # <<>>
  BY <1>1, <1>2, EmptySeq
<1> QED
  BY <1>3, <1>5, <1>6, <1>7 DEF Placed, e

(* A new packet alone, the first of a message of c.                        *)
LEMMA FirstIsPlaced ==
    ASSUME NEW h, NEW d, NEW b, Placed(h, d, b),
           NEW g, Grows(h, g), NEW p, WasSent(g, p), ~WasSent(h, p),
           NEW c, p[2] = 1, g[p[1]].by = c
    PROVE  Placed(g, <<p>>, c)
<1>1. Placed(g, d, b)
  BY PlacedGrows
<1>2. p \in Pieces /\ <<p>> \in Seq(Pieces) /\ Len(<<p>>) = 1 /\ <<p>>[1] = p
  BY DEF WasSent
<1>3. MadeOf(g, <<p>>, c)
  BY <1>2 DEF MadeOf
<1>4. ASSUME NEW r \in Requests PROVE Apart(<<p>>, got[r])
  BY <1>2 DEF Placed, MadeOf, Apart
<1> QED
  BY <1>1, <1>3, <1>4 DEF Placed

(* Marking messages as torn changes nothing else of them.                  *)
LEMMA TornMarks ==
    ASSUME NEW h \in Seq(Messages), NEW c
    PROVE  /\ Torn(h, c) \in Seq(Messages) /\ Len(Torn(h, c)) = Len(h)
           /\ \A m \in 1..Len(h) : /\ Torn(h, c)[m].by = h[m].by
                                   /\ Torn(h, c)[m].size = h[m].size
                                   /\ Torn(h, c)[m].sent = h[m].sent
<1> DEFINE t == Torn(h, c)
<1>1. Len(h) \in Nat /\ DOMAIN h = 1..Len(h)
  BY LenProperties
<1>2. t = [m \in 1..Len(h) |->
             IF upload[h[m].by] = m /\ h[m].by # c THEN [h[m] EXCEPT !.torn = TRUE] ELSE h[m]]
  BY <1>1 DEF Torn
<1>3. ASSUME NEW m \in 1..Len(h)
      PROVE  /\ t[m] \in Messages
             /\ t[m].by = h[m].by /\ t[m].size = h[m].size /\ t[m].sent = h[m].sent
  <2>1. h[m] \in Messages
    BY ElementOfSeq
  <2>2. t[m] = h[m] \/ t[m] = [h[m] EXCEPT !.torn = TRUE]
    BY <1>2
  <2> HIDE DEF t
  <2> QED BY <2>1, <2>2 DEF Messages
<1>4. t \in [1..Len(h) -> Messages]
  BY <1>2, <1>3
<1> HIDE DEF t
<1>5. t \in Seq(Messages)
  BY <1>1, <1>4, SeqDef
<1>6. Len(t) = Len(h)
  BY <1>1, <1>4, <1>5, LenProperties
<1> QED
  BY <1>3, <1>5, <1>6 DEF t

(* A host's packets are new: they were not sent before.                    *)
LEMMA SendGrows ==
    ASSUME PacketInv, NEW c \in Channels, NEW n \in Nat,
           msgs' = Append(Torn(msgs, c), [by |-> c, size |-> n, sent |-> 1, torn |-> FALSE])
    PROVE  LET p == <<Len(msgs) + 1, 1>> IN
           /\ Grows(msgs, msgs') /\ Len(msgs') = Len(msgs) + 1
           /\ WasSent(msgs', p) /\ ~WasSent(msgs, p) /\ msgs'[p[1]].by = c
<1> DEFINE t == Torn(msgs, c)
           new == [by |-> c, size |-> n, sent |-> 1, torn |-> FALSE]
<1>1. /\ msgs \in Seq(Messages) /\ Len(msgs) \in Nat
      /\ t \in Seq(Messages) /\ Len(t) = Len(msgs)
      /\ \A m \in 1..Len(msgs) : t[m].by = msgs[m].by /\ t[m].sent = msgs[m].sent
  BY TornMarks, LenProperties DEF PacketInv
<1>2. new \in Messages /\ new.sent = 1 /\ new.by = c
  BY DEF Messages
<1> HIDE DEF t, new
<1>3. msgs' = Append(t, new)
  BY DEF t, new
<1>4. /\ msgs' \in Seq(Messages) /\ Len(msgs') = Len(msgs) + 1
      /\ \A m \in 1..Len(msgs) : msgs'[m] = t[m]
      /\ msgs'[Len(msgs) + 1] = new
  <2>1. t \in Seq(Messages) /\ new \in Messages
    BY <1>1, <1>2
  <2>2. /\ Append(t, new) \in Seq(Messages) /\ Len(Append(t, new)) = Len(t) + 1
        /\ \A m \in 1..Len(t) : Append(t, new)[m] = t[m]
        /\ Append(t, new)[Len(t) + 1] = new
    BY <2>1, AppendProperties
  <2> QED BY <1>1, <1>3, <2>2
<1>5. \A m \in 1..Len(msgs) : msgs[m] \in Messages
  BY <1>1, ElementOfSeq
<1>6. Grows(msgs, msgs')
  <2>1. \A m \in 1..Len(msgs) : msgs[m].sent \in Nat
    BY <1>5 DEF Messages
  <2> QED BY <1>1, <1>4, <2>1 DEF Grows
<1> QED
  <2> DEFINE p == <<Len(msgs) + 1, 1>>
  <2>1. p[1] = Len(msgs) + 1 /\ p[2] = 1 /\ p \in Pieces
    BY <1>1 DEF Pieces
  <2> HIDE DEF p
  <2>2. WasSent(msgs', p) /\ ~WasSent(msgs, p) /\ msgs'[p[1]].by = c
    BY <1>1, <1>2, <1>4, <2>1 DEF WasSent
  <2> QED BY <1>4, <1>6, <2>2 DEF p

(* The next packet of a message was not sent before either.                *)
LEMMA ContinueGrows ==
    ASSUME PacketInv, NEW c \in Channels, NEW m, m = upload[c], m # 0,
           NEW i, i = msgs[m].sent + 1,
           msgs' = [Torn(msgs, c) EXCEPT ![m].sent = i]
    PROVE  /\ Grows(msgs, msgs') /\ Len(msgs') = Len(msgs)
           /\ m \in 1..Len(msgs)
           /\ WasSent(msgs', <<m, i>>) /\ ~WasSent(msgs, <<m, i>>)
<1> DEFINE t == Torn(msgs, c)
           new == [t[m] EXCEPT !.sent = i]
<1>1. /\ msgs \in Seq(Messages) /\ Len(msgs) \in Nat
      /\ t \in Seq(Messages) /\ Len(t) = Len(msgs)
      /\ \A k \in 1..Len(msgs) : t[k].by = msgs[k].by /\ t[k].sent = msgs[k].sent
  BY TornMarks, LenProperties DEF PacketInv
<1>2. m \in 1..Len(msgs)
  BY <1>1 DEF PacketInv
<1>3. \A k \in 1..Len(msgs) : msgs[k] \in Messages /\ t[k] \in Messages
  BY <1>1, ElementOfSeq
<1>4. i \in Nat /\ i > msgs[m].sent
  BY <1>2, <1>3 DEF Messages
<1>5. msgs' = [t EXCEPT ![m] = new]
  OBVIOUS
<1>6. new \in Messages /\ new.sent = i /\ new.by = msgs[m].by
  <2> HIDE DEF t
  <2> QED BY <1>1, <1>2, <1>3, <1>4 DEF Messages
<1> HIDE DEF t, new
<1>7. /\ msgs' \in Seq(Messages) /\ Len(msgs') = Len(msgs)
      /\ \A k \in 1..Len(msgs) : msgs'[k] = IF k = m THEN new ELSE t[k]
  <2>1. t \in Seq(Messages) /\ m \in 1..Len(t) /\ new \in Messages
    BY <1>1, <1>2, <1>6
  <2>2. /\ [t EXCEPT ![m] = new] \in Seq(Messages)
        /\ Len([t EXCEPT ![m] = new]) = Len(t)
        /\ \A k \in 1..Len(t) : [t EXCEPT ![m] = new][k] = IF k = m THEN new ELSE t[k]
    BY <2>1, ExceptSeq
  <2> QED BY <1>1, <1>5, <2>2
<1>8. Grows(msgs, msgs')
  <2>1. \A k \in 1..Len(msgs) : msgs[k].sent \in Nat
    BY <1>3 DEF Messages
  <2>2. ASSUME NEW k \in 1..Len(msgs)
        PROVE  msgs'[k].by = msgs[k].by /\ msgs[k].sent <= msgs'[k].sent
    <3>1. CASE k = m
      <4>1. msgs'[k] = new
        BY <1>7, <3>1
      <4>2. msgs[m].sent \in Nat
        BY <1>2, <2>1
      <4>3. msgs'[k].sent = i /\ msgs'[k].by = msgs[m].by
        BY <1>6, <4>1
      <4>4. i >= msgs[m].sent
        BY <1>4, <4>2
      <4> QED BY <3>1, <4>3, <4>4
    <3>2. CASE k # m
      BY <1>1, <1>7, <2>1, <3>2
    <3> QED BY <3>1, <3>2
  <2> QED BY <1>1, <1>7, <2>2 DEF Grows
<1> QED
  <2> DEFINE p == <<m, i>>
  <2>1. p[1] = m /\ p[2] = i /\ p \in Pieces
    BY <1>1, <1>2, <1>4 DEF Pieces
  <2> HIDE DEF p
  <2>2. msgs[m].sent \in Nat /\ msgs'[m] = new
    BY <1>2, <1>3, <1>7 DEF Messages
  <2>3. WasSent(msgs', p) /\ ~WasSent(msgs, p)
    BY <1>1, <1>2, <1>4, <1>6, <1>7, <2>1, <2>2 DEF WasSent
  <2> QED BY <1>2, <1>7, <1>8, <2>3 DEF p

(* A whole message leaves its data in a request, or nowhere.               *)
LEMMA WholeMessagePlaced ==
    ASSUME NEW m, Placed(msgs', m.data, m.chan), got \in [Requests -> Seq(Pieces)],
           HandOver(m) \/ Cancel(m) \/ AnswerAtOnce(m), pending' = Blank
    PROVE  Placed(msgs, pending.data, pending.chan)' /\ got' \in [Requests -> Seq(Pieces)]
<1>1. pending'.data = <<>> /\ pending'.chan = NoChannel
  BY DEF Blank
<1>2. CASE HandOver(m)
  <2>1. PICK r \in Requests : /\ chan[r] = m.chan
                              /\ registerRequest(r)
                              /\ got' = [got EXCEPT ![r] = m.data]
    BY <1>2 DEF HandOver
  <2>2. chan' = chan
    BY <2>1 DEF registerRequest
  <2> DEFINE d == m.data
             h == msgs'
  <2>3. Placed(h, d, chan[r]) /\ got' = [got EXCEPT ![r] = d]
    BY <2>1
  <2> HIDE DEF d, h
  <2>4. got' \in [Requests -> Seq(Pieces)]
    BY <2>3 DEF Placed, MadeOf
  <2>5. \A q \in Requests : got'[q] = IF q = r THEN d ELSE got[q]
    BY <2>3
  <2>6. \A q \in Requests : MadeOf(h, got'[q], chan[q])
    BY <2>3, <2>5 DEF Placed
  <2>7. \A p, q \in Requests : p # q => Apart(got'[p], got'[q])
    BY <2>3, <2>5 DEF Placed, Apart
  <2>8. MadeOf(h, <<>>, NoChannel) /\ \A q \in Requests : Apart(<<>>, got'[q])
    BY EmptySeq DEF MadeOf, Apart
  <2>9. /\ MadeOf(msgs', <<>>, NoChannel)
        /\ \A q \in Requests : MadeOf(msgs', got'[q], chan'[q])
    BY <2>2, <2>6, <2>8 DEF h
  <2> QED BY <1>1, <2>4, <2>7, <2>8, <2>9 DEF Placed
<1>3. CASE Cancel(m) \/ AnswerAtOnce(m)
  <2>1. got' = got /\ chan' = chan
    BY <1>3 DEF Cancel, AnswerAtOnce, vars, cancelRequest
  <2>2. Placed(msgs', <<>>, NoChannel)
    BY EmptyIsPlaced
  <2> QED BY <1>1, <2>1, <2>2 DEF Placed
<1> QED
  BY <1>2, <1>3

(* An empty buffer is one.                                                 *)
LEMMA BlankIsBuffered ==
    ASSUME pending' = Blank, Placed(msgs, pending.data, pending.chan)',
           got' \in [Requests -> Seq(Pieces)]
    PROVE  Buffered'
  BY DEF Blank, Buffered

(* The first packet of a request.                                          *)
LEMMA FirstIsBuffered ==
    ASSUME Buffered, Grows(msgs, msgs'), NEW c \in Channels, NEW n \in Nat \ {0},
           NEW p, WasSent(msgs', p), ~WasSent(msgs, p), p[2] = 1, msgs'[p[1]].by = c,
           TakePacket([first |-> TRUE, need |-> n, chan |-> c, kind |-> "request", piece |-> p])
    PROVE  Buffered'
<1> DEFINE m == [need |-> n, chan |-> c, kind |-> "request", data |-> <<p>>]
<1>1. IF Len(m.data) >= m.need
      THEN /\ pending' = Blank
           /\ HandOver(m) \/ Cancel(m) \/ AnswerAtOnce(m)
      ELSE /\ pending' = m
           /\ UNCHANGED <<vars, got, outVars>>
  BY DEF TakePacket, Started, AfterMessage
<1>2. /\ m.chan = c /\ m.kind = "request" /\ m.data = <<p>> /\ m.data # <<>>
      /\ got \in [Requests -> Seq(Pieces)]
  BY DEF Buffered
<1> HIDE DEF m
<1>3. Placed(msgs', m.data, m.chan)
  BY <1>2, FirstIsPlaced DEF Buffered
<1>4. CASE Len(m.data) >= m.need
  BY <1>1, <1>2, <1>3, <1>4, WholeMessagePlaced, BlankIsBuffered
<1>5. CASE ~(Len(m.data) >= m.need)
  BY <1>1, <1>2, <1>3, <1>5 DEF Buffered, Placed, vars
<1> QED
  BY <1>4, <1>5

(* Any other packet goes to the end of the request, or nowhere.            *)
LEMMA NextIsBuffered ==
    ASSUME Buffered, PendingInv, Grows(msgs, msgs'),
           NEW p, WasSent(msgs', p), ~WasSent(msgs, p),
           TakePacket([first |-> FALSE, piece |-> p])
    PROVE  Buffered'
<1> DEFINE m == [pending EXCEPT !.data = Append(@, p)]
<1>1. IF Len(m.data) >= m.need
      THEN /\ pending' = Blank
           /\ HandOver(m) \/ Cancel(m) \/ AnswerAtOnce(m)
      ELSE /\ pending' = m
           /\ UNCHANGED <<vars, got, outVars>>
  BY DEF TakePacket, AfterMessage
<1>2. /\ m.chan = pending.chan /\ m.kind = pending.kind /\ m.need = pending.need
      /\ m.data = Append(pending.data, p)
      /\ got \in [Requests -> Seq(Pieces)]
  BY DEF Buffered, PendingInv
<1> HIDE DEF m
<1>3. CASE pending.kind = "request"
  <2>1. Placed(msgs', m.data, m.chan) /\ m.data # <<>>
    BY <1>2, <1>3, NextIsPlaced DEF Buffered
  <2>2. CASE Len(m.data) >= m.need
    BY <1>1, <1>2, <2>1, <2>2, WholeMessagePlaced, BlankIsBuffered
  <2>3. CASE ~(Len(m.data) >= m.need)
    BY <1>1, <1>2, <1>3, <2>1, <2>3 DEF Buffered, Placed, vars
  <2> QED BY <2>2, <2>3
<1>4. CASE pending.kind = "other"
  <2>1. Len(m.data) >= m.need
    BY <1>2, <1>4, AppendProperties, LenProperties DEF Buffered, Placed, MadeOf, WasSent
  <2>2. AnswerAtOnce(m) /\ pending' = Blank
    BY <1>1, <1>2, <1>4, <2>1 DEF HandOver, Cancel
  <2>3. Placed(msgs', <<>>, NoChannel)
    BY PlacedGrows, EmptyIsPlaced DEF Buffered
  <2>4. got' = got /\ chan' = chan
    BY <2>2 DEF AnswerAtOnce, vars
  <2> QED BY <1>2, <2>2, <2>3, <2>4 DEF Buffered, Blank, Placed
<1> QED
  BY <1>3, <1>4 DEF PendingInv

(* A packet of a message that is no request leaves nothing.                *)
LEMMA SingleIsBuffered ==
    ASSUME Buffered, msgs \in Seq(Messages), NEW c \in Channels, NEW kind \in {"cancel", "other"},
           SendSingle(c, kind)
    PROVE  Buffered' /\ msgs' \in Seq(Messages) /\ Len(msgs') = Len(msgs)
<1> DEFINE m == [need |-> 1, chan |-> c, kind |-> kind, data |-> <<<<0, 1>>>>]
<1>1. IF Len(m.data) >= m.need
      THEN /\ pending' = Blank
           /\ HandOver(m) \/ Cancel(m) \/ AnswerAtOnce(m)
      ELSE pending' = m
  BY DEF SendSingle, TakePacket, Started, AfterMessage
<1>2. m.kind # "request" /\ Len(m.data) = 1 /\ m.need = 1
  OBVIOUS
<1> HIDE DEF m
<1>3. pending' = Blank /\ got' = got /\ chan' = chan
  BY <1>1, <1>2 DEF HandOver, Cancel, AnswerAtOnce, cancelRequest, vars
<1>4. /\ msgs' \in Seq(Messages) /\ Len(msgs') = Len(msgs) /\ Grows(msgs, msgs')
  <2>1. msgs' = Torn(msgs, c)
    BY DEF SendSingle
  <2>2. /\ msgs' \in Seq(Messages) /\ Len(msgs') = Len(msgs)
        /\ \A k \in 1..Len(msgs) : msgs'[k].by = msgs[k].by /\ msgs'[k].sent = msgs[k].sent
    BY <2>1, TornMarks
  <2>3. Len(msgs) \in Nat /\ \A k \in 1..Len(msgs) : msgs[k] \in Messages
    BY LenProperties, ElementOfSeq
  <2> QED BY <2>2, <2>3, SMTT(20) DEF Grows, Messages
<1>5. Placed(msgs', <<>>, NoChannel)
  BY <1>4, PlacedGrows, EmptyIsPlaced DEF Buffered
<1> QED
  BY <1>3, <1>4, <1>5 DEF Buffered, Blank, Placed

(* No step of HidTransport loses track of a packet.                        *)
LEMMA PacketStep ==
    ASSUME HidInv, PacketInv, [HidNext]_hidVars
    PROVE  PacketInv'
<1>0. /\ msgs \in Seq(Messages) /\ Len(msgs) \in Nat /\ Buffered /\ PendingInv
      /\ upload \in [Channels -> 0..Len(msgs)]
  BY LenProperties DEF PacketInv, HidInv
<1>1. ASSUME NEW c \in Channels, NEW n \in 1..MaxPackets, Send(c, n) PROVE PacketInv'
  <2> DEFINE m == Len(msgs) + 1
             p == <<m, 1>>
  <2>1. /\ msgs' = Append(Torn(msgs, c), [by |-> c, size |-> n, sent |-> 1, torn |-> FALSE])
        /\ upload' = [upload EXCEPT ![c] = IF n = 1 THEN 0 ELSE m]
        /\ TakePacket([first |-> TRUE, need |-> n, chan |-> c, kind |-> "request", piece |-> p])
    BY <1>1 DEF Send
  <2>2. n \in Nat \ {0} /\ n \in Nat
    BY HidAssumption
  <2>3. /\ Grows(msgs, msgs') /\ Len(msgs') = m
        /\ WasSent(msgs', p) /\ ~WasSent(msgs, p) /\ msgs'[p[1]].by = c
    BY <2>1, <2>2, SendGrows
  <2>4. p[2] = 1
    OBVIOUS
  <2>5. upload' \in [Channels -> 0..Len(msgs')]
    BY <1>0, <2>1, <2>3
  <2> HIDE DEF p
  <2>6. Buffered'
    BY <1>0, <2>1, <2>2, <2>3, <2>4, FirstIsBuffered
  <2> QED BY <2>3, <2>5, <2>6 DEF PacketInv, Grows
<1>2. ASSUME NEW c \in Channels, Continue(c) PROVE PacketInv'
  <2> DEFINE m == upload[c]
             i == msgs[m].sent + 1
             p == <<m, i>>
  <2>1. /\ m # 0 /\ msgs' = [Torn(msgs, c) EXCEPT ![m].sent = i]
        /\ upload' = [upload EXCEPT ![c] = IF i = msgs[m].size THEN 0 ELSE m]
        /\ TakePacket([first |-> FALSE, piece |-> p])
    BY <1>2 DEF Continue
  <2>2. /\ Grows(msgs, msgs') /\ Len(msgs') = Len(msgs) /\ m \in 1..Len(msgs)
        /\ WasSent(msgs', p) /\ ~WasSent(msgs, p)
    BY <2>1, ContinueGrows
  <2>3. upload' \in [Channels -> 0..Len(msgs')]
    BY <1>0, <2>1, <2>2
  <2> HIDE DEF p
  <2>4. Buffered'
    BY <1>0, <2>1, <2>2, NextIsBuffered
  <2> QED BY <2>2, <2>3, <2>4 DEF PacketInv, Grows
<1>3. ASSUME NEW c \in Channels, NEW kind \in {"cancel", "other"}, SendSingle(c, kind)
      PROVE  PacketInv'
  <2>1. upload' = upload
    BY <1>3 DEF SendSingle
  <2> QED BY <1>0, <1>3, <2>1, SingleIsBuffered DEF PacketInv
<1>4. ASSUME UNCHANGED <<inVars, chan>> PROVE PacketInv'
  BY <1>4 DEF inVars, PacketInv, Buffered, Placed
<1>5. ASSUME NEW r \in Requests, Respond(r) \/ WriteFrame(r) \/ Return(r) \/ Abandon(r)
      PROVE  PacketInv'
  BY <1>4, <1>5 DEF Respond, WriteFrame, Return, Abandon, BeginResponse, EndResponse,
                    EndSilently, vars
<1>6. CASE UNCHANGED hidVars
  BY <1>4, <1>6 DEF hidVars, vars, inVars
<1> QED
  BY <1>1, <1>2, <1>3, <1>5, <1>6 DEF HidNext

(* No packets make up nothing, of any channel.                             *)
LEMMA NothingIsMade == ASSUME NEW h, NEW c PROVE MadeOf(h, <<>>, c)
<1>1. <<>> \in Seq(Pieces) /\ Len(<<>>) = 0
  BY EmptySeq
<1> QED
  BY <1>1 DEF MadeOf

(* The invariant of the packets.                                           *)
LEMMA PacketInvariant == HidSpec => []PacketInv
<1>1. HidInit => PacketInv
  <2> SUFFICES ASSUME HidInit PROVE PacketInv
    OBVIOUS
  <2> USE DEF HidInit, Blank
  <2>1. msgs \in Seq(Messages) /\ Len(msgs) = 0
    BY EmptySeq
  <2>2. upload \in [Channels -> 0..Len(msgs)]
    BY <2>1
  <2>3. got \in [Requests -> Seq(Pieces)] /\ \A r \in Requests : got[r] = <<>>
    BY EmptySeq
  <2>4. \A h, c : MadeOf(h, <<>>, c)
    BY NothingIsMade
  <2>5. Placed(msgs, pending.data, pending.chan)
    BY <2>3, <2>4, EmptySeq DEF Placed, Apart
  <2> QED BY <2>1, <2>2, <2>3, <2>5 DEF PacketInv, Buffered
<1>2. HidInv /\ PacketInv /\ [HidNext]_hidVars => PacketInv'
  BY PacketStep
<1> QED
  BY <1>1, <1>2, HidInvariant, PTL DEF HidSpec

(* No packet reaches two requests, whatever hosts send at once, and a      *)
(* request begins with the first packet of a message of its own channel.   *)
THEOREM PacketsGoToOneRequest == HidSpec => []NoPacketTwice
<1>1. PacketInv => NoPacketTwice
  <2> SUFFICES ASSUME PacketInv PROVE NoPacketTwice
    OBVIOUS
  <2>1. \A r \in Requests : MadeOf(msgs, got[r], chan[r]) /\ DOMAIN got[r] = 1..Len(got[r])
    BY LenProperties DEF PacketInv, Buffered, Placed, MadeOf
  <2>2. \A q, r \in Requests : q # r => Apart(got[q], got[r])
    BY DEF PacketInv, Buffered, Placed
  <2> QED BY <2>1, <2>2 DEF NoPacketTwice, MadeOf, Apart
<1> QED
  BY <1>1, PacketInvariant, PTL
-----------------------------------------------------------------------------
(* What happens to a message whose packets nobody else's packets tear      *)
(* apart: it is all there is in the buffer, until it is a request.         *)
PiecesOf(m, n) == [i \in 1..n |-> <<m, i>>]

Intact(m) ==
    /\ msgs[m].sent \in 1..msgs[m].size
    /\ msgs[m].sent < msgs[m].size <=> upload[msgs[m].by] = m
    /\ ~msgs[m].torn =>
         IF msgs[m].sent < msgs[m].size
         THEN pending = [need |-> msgs[m].size, chan |-> msgs[m].by, kind |-> "request",
                         data |-> PiecesOf(m, msgs[m].sent)]
         ELSE \E r \in Requests : /\ at[r] # "unsent"
                                  /\ chan[r] = msgs[m].by
                                  /\ got[r] = PiecesOf(m, msgs[m].size)

IntactInv ==
    /\ \A m \in 1..Len(msgs) : Intact(m)
    /\ \A c \in Channels : upload[c] # 0 => msgs[upload[c]].by = c

(* A request that has begun is not made again.                             *)
RequestsStay ==
    /\ \A r \in Requests : at[r] # "unsent" => at'[r] # "unsent" /\ got'[r] = got[r]
    /\ chan' = chan

(* A message that another host's packet lands in is torn.                  *)
LEMMA TornIs ==
    ASSUME NEW h \in Seq(Messages), NEW c, NEW m \in 1..Len(h)
    PROVE  Torn(h, c)[m] = IF upload[h[m].by] = m /\ h[m].by # c
                           THEN [h[m] EXCEPT !.torn = TRUE] ELSE h[m]
<1>1. DOMAIN h = 1..Len(h)
  BY LenProperties
<1> QED
  BY <1>1 DEF Torn

(* A packet of c leaves the other messages intact, or tears them.          *)
LEMMA OthersStayIntact ==
    ASSUME PacketInv, NEW c \in Channels, NEW m \in 1..Len(msgs), Intact(m), upload[c] # m,
           msgs'[m] = Torn(msgs, c)[m], RequestsStay,
           NEW u \in Nat, upload' = [upload EXCEPT ![c] = u], u # m
    PROVE  Intact(m)'
<1>1. msgs[m] \in Messages /\ upload \in [Channels -> 0..Len(msgs)]
  BY ElementOfSeq DEF PacketInv
<1>2. msgs[m].by \in Channels /\ msgs[m].sent \in Nat /\ msgs[m].size \in Nat
  BY <1>1 DEF Messages
<1>3. msgs'[m] = IF upload[msgs[m].by] = m /\ msgs[m].by # c
                 THEN [msgs[m] EXCEPT !.torn = TRUE] ELSE msgs[m]
  <2>1. msgs \in Seq(Messages)
    BY DEF PacketInv
  <2>2. Torn(msgs, c)[m] = IF upload[msgs[m].by] = m /\ msgs[m].by # c
                           THEN [msgs[m] EXCEPT !.torn = TRUE] ELSE msgs[m]
    BY <2>1, TornIs
  <2> QED BY <2>2
<1>4. upload'[msgs[m].by] = m <=> upload[msgs[m].by] = m
  BY <1>1, <1>2
<1>5. CASE msgs[m].sent < msgs[m].size
  <2>1. upload[msgs[m].by] = m /\ msgs[m].by # c
    BY <1>5 DEF Intact
  <2>2. /\ msgs'[m].torn /\ msgs'[m].sent = msgs[m].sent
        /\ msgs'[m].size = msgs[m].size /\ msgs'[m].by = msgs[m].by
    BY <1>1, <1>3, <2>1 DEF Messages
  <2> QED BY <1>4, <2>2 DEF Intact
<1>6. CASE ~(msgs[m].sent < msgs[m].size)
  <2>1. msgs'[m] = msgs[m]
    BY <1>3, <1>6 DEF Intact
  <2> QED BY <1>4, <1>6, <2>1 DEF Intact, RequestsStay
<1> QED
  BY <1>5, <1>6

(* Whatever a packet completes, no request that has begun is touched.      *)
LEMMA PacketLeavesRequests ==
    ASSUME SlotInv, PacketInv, NEW p, TakePacket(p)
    PROVE  RequestsStay
<1> USE DEF SlotInv, RegTypeOK, RequestsStay
<1>1. CASE UNCHANGED <<vars, got>>
  BY <1>1 DEF vars
<1>2. ASSUME NEW m, HandOver(m) PROVE RequestsStay
  BY <1>2 DEF HandOver, registerRequest, ComesNext, PacketInv, Buffered
<1>3. ASSUME NEW m, Cancel(m) PROVE RequestsStay
  BY <1>1, <1>3 DEF Cancel, cancelRequest
<1>4. ASSUME NEW m, AnswerAtOnce(m) PROVE RequestsStay
  BY <1>1, <1>4 DEF AnswerAtOnce
<1> QED
  BY <1>1, <1>2, <1>3, <1>4 DEF TakePacket

(* A whole request is registered as it is.                                 *)
LEMMA WholeIsRegistered ==
    ASSUME SlotInv, PacketInv, NEW m, m.kind = "request",
           HandOver(m) \/ Cancel(m) \/ AnswerAtOnce(m)
    PROVE  \E r \in Requests : at'[r] # "unsent" /\ chan'[r] = m.chan /\ got'[r] = m.data
<1>1. PICK r \in Requests : /\ chan[r] = m.chan
                            /\ registerRequest(r)
                            /\ got' = [got EXCEPT ![r] = m.data]
  BY DEF HandOver, Cancel, AnswerAtOnce
<1>2. at'[r] = "running" /\ chan' = chan /\ got'[r] = m.data
  BY <1>1 DEF registerRequest, SlotInv, RegTypeOK, PacketInv, Buffered
<1> QED
  BY <1>1, <1>2

(* A message that begins.                                                  *)
LEMMA SendIntact ==
    ASSUME HidInv, PacketInv, PacketInv', IntactInv, NEW c \in Channels, NEW n \in 1..MaxPackets, Send(c, n)
    PROVE  IntactInv'
<1>0. msgs \in Seq(Messages) /\ Len(msgs) \in Nat
  BY LenProperties DEF PacketInv
<1>m. PICK m \in Nat : m = Len(msgs) + 1
  BY <1>0
<1> DEFINE new == [by |-> c, size |-> n, sent |-> 1, torn |-> FALSE]
           p == <<m, 1>>
<1>1. /\ msgs' = Append(Torn(msgs, c), new) /\ upload[c] = 0
      /\ upload' = [upload EXCEPT ![c] = IF n = 1 THEN 0 ELSE m]
      /\ TakePacket([first |-> TRUE, need |-> n, chan |-> c, kind |-> "request", piece |-> p])
  BY <1>m DEF Send
<1>2. /\ msgs \in Seq(Messages) /\ Len(msgs) \in Nat /\ m = Len(msgs) + 1
      /\ upload \in [Channels -> 0..Len(msgs)] /\ n \in Nat /\ n >= 1
  BY <1>0, <1>m, HidAssumption DEF PacketInv
<1>3. /\ new.by = c /\ new.size = n /\ new.sent = 1 /\ new.torn = FALSE /\ new \in Messages
  BY <1>2 DEF Messages
<1> HIDE DEF new
<1>4. /\ Len(msgs') = m
      /\ msgs'[m] = new
      /\ \A k \in 1..Len(msgs) : msgs'[k] = Torn(msgs, c)[k]
  <2>1. Torn(msgs, c) \in Seq(Messages) /\ Len(Torn(msgs, c)) = Len(msgs)
    BY <1>2, TornMarks
  <2> QED BY <1>1, <1>2, <1>3, <2>1, AppendProperties
<1>5. RequestsStay
  BY <1>1, PacketLeavesRequests DEF HidInv
<1>6. ASSUME NEW k \in 1..Len(msgs) PROVE Intact(k)'
  <2>1. Intact(k) /\ msgs'[k] = Torn(msgs, c)[k] /\ upload[c] # k
    BY <1>1, <1>2, <1>4 DEF IntactInv
  <2> DEFINE u == IF n = 1 THEN 0 ELSE m
  <2>2. u \in Nat /\ u # k /\ upload' = [upload EXCEPT ![c] = u]
    BY <1>1, <1>2
  <2> HIDE DEF u
  <2> QED BY <1>5, <2>1, <2>2, OthersStayIntact
<1>7. Intact(m)'
  <2> DEFINE w == [need |-> n, chan |-> c, kind |-> "request", data |-> <<p>>]
  <2>1. IF Len(w.data) >= w.need
        THEN HandOver(w) \/ Cancel(w) \/ AnswerAtOnce(w)
        ELSE pending' = w
    BY <1>1 DEF TakePacket, Started
  <2>2. PiecesOf(m, 1) = <<p>>
    BY DEF PiecesOf
  <2>3. Len(w.data) = 1 /\ w.need = n /\ w.chan = c /\ w.kind = "request" /\ w.data = <<p>>
    OBVIOUS
  <2>4. CASE n = 1
    <3> HIDE DEF w
    <3>1. \E r \in Requests : at'[r] # "unsent" /\ chan'[r] = c /\ got'[r] = <<p>>
      BY <2>1, <2>3, <2>4, WholeIsRegistered DEF HidInv
    <3>2. upload'[c] # m
      BY <1>1, <1>2, <2>4
    <3> QED BY <1>3, <1>4, <2>2, <2>4, <3>1, <3>2 DEF Intact
  <2>5. CASE n > 1
    <3>1. pending' = [need |-> n, chan |-> c, kind |-> "request", data |-> PiecesOf(m, 1)]
      BY <2>1, <2>2, <2>3, <2>5
    <3>2. upload'[c] = m
      BY <1>1, <1>2, <2>5
    <3> QED BY <1>2, <1>3, <1>4, <2>5, <3>1, <3>2 DEF Intact
  <2> QED BY <1>2, <2>4, <2>5
<1>8. ASSUME NEW d \in Channels, upload'[d] # 0 PROVE msgs'[upload'[d]].by = d
  <2>1. CASE d = c
    BY <1>1, <1>2, <1>3, <1>4, <1>8, <2>1
  <2>2. CASE d # c
    <3>1. upload'[d] = upload[d] /\ upload[d] \in 1..Len(msgs) /\ msgs[upload[d]].by = d
      BY <1>1, <1>2, <1>8, <2>2 DEF IntactInv
    <3>2. Torn(msgs, c)[upload[d]].by = d
      BY <1>2, <3>1, TornMarks
    <3> QED BY <1>4, <3>1, <3>2
  <2> QED BY <2>1, <2>2
<1> QED
  BY <1>2, <1>4, <1>6, <1>7, <1>8 DEF IntactInv

(* The packets of a message, one more at a time.                           *)
LEMMA OneMorePiece ==
    ASSUME NEW m, NEW n \in Nat
    PROVE  /\ Len(PiecesOf(m, n)) = n
           /\ Append(PiecesOf(m, n), <<m, n + 1>>) = PiecesOf(m, n + 1)
<1> DEFINE S == {<<m, i>> : i \in Nat}
           old == PiecesOf(m, n)
           longer == PiecesOf(m, n + 1)
           e == <<m, n + 1>>
<1>1. old \in Seq(S) /\ Len(old) = n
  <2>1. old \in [1..n -> S]
    BY DEF PiecesOf
  <2> HIDE DEF old
  <2> QED BY <2>1, LenProperties, SeqDef
<1>2. longer \in Seq(S) /\ Len(longer) = n + 1
  <2>1. longer \in [1..(n + 1) -> S]
    BY DEF PiecesOf
  <2>2. n + 1 \in Nat
    OBVIOUS
  <2> HIDE DEF longer
  <2> QED BY <2>1, <2>2, LenProperties, SeqDef, SMTT(20)
<1>3. e \in S
  BY n + 1 \in Nat
<1>4. \A i \in 1..(n + 1) : longer[i] = <<m, i>>
  BY DEF PiecesOf
<1>5. \A i \in 1..n : old[i] = <<m, i>>
  BY DEF PiecesOf
<1> HIDE DEF old, longer, S
<1>6. /\ Append(old, e) \in Seq(S) /\ Len(Append(old, e)) = n + 1
      /\ \A i \in 1..(n + 1) : Append(old, e)[i] = IF i = n + 1 THEN e ELSE old[i]
  BY <1>1, <1>3, AppendProperties
<1>7. ASSUME NEW i \in 1..(n + 1) PROVE Append(old, e)[i] = longer[i]
  <2>1. CASE i = n + 1
    BY <1>4, <1>6, <2>1
  <2>2. CASE i # n + 1
    <3>1. i \in 1..n
      BY <2>2
    <3> QED BY <1>4, <1>5, <1>6, <2>2, <3>1
  <2> QED BY <2>1, <2>2
<1>8. Append(old, e) = longer
  BY <1>2, <1>6, <1>7, SeqEqual
<1> QED
  BY <1>1, <1>8 DEF old, longer

(* The next packet of the message in the buffer completes it or stays.     *)
LEMMA MessageGoesOn ==
    ASSUME HidInv, PacketInv, NEW m, Intact(m), ~msgs[m].torn, msgs[m].sent \in Nat,
           msgs[m].size \in Nat, msgs[m].sent < msgs[m].size,
           NEW i \in Nat, i = msgs[m].sent + 1,
           TakePacket([first |-> FALSE, piece |-> <<m, i>>])
    PROVE  IF i = msgs[m].size
           THEN \E r \in Requests : /\ at'[r] # "unsent" /\ chan'[r] = msgs[m].by
                                    /\ got'[r] = PiecesOf(m, i)
           ELSE pending' = [need |-> msgs[m].size, chan |-> msgs[m].by, kind |-> "request",
                            data |-> PiecesOf(m, i)]
<1> DEFINE old == PiecesOf(m, msgs[m].sent)
           w == [pending EXCEPT !.data = Append(@, <<m, i>>)]
<1>1. pending = [need |-> msgs[m].size, chan |-> msgs[m].by, kind |-> "request", data |-> old]
  BY DEF Intact
<1>2. Len(PiecesOf(m, i)) = i /\ Append(old, <<m, i>>) = PiecesOf(m, i)
  BY OneMorePiece
<1>3. IF Len(w.data) >= w.need
      THEN HandOver(w) \/ Cancel(w) \/ AnswerAtOnce(w)
      ELSE pending' = w
  BY DEF TakePacket
<1> HIDE DEF old
<1>4. w = [need |-> msgs[m].size, chan |-> msgs[m].by, kind |-> "request",
           data |-> PiecesOf(m, i)]
  <2>1. pending.data = old
    BY <1>1
  <2>2. w = [pending EXCEPT !.data = PiecesOf(m, i)]
    BY <1>2, <2>1
  <2> QED BY <1>1, <2>2
<1>5. /\ w.need = msgs[m].size /\ w.chan = msgs[m].by /\ w.kind = "request"
      /\ w.data = PiecesOf(m, i)
  BY <1>4
<1> HIDE DEF w
<1>6. CASE i = msgs[m].size
  <2>1. HandOver(w) \/ Cancel(w) \/ AnswerAtOnce(w)
    BY <1>2, <1>3, <1>5, <1>6
  <2> QED BY <1>5, <1>6, <2>1, WholeIsRegistered DEF HidInv
<1>7. CASE i # msgs[m].size
  BY <1>2, <1>3, <1>4, <1>5, <1>7
<1> QED
  BY <1>6, <1>7

(* A message that goes on.                                                 *)
LEMMA ContinueIntact ==
    ASSUME HidInv, PacketInv, PacketInv', IntactInv, NEW c \in Channels, Continue(c)
    PROVE  IntactInv'
<1>0. /\ msgs \in Seq(Messages) /\ Len(msgs) \in Nat
      /\ upload \in [Channels -> 0..Len(msgs)]
  BY LenProperties DEF PacketInv
<1>m. PICK m \in 1..Len(msgs) : m = upload[c]
  BY <1>0 DEF Continue
<1>i. PICK i \in Nat : i = msgs[m].sent + 1
  <2>1. msgs[m] \in Messages
    BY <1>0, ElementOfSeq
  <2> QED BY <2>1 DEF Messages
<1>1. /\ msgs[m] \in Messages /\ msgs[m].by = c /\ Intact(m)
      /\ msgs[m].sent < msgs[m].size /\ msgs[m].size \in Nat /\ msgs[m].sent \in Nat
  <2>1. msgs[m] \in Messages /\ msgs[m].by = c /\ Intact(m)
    BY <1>0, <1>m, ElementOfSeq DEF IntactInv
  <2> QED BY <1>m, <2>1 DEF Intact, Messages
<1>2. /\ msgs' = [Torn(msgs, c) EXCEPT ![m].sent = i]
      /\ upload' = [upload EXCEPT ![c] = IF i = msgs[m].size THEN 0 ELSE m]
      /\ TakePacket([first |-> FALSE, piece |-> <<m, i>>])
  BY <1>m, <1>i DEF Continue
<1> DEFINE new == [msgs[m] EXCEPT !.sent = i]
<1>3. /\ new.by = c /\ new.sent = i /\ new.size = msgs[m].size /\ new.torn = msgs[m].torn
      /\ new \in Messages
  BY <1>1 DEF Messages
<1> HIDE DEF new
<1>4. /\ Len(msgs') = Len(msgs) /\ msgs'[m] = new
      /\ \A k \in 1..Len(msgs) : k # m => msgs'[k] = Torn(msgs, c)[k]
  <2> DEFINE t == Torn(msgs, c)
  <2>1. t \in Seq(Messages) /\ Len(t) = Len(msgs)
    BY <1>0, TornMarks
  <2>2. t[m] = msgs[m]
    <3>1. t[m] = IF upload[msgs[m].by] = m /\ msgs[m].by # c
                 THEN [msgs[m] EXCEPT !.torn = TRUE] ELSE msgs[m]
      BY <1>0, TornIs
    <3> QED BY <1>1, <3>1
  <2> HIDE DEF t
  <2>3. msgs' = [t EXCEPT ![m] = new]
    BY <1>2, <2>2 DEF new, t
  <2>4. m \in 1..Len(t)
    BY <2>1
  <2> QED BY <1>3, <2>1, <2>3, <2>4, ExceptSeq DEF t
<1>5. RequestsStay
  BY <1>2, PacketLeavesRequests DEF HidInv
<1>6. ASSUME NEW k \in 1..Len(msgs), k # m PROVE Intact(k)'
  <2>1. Intact(k) /\ msgs'[k] = Torn(msgs, c)[k] /\ upload[c] # k
    BY <1>m, <1>4, <1>6 DEF IntactInv
  <2> DEFINE u == IF i = msgs[m].size THEN 0 ELSE m
  <2>2. u \in Nat /\ u # k /\ upload' = [upload EXCEPT ![c] = u]
    BY <1>0, <1>2, <1>6
  <2> HIDE DEF u
  <2> QED BY <1>5, <2>1, <2>2, OthersStayIntact
<1>7. Intact(m)'
  <2>1. /\ i \in 1..msgs[m].size
        /\ upload'[c] = IF i = msgs[m].size THEN 0 ELSE m
        /\ i < msgs[m].size <=> i # msgs[m].size
    BY <1>0, <1>1, <1>2, <1>i
  <2>2. msgs'[m].sent \in 1..msgs'[m].size
    BY <1>3, <1>4, <2>1
  <2>3. msgs'[m].sent < msgs'[m].size <=> upload'[msgs'[m].by] = m
    BY <1>0, <1>3, <1>4, <2>1
  <2>4. ASSUME ~msgs'[m].torn, i # msgs[m].size
        PROVE  pending' = [need |-> msgs[m].size, chan |-> c, kind |-> "request",
                           data |-> PiecesOf(m, i)]
    BY <1>1, <1>2, <1>3, <1>4, <1>i, <2>1, <2>4, MessageGoesOn
  <2>5. ASSUME ~msgs'[m].torn, i = msgs[m].size
        PROVE  \E r \in Requests : at'[r] # "unsent" /\ chan'[r] = c /\ got'[r] = PiecesOf(m, i)
    <3>1. ~msgs[m].torn /\ msgs[m].sent \in Nat /\ msgs[m].size \in Nat /\ msgs[m].by = c
          /\ msgs[m].sent < msgs[m].size /\ i = msgs[m].sent + 1
      BY <1>1, <1>3, <1>4, <1>i, <2>5
    <3>2. IF i = msgs[m].size
          THEN \E r \in Requests : /\ at'[r] # "unsent" /\ chan'[r] = msgs[m].by
                                   /\ got'[r] = PiecesOf(m, i)
          ELSE pending' = [need |-> msgs[m].size, chan |-> msgs[m].by, kind |-> "request",
                           data |-> PiecesOf(m, i)]
      BY <1>1, <1>2, <3>1, MessageGoesOn
    <3> QED BY <2>5, <3>1, <3>2
  <2> QED BY <1>3, <1>4, <2>1, <2>2, <2>3, <2>4, <2>5 DEF Intact
<1>8. ASSUME NEW d \in Channels, upload'[d] # 0 PROVE msgs'[upload'[d]].by = d
  <2>1. CASE d = c
    BY <1>0, <1>1, <1>2, <1>3, <1>4, <1>8, <2>1
  <2>2. CASE d # c
    <3>1. upload'[d] = upload[d] /\ upload[d] \in 1..Len(msgs) /\ msgs[upload[d]].by = d
      BY <1>0, <1>2, <1>8, <2>2 DEF IntactInv
    <3>2. Torn(msgs, c)[upload[d]].by = d /\ upload[d] # m
      BY <1>0, <1>1, <2>2, <3>1, TornMarks
    <3> QED BY <1>4, <3>1, <3>2
  <2> QED BY <2>1, <2>2
<1> QED
  BY <1>4, <1>6, <1>7, <1>8 DEF IntactInv

(* CANCEL, INIT and the like.                                              *)
LEMMA SingleIntact ==
    ASSUME HidInv, PacketInv, IntactInv, NEW c \in Channels, NEW kind, SendSingle(c, kind)
    PROVE  IntactInv'
<1>0. /\ msgs \in Seq(Messages) /\ Len(msgs) \in Nat
      /\ upload \in [Channels -> 0..Len(msgs)]
  BY LenProperties DEF PacketInv
<1>1. upload[c] = 0 /\ msgs' = Torn(msgs, c) /\ upload' = upload /\ RequestsStay
  BY PacketLeavesRequests DEF SendSingle, HidInv
<1>2. Len(msgs') = Len(msgs)
  BY <1>0, <1>1, TornMarks
<1>3. ASSUME NEW m \in 1..Len(msgs) PROVE Intact(m)'
  <2>1. Intact(m) /\ msgs'[m] = Torn(msgs, c)[m] /\ upload[c] # m
    BY <1>0, <1>1 DEF IntactInv
  <2>2. 0 \in Nat /\ 0 # m /\ upload' = [upload EXCEPT ![c] = 0]
    BY <1>0, <1>1
  <2> QED BY <1>1, <2>1, <2>2, OthersStayIntact
<1>4. ASSUME NEW d \in Channels, upload'[d] # 0 PROVE msgs'[upload'[d]].by = d
  <2>1. upload[d] \in 1..Len(msgs) /\ msgs[upload[d]].by = d
    BY <1>0, <1>1, <1>4 DEF IntactInv
  <2> QED BY <1>0, <1>1, <2>1, TornMarks
<1> QED
  BY <1>2, <1>3, <1>4 DEF IntactInv

(* A response does not touch what was sent or taken.                       *)
LEMMA AnswersStayIntact ==
    ASSUME HidInv, PacketInv, IntactInv, UNCHANGED <<inVars, chan>>,
           \A r \in Requests : at[r] # "unsent" => at'[r] # "unsent"
    PROVE  IntactInv'
<1>1. \A m \in 1..Len(msgs) : Intact(m) => Intact(m)'
  BY DEF Intact, inVars
<1> QED
  BY <1>1 DEF IntactInv, inVars

(* Every step keeps untorn messages intact.                                *)
LEMMA IntactStep ==
    ASSUME HidInv, PacketInv, PacketInv', IntactInv, [HidNext]_hidVars
    PROVE  IntactInv'
<1>1. ASSUME NEW r \in Requests, Respond(r) \/ WriteFrame(r) \/ Return(r) \/ Abandon(r)
      PROVE  IntactInv'
  <2>1. UNCHANGED <<inVars, chan>>
    BY <1>1 DEF Respond, WriteFrame, Return, Abandon, BeginResponse, EndResponse, EndSilently, vars
  <2>2. UNCHANGED at \/ \E s \in {"writing", "answered", "silent"} : at' = [at EXCEPT ![r] = s]
    BY <1>1 DEF Respond, WriteFrame, Return, Abandon, BeginResponse, EndResponse, EndSilently, vars
  <2>3. \A q \in Requests : at[q] # "unsent" => at'[q] # "unsent"
    BY <2>2 DEF HidInv, SlotInv, RegTypeOK
  <2> QED BY <2>1, <2>3, AnswersStayIntact
<1>2. CASE UNCHANGED hidVars
  BY <1>2, AnswersStayIntact DEF hidVars, vars, inVars
<1> QED
  BY <1>1, <1>2, SendIntact, ContinueIntact, SingleIntact DEF HidNext

(* A request sent in a row arrives as it was sent, of any length and next  *)
(* to any number of hosts whose messages are mixed and lost.               *)
THEOREM UntornRequestsArrive == HidSpec => []UntornIsIntact
<1>1. HidInit => IntactInv
  <2> SUFFICES ASSUME HidInit PROVE IntactInv
    OBVIOUS
  <2>1. Len(msgs) = 0 /\ \A c \in Channels : upload[c] = 0
    BY EmptySeq DEF HidInit
  <2> QED BY <2>1 DEF IntactInv
<1>2. HidInv /\ PacketInv /\ PacketInv' /\ IntactInv /\ [HidNext]_hidVars => IntactInv'
  BY IntactStep
<1>3. PacketInv /\ IntactInv => UntornIsIntact
  <2> SUFFICES ASSUME PacketInv, IntactInv, NEW m \in DOMAIN msgs,
                      msgs[m].sent = msgs[m].size, ~msgs[m].torn
               PROVE  \E r \in Requests : /\ chan[r] = msgs[m].by
                                          /\ got[r] = PiecesOf(m, msgs[m].size)
    BY DEF UntornIsIntact, PiecesOf
  <2>1. m \in 1..Len(msgs) /\ msgs[m] \in Messages
    BY LenProperties, ElementOfSeq DEF PacketInv
  <2>2. Intact(m) /\ ~(msgs[m].sent < msgs[m].size)
    BY <2>1 DEF IntactInv, Messages
  <2> QED BY <2>2 DEF Intact
<1> QED
  BY <1>1, <1>2, <1>3, HidInvariant, PacketInvariant, PTL DEF HidSpec
-----------------------------------------------------------------------------
(* The frames of responses.  A host that has seen the beginning of a       *)
(* response has read what was written of it, frame by frame; or it has     *)
(* dropped it, and then there is more of it than the sequence numbers can  *)
(* count.  Nobody else writes to that host meanwhile, if it is patient.    *)
Responses == [len: Nat, pos: Nat, seq: 0..(2 * InitBit - 1)]
Boxes == [from: Requests \cup {0}, need: Nat, have: Nat, seq: Nat, good: BOOLEAN]
Unwritten == [len |-> 0, pos |-> 0, seq |-> 0]

FrameTypes ==
    /\ resp \in [Requests -> Responses]
    /\ inbox \in [Channels -> Boxes]
    /\ read \in [Requests -> {"no", "whole", "garbled"}]
    /\ \A r \in Requests : resp[r].pos <= resp[r].len
    /\ \A c \in Channels : inbox[c].have <= inbox[c].need
    /\ \A r \in Requests : at[r] \notin {"writing", "answered"} =>
            resp[r] = Unwritten /\ read[r] = "no"

InSync(r) ==
    /\ inbox[chan[r]] = [from |-> r, need |-> resp[r].len, have |-> resp[r].pos,
                         seq |-> resp[r].seq, good |-> TRUE]
    /\ resp[r].seq <= InitBit
    /\ resp[r].pos = InitLen + resp[r].seq * ContLen

Dropped(r) == inbox[chan[r]].from = 0 /\ resp[r].len > LongestResponse

Delivered(r) ==
    /\ resp[r].pos = resp[r].len /\ resp[r].len \in 1..LongestResponse => read[r] = "whole"
    /\ at[r] = "writing" /\ resp[r].pos \in 1..(resp[r].len - 1) => InSync(r) \/ Dropped(r)

ResponseOK(r) ==
    /\ at[r] \in {"writing", "answered"} => resp[r].len > 0
    /\ read[r] = "garbled" => resp[r].len >= SizeMod
    /\ resp[r].len < SizeMod => Delivered(r)

FrameInv == FrameTypes /\ \A r \in Requests : ResponseOK(r)

(* What fits a field of a frame is what is written there.                  *)
LEMMA Remainders ==
    ASSUME NEW x \in Nat, NEW n \in Nat \ {0}
    PROVE  x % n \in 0..(n - 1) /\ (x < n => x % n = x)
  OBVIOUS

LEMMA SmallerOfTwo ==
    ASSUME NEW a \in Nat, NEW b \in Nat
    PROVE  /\ Smaller(a, b) \in Nat /\ Smaller(a, b) <= a /\ Smaller(a, b) <= b
           /\ a > 0 /\ b > 0 => Smaller(a, b) > 0
           /\ Smaller(a, b) # b => Smaller(a, b) = a
  BY DEF Smaller

(* Nothing is written or read: what begins, ends or is canceled.           *)
Quiet ==
    /\ UNCHANGED <<outVars, chan>>
    /\ \A r \in Requests : /\ at'[r] = "writing" => at[r] = "writing"
                           /\ at'[r] \in {"writing", "answered"} <=>
                                at[r] \in {"writing", "answered"}

LEMMA FramesStay ==
    ASSUME Quiet, FrameTypes
    PROVE  FrameTypes' /\ (FrameInv => FrameInv')
<1>1. FrameTypes'
  BY DEF Quiet, FrameTypes, outVars
<1>2. ASSUME NEW r \in Requests, ResponseOK(r) PROVE ResponseOK(r)'
  BY <1>2 DEF Quiet, ResponseOK, Delivered, InSync, Dropped, outVars
<1> QED
  BY <1>1, <1>2 DEF FrameInv

(* A host reads an answer of another kind, while nobody is answering it.   *)
Overwritten(c) ==
    /\ HostReady(c)
    /\ inbox' = [inbox EXCEPT ![c] = NothingRead]
    /\ UNCHANGED <<resp, read, chan, at>>

LEMMA FramesStayApart ==
    ASSUME FrameTypes, NEW c \in Channels, Overwritten(c)
    PROVE  /\ FrameTypes'
           /\ FrameInv /\ Patient /\ RegTypeOK /\ OneOpen => FrameInv'
<1> USE DEF Overwritten
<1>1. NothingRead \in Boxes /\ NothingRead.have = NothingRead.need
  BY DEF NothingRead, Boxes
<1>2. FrameTypes'
  <2>1. inbox' \in [Channels -> Boxes]
    BY <1>1 DEF FrameTypes
  <2>2. ASSUME NEW d \in Channels PROVE inbox'[d].have <= inbox'[d].need
    <3>1. inbox'[d] = inbox[d] \/ inbox'[d] = NothingRead
      BY DEF FrameTypes
    <3>2. NothingRead.have <= NothingRead.need
      BY DEF NothingRead
    <3> QED BY <3>1, <3>2 DEF FrameTypes
  <2> QED BY <2>1, <2>2 DEF FrameTypes
<1>3. ASSUME FrameInv, Patient, RegTypeOK, OneOpen, NEW r \in Requests
      PROVE  ResponseOK(r)'
  <2>1. at[r] = "writing" => chan[r] # c
    <3>1. SUFFICES ASSUME at[r] = "writing", chan[r] = c PROVE FALSE
      OBVIOUS
    <3>2. newest[c] = r /\ r # 0
      BY <1>3, <3>1, NoRequestZero DEF OneOpen
    <3> QED BY <1>3, <3>1, <3>2 DEF HostReady, Ended
  <2>2. at[r] = "writing" => inbox'[chan[r]] = inbox[chan[r]]
    BY <1>3, <2>1
  <2> QED BY <1>3, <2>2 DEF FrameInv, ResponseOK, Delivered, InSync, Dropped
<1> QED
  BY <1>2, <1>3 DEF FrameInv

(* A response begins.                                                      *)
LEMMA RespondFrames ==
    ASSUME FrameTypes, RegTypeOK, NEW r \in Requests, Respond(r)
    PROVE  FrameTypes' /\ (FrameInv => FrameInv')
<1>1. PICK n \in Lengths : resp' = [resp EXCEPT ![r].len = n]
  BY DEF Respond
<1>2. at[r] = "running" /\ at' = [at EXCEPT ![r] = "writing"]
      /\ UNCHANGED <<chan, inbox, read>>
  BY DEF Respond, BeginResponse, MayAnswer
<1>3. n \in Nat /\ n > 0
  BY HidAssumption
<1>4. resp[r] = Unwritten /\ read[r] = "no"
  BY <1>2 DEF FrameTypes
<1>5. resp'[r] = [len |-> n, pos |-> 0, seq |-> 0] /\ \A q \in Requests : q # r => resp'[q] = resp[q]
  BY <1>1, <1>4 DEF FrameTypes, Unwritten
<1>6. FrameTypes'
  <2>1. [len |-> n, pos |-> 0, seq |-> 0] \in Responses
    BY <1>3, HidAssumption DEF Responses
  <2>2. resp' = [resp EXCEPT ![r] = [len |-> n, pos |-> 0, seq |-> 0]]
    <3>1. [resp[r] EXCEPT !.len = n] = [len |-> n, pos |-> 0, seq |-> 0]
      BY <1>4 DEF Unwritten
    <3>2. resp' = [resp EXCEPT ![r] = [resp[r] EXCEPT !.len = n]]
      BY <1>1
    <3> QED BY <3>1, <3>2
  <2>3. ASSUME NEW q \in Requests, at'[q] \notin {"writing", "answered"}
        PROVE  resp'[q] = Unwritten /\ read'[q] = "no"
    BY <1>2, <1>5, <2>3 DEF FrameTypes, RegTypeOK
  <2>4. \A q \in Requests : resp'[q].pos <= resp'[q].len
    BY <1>3, <1>5 DEF FrameTypes
  <2> QED BY <1>2, <2>1, <2>2, <2>3, <2>4 DEF FrameTypes
<1>7. ASSUME NEW q \in Requests, ResponseOK(q) PROVE ResponseOK(q)'
  <2>1. CASE q = r
    BY <1>2, <1>3, <1>4, <1>5, <2>1 DEF ResponseOK, Delivered, RegTypeOK
  <2>2. CASE q # r
    BY <1>2, <1>5, <1>7, <2>2 DEF ResponseOK, Delivered, InSync, Dropped, RegTypeOK
  <2> QED BY <2>1, <2>2
<1> QED
  BY <1>6, <1>7 DEF FrameInv

(* One frame, as a whole: what is written, and the host that reads it.     *)
NextFrame(r, n, s, box) ==
    /\ resp' = [resp EXCEPT ![r] = [len |-> resp[r].len, pos |-> resp[r].pos + n, seq |-> s]]
    /\ inbox' = [inbox EXCEPT ![chan[r]] = IF box.have = box.need THEN NothingRead ELSE box]
    /\ read' = IF box.from # 0 /\ box.have = box.need
               THEN [read EXCEPT ![r] = IF box.good /\ box.need = resp[r].len
                                        THEN "whole" ELSE "garbled"]
               ELSE read

(* Two fields of a response change, its length never.                      *)
LEMMA RecordUpdate ==
    ASSUME NEW e \in Responses, NEW x, NEW y
    PROVE  [e EXCEPT !.pos = x, !.seq = y] = [len |-> e.len, pos |-> x, seq |-> y]
<1> DEFINE f == [e EXCEPT !.pos = x]
<1>1. e = [len |-> e.len, pos |-> e.pos, seq |-> e.seq]
  BY DEF Responses
<1>2. f = [len |-> e.len, pos |-> x, seq |-> e.seq]
  BY <1>1
<1> HIDE DEF f
<1>3. [f EXCEPT !.seq = y] = [len |-> e.len, pos |-> x, seq |-> y]
  BY <1>2
<1> QED
  BY <1>3 DEF f

(* Three fields of a box change, its origin and size never.                *)
LEMMA BoxUpdate ==
    ASSUME NEW b \in Boxes, NEW x, NEW y, NEW g
    PROVE  [b EXCEPT !.have = x, !.seq = y, !.good = g]
             = [from |-> b.from, need |-> b.need, have |-> x, seq |-> y, good |-> g]
<1> DEFINE b1 == [b EXCEPT !.have = x]
           b2 == [b1 EXCEPT !.seq = y]
<1>1. b = [from |-> b.from, need |-> b.need, have |-> b.have, seq |-> b.seq, good |-> b.good]
  BY DEF Boxes
<1>2. b1 = [from |-> b.from, need |-> b.need, have |-> x, seq |-> b.seq, good |-> b.good]
  BY <1>1
<1> HIDE DEF b1
<1>3. b2 = [from |-> b.from, need |-> b.need, have |-> x, seq |-> y, good |-> b.good]
  BY <1>2
<1> HIDE DEF b2
<1>4. [b2 EXCEPT !.good = g]
        = [from |-> b.from, need |-> b.need, have |-> x, seq |-> y, good |-> g]
  BY <1>3
<1> QED
  BY <1>4 DEF b2, b1

(* A frame of n bytes is within the response, and the box at the host is   *)
(* never overfull.                                                         *)
LEMMA FrameIsTyped ==
    ASSUME FrameTypes, RegTypeOK, NEW r \in Requests, WriteFrame(r)
    PROVE  \E n \in Nat, s \in 0..(2 * InitBit - 1), box \in Boxes :
        /\ NextFrame(r, n, s, box)
        /\ n > 0 /\ resp[r].pos + n <= resp[r].len
        /\ n = Smaller(IF resp[r].pos = 0 THEN InitLen ELSE ContLen, resp[r].len - resp[r].pos)
        /\ s = NextSeq(r)
        /\ box = IF resp[r].pos = 0 THEN ReadFirst(r, resp[r].len % SizeMod)
                 ELSE ReadNext(inbox[chan[r]], r, resp[r].seq, resp[r].pos, n)
        /\ box.have <= box.need
<1> DEFINE e == resp[r]
           n == Smaller(IF e.pos = 0 THEN InitLen ELSE ContLen, e.len - e.pos)
           old == inbox[chan[r]]
           total == e.len % SizeMod
           box == IF e.pos = 0 THEN ReadFirst(r, total)
                  ELSE ReadNext(old, r, e.seq, e.pos, n)
           s == NextSeq(r)
<1>1. /\ e.pos < e.len /\ e \in Responses
      /\ old \in Boxes /\ old.have <= old.need
  BY DEF WriteFrame, FrameTypes, RegTypeOK
<1>2. /\ e.len \in Nat /\ e.pos \in Nat /\ e.seq \in Nat /\ e.len - e.pos \in Nat \ {0}
      /\ InitLen \in Nat \ {0} /\ ContLen \in Nat \ {0} /\ InitBit \in Nat \ {0}
      /\ SizeMod \in Nat \ {0}
  BY <1>1, HidAssumption DEF Responses
<1> HIDE DEF e
<1>3. n \in Nat /\ n > 0 /\ n <= e.len - e.pos
  <2> DEFINE room == IF e.pos = 0 THEN InitLen ELSE ContLen
             rest == e.len - e.pos
  <2>1. room \in Nat /\ rest \in Nat /\ room > 0 /\ rest > 0
    BY <1>2
  <2> HIDE DEF room, rest
  <2>2. Smaller(room, rest) \in Nat /\ Smaller(room, rest) > 0 /\ Smaller(room, rest) <= rest
    BY <2>1, SmallerOfTwo
  <2> QED BY <2>2 DEF room, rest
<1>4. s \in 0..(2 * InitBit - 1)
  <2>1. (IF e.pos = 0 THEN 0 ELSE e.seq + 1) \in Nat /\ 2 * InitBit \in Nat \ {0}
    BY <1>2
  <2> QED BY <2>1, Remainders DEF NextSeq, e
<1>5. box \in Boxes /\ box.have <= box.need
  <2>1. CASE e.pos = 0
    <3>1. total \in Nat
      BY <1>2, Remainders
    <3>2. Smaller(InitLen, total) \in Nat /\ Smaller(InitLen, total) <= total
      BY <1>2, <3>1, SmallerOfTwo
    <3> HIDE DEF total
    <3>3. box = [from |-> r, need |-> total, have |-> Smaller(InitLen, total), seq |-> 0,
                 good |-> TRUE]
      BY <2>1 DEF ReadFirst
    <3> HIDE DEF box
    <3> QED BY <3>1, <3>2, <3>3 DEF Boxes
  <2>2. CASE e.pos # 0
    <3> DEFINE take == Smaller(ContLen, old.need - old.have)
    <3>1. old.need - old.have \in Nat /\ old.have \in Nat /\ old.need \in Nat
      BY <1>1 DEF Boxes
    <3>2. take \in Nat /\ old.have + take <= old.need
      <4>1. take \in Nat /\ take <= old.need - old.have
        BY <1>2, <3>1, SmallerOfTwo
      <4> HIDE DEF take
      <4> QED BY <3>1, <4>1
    <3>3. \/ box = NothingRead
          \/ box = [old EXCEPT !.have = @ + take, !.seq = @ + 1,
                               !.good = @ /\ old.from = r /\ e.pos = old.have /\ n = take]
      BY <2>2 DEF ReadNext
    <3> HIDE DEF box, take, n
    <3>4. CASE box = NothingRead
      BY <3>4 DEF NothingRead, Boxes
    <3>5. CASE box # NothingRead
      <4> DEFINE g == old.good /\ old.from = r /\ e.pos = old.have /\ n = take
      <4>1. box = [from |-> old.from, need |-> old.need, have |-> old.have + take,
                   seq |-> old.seq + 1, good |-> g]
        BY <1>1, <3>3, <3>5 DEF Boxes
      <4>2. g \in BOOLEAN
        BY <1>1 DEF Boxes
      <4>3. old.from \in Requests \cup {0} /\ old.seq + 1 \in Nat /\ old.have + take \in Nat
        BY <1>1, <3>1, <3>2 DEF Boxes
      <4> HIDE DEF g
      <4> QED BY <3>1, <3>2, <4>1, <4>2, <4>3 DEF Boxes
    <3> QED BY <3>4, <3>5
  <2> QED BY <2>1, <2>2
<1>6. NextFrame(r, n, s, box)
  <2>2. resp' = [resp EXCEPT ![r] = [resp[r] EXCEPT !.pos = e.pos + n, !.seq = s]]
    BY DEF WriteFrame, e
  <2>3. Keep(chan[r], r, box)
    BY DEF WriteFrame, e
  <2> HIDE DEF n, s, box
  <2> DEFINE x == e.pos + n
  <2>1. [resp[r] EXCEPT !.pos = x, !.seq = s] = [len |-> e.len, pos |-> x, seq |-> s]
    <3> HIDE DEF x
    <3>1. [e EXCEPT !.pos = x, !.seq = s] = [len |-> e.len, pos |-> x, seq |-> s]
      BY <1>1, RecordUpdate
    <3> QED BY <3>1 DEF e
  <2> QED BY <2>1, <2>2, <2>3 DEF NextFrame, Keep, e
<1>7. e.pos + n <= e.len
  BY <1>2, <1>3
<1> HIDE DEF n, s, box
<1>8. /\ n = Smaller(IF e.pos = 0 THEN InitLen ELSE ContLen, e.len - e.pos)
      /\ s = NextSeq(r)
      /\ box = IF e.pos = 0 THEN ReadFirst(r, total)
               ELSE ReadNext(old, r, e.seq, e.pos, n)
  BY DEF n, s, box
<1> QED
  BY <1>3, <1>4, <1>5, <1>6, <1>7, <1>8 DEF e

(* The frames of a response that fits its fields, as its host reads them.  *)
LEMMA FrameIsDelivered ==
    ASSUME FrameInv, RegTypeOK, NEW r \in Requests, resp[r].len < SizeMod,
           at[r] = "writing", at' = at, chan' = chan, resp[r].pos < resp[r].len,
           NEW n \in Nat, n > 0, resp[r].pos + n <= resp[r].len,
           n = Smaller(IF resp[r].pos = 0 THEN InitLen ELSE ContLen, resp[r].len - resp[r].pos),
           NEW s \in Nat, s = NextSeq(r),
           NEW box \in Boxes,
           box = IF resp[r].pos = 0 THEN ReadFirst(r, resp[r].len % SizeMod)
                 ELSE ReadNext(inbox[chan[r]], r, resp[r].seq, resp[r].pos, n),
           NextFrame(r, n, s, box)
    PROVE  Delivered(r)' /\ read'[r] # "garbled"
<1>1. PICK len \in Nat, pos \in Nat, seq \in Nat :
        len = resp[r].len /\ pos = resp[r].pos /\ seq = resp[r].seq
  BY DEF FrameInv, FrameTypes, Responses
<1>2. PICK c \in Channels : c = chan[r]
  BY DEF RegTypeOK
<1>3. /\ resp'[r] = [len |-> len, pos |-> pos + n, seq |-> s]
      /\ inbox'[c] = IF box.have = box.need THEN NothingRead ELSE box
      /\ read'[r] = IF box.from # 0 /\ box.have = box.need
                    THEN IF box.good /\ box.need = len THEN "whole" ELSE "garbled"
                    ELSE read[r]
  BY <1>1, <1>2 DEF NextFrame, FrameInv, FrameTypes
<1>4. /\ pos < len /\ len < SizeMod /\ pos + n <= len /\ pos + n \in Nat
      /\ InitLen \in Nat \ {0} /\ ContLen \in Nat \ {0} /\ InitBit \in Nat \ {0}
      /\ SizeMod \in Nat \ {0} /\ r \in Nat /\ r # 0
  BY <1>1, HidAssumption DEF Requests
<1>5. read[r] # "garbled" /\ Delivered(r)
  BY <1>1, <1>4 DEF FrameInv, ResponseOK
<1>10. resp'[r].len = len /\ resp'[r].pos = pos + n /\ resp'[r].seq = s /\ chan'[r] = c
  BY <1>2, <1>3
(* The host keeps what it has read, and the last frame makes it whole.     *)
<1>6. ASSUME box = [from |-> r, need |-> len, have |-> pos + n, seq |-> s, good |-> TRUE],
             pos + n < len => s <= InitBit /\ pos + n = InitLen + s * ContLen
      PROVE  Delivered(r)' /\ read'[r] # "garbled"
  <2>1. CASE pos + n = len
    <3>1. box.from = r /\ box.need = len /\ box.have = len /\ box.good
      BY <1>6, <2>1
    <3>2. read'[r] = "whole"
      BY <1>3, <1>4, <3>1
    <3> QED BY <1>4, <1>10, <2>1, <3>2 DEF Delivered
  <2>2. CASE pos + n < len
    <3>1. inbox'[c] = box /\ read'[r] = read[r]
      BY <1>3, <1>6, <2>2
    <3>2. InSync(r)'
      BY <1>6, <1>10, <2>2, <3>1 DEF InSync
    <3> QED BY <1>4, <1>5, <1>10, <2>2, <3>1, <3>2, SMTT(20) DEF Delivered
  <2> QED BY <1>4, <2>1, <2>2
(* Or it has dropped the response, which is too long.                      *)
<1>7. ASSUME box = NothingRead, len > LongestResponse
      PROVE  Delivered(r)' /\ read'[r] # "garbled"
  <2>1. box.from = 0 /\ inbox'[c] = NothingRead
    BY <1>3, <1>7, SMTT(20) DEF NothingRead
  <2>2. read'[r] = read[r] /\ inbox'[c].from = 0
    BY <1>3, <2>1 DEF NothingRead
  <2>3. Dropped(r)'
    BY <1>7, <1>10, <2>2 DEF Dropped
  <2>4. ~(len \in 1..LongestResponse)
    BY <1>4, <1>7 DEF LongestResponse
  <2> QED BY <1>5, <1>10, <2>2, <2>3, <2>4, SMTT(20) DEF Delivered
<1>8. CASE pos = 0
  <2>1. len % SizeMod = len
    BY <1>4, Remainders
  <2>2. n = Smaller(InitLen, len) /\ s = 0
    <3>1. s = 0 % (2 * InitBit) /\ n = Smaller(InitLen, len - pos)
      BY <1>1, <1>8 DEF NextSeq
    <3>2. 2 * InitBit \in Nat \ {0} /\ 0 < 2 * InitBit /\ len - pos = len
      BY <1>4, <1>8
    <3>3. 0 % (2 * InitBit) = 0
      BY <3>2, Remainders
    <3> QED BY <3>1, <3>2, <3>3
  <2>3. pos + n = n
    BY <1>8
  <2>4. box = [from |-> r, need |-> len, have |-> pos + n, seq |-> s, good |-> TRUE]
    <3>1. box = ReadFirst(r, len)
      BY <1>1, <1>8, <2>1
    <3> QED BY <2>2, <2>3, <3>1 DEF ReadFirst
  <2>5. pos + n < len => s <= InitBit /\ pos + n = InitLen + s * ContLen
    <3>1. pos + n < len => n = InitLen
      BY <1>4, <2>2, <2>3, SmallerOfTwo
    <3>2. s <= InitBit /\ InitLen + s * ContLen = InitLen
      BY <1>4, <2>2
    <3> QED BY <2>3, <3>1, <3>2
  <2> QED BY <1>6, <2>4, <2>5
<1>9. CASE pos # 0
  <2>1. /\ n = Smaller(ContLen, len - pos) /\ len - pos \in Nat
        /\ box = ReadNext(inbox[c], r, seq, pos, n)
        /\ InSync(r) \/ Dropped(r)
    BY <1>1, <1>2, <1>4, <1>5, <1>9 DEF Delivered
  <2>2. CASE Dropped(r)
    <3>1. inbox[c].from = 0 /\ len > LongestResponse
      BY <1>1, <1>2, <2>2, SMTT(20) DEF Dropped
    <3>2. box = NothingRead
      BY <2>1, <3>1 DEF ReadNext
    <3> QED BY <1>7, <3>1, <3>2
  <2>3. CASE InSync(r)
    <3>1. /\ inbox[c] = [from |-> r, need |-> len, have |-> pos, seq |-> seq, good |-> TRUE]
          /\ seq <= InitBit /\ pos = InitLen + seq * ContLen
      BY <1>1, <1>2, <2>3 DEF InSync
    <3>2. CASE seq = InitBit
      <4>1. box = NothingRead
        BY <1>4, <2>1, <3>1, <3>2 DEF ReadNext
      <4>2. len > LongestResponse
        BY <1>4, <3>1, <3>2 DEF LongestResponse
      <4> QED BY <1>7, <4>1, <4>2
    <3>3. CASE seq < InitBit
      <4>1. s = seq + 1
        <5>1. s = (seq + 1) % (2 * InitBit)
          BY <1>1, <1>9 DEF NextSeq
        <5>2. seq + 1 \in Nat /\ 2 * InitBit \in Nat \ {0} /\ seq + 1 < 2 * InitBit
          BY <1>4, <3>3
        <5> QED BY <5>1, <5>2, Remainders
      <4>2. box = [from |-> r, need |-> len, have |-> pos + n, seq |-> s, good |-> TRUE]
        <5> DEFINE b == inbox[c]
        <5>1. /\ b.from = r /\ b.from # 0 /\ b.seq = seq /\ b.have = pos /\ b.good
              /\ Smaller(ContLen, b.need - b.have) = n
          BY <1>4, <2>1, <3>1, SMTT(20)
        <5>2. box = [b EXCEPT !.have = @ + n, !.seq = @ + 1,
                              !.good = @ /\ b.from = r /\ pos = b.have /\ n = n]
          BY <2>1, <3>3, <5>1 DEF ReadNext
        <5>3. (b.good /\ b.from = r /\ pos = b.have /\ n = n) = TRUE
          BY <3>1, <5>1
        <5>4. b \in Boxes
          BY <1>2 DEF FrameInv, FrameTypes
        <5>5. b.need = len
          BY <3>1
        <5> HIDE DEF b
        <5>6. box = [b EXCEPT !.have = pos + n, !.seq = s, !.good = TRUE]
          BY <4>1, <5>1, <5>2, <5>3
        <5>7. box = [from |-> b.from, need |-> b.need, have |-> pos + n, seq |-> s, good |-> TRUE]
          <6>1. [b EXCEPT !.have = pos + n, !.seq = s, !.good = TRUE]
                  = [from |-> b.from, need |-> b.need, have |-> pos + n, seq |-> s, good |-> TRUE]
            BY <5>4, BoxUpdate, ZenonT(30)
          <6> QED BY <5>6, <6>1
        <5> QED BY <5>1, <5>5, <5>7
      <4>3. pos + n < len => s <= InitBit /\ pos + n = InitLen + s * ContLen
        <5> SUFFICES ASSUME pos + n < len PROVE s <= InitBit /\ pos + n = InitLen + s * ContLen
          OBVIOUS
        <5>1. n = ContLen
          BY <1>4, <2>1, SmallerOfTwo
        <5>2. (seq + 1) * ContLen = seq * ContLen + ContLen
          BY <1>4
        <5> QED BY <1>4, <3>1, <3>3, <4>1, <5>1, <5>2
      <4> QED BY <1>6, <4>2, <4>3
    <3> QED BY <1>4, <3>1, <3>2, <3>3
  <2> QED BY <2>1, <2>2, <2>3
<1> QED
  BY <1>8, <1>9

(* A frame leaves everything else where it was.                            *)
LEMMA WriteFrameTypes ==
    ASSUME FrameTypes, RegTypeOK, NEW r \in Requests, WriteFrame(r)
    PROVE  FrameTypes'
<1>1. PICK n \in Nat, s \in 0..(2 * InitBit - 1), box \in Boxes :
        NextFrame(r, n, s, box) /\ resp[r].pos + n <= resp[r].len /\ box.have <= box.need
  BY FrameIsTyped
<1>2. at[r] = "writing" /\ at' = at /\ chan' = chan
  BY DEF WriteFrame, vars
<1>3. resp' \in [Requests -> Responses] /\ \A q \in Requests : resp'[q].pos <= resp'[q].len
  <2> DEFINE new == [len |-> resp[r].len, pos |-> resp[r].pos + n, seq |-> s]
  <2>1. new \in Responses /\ new.pos <= new.len
    BY <1>1 DEF FrameTypes, Responses
  <2>2. resp' = [resp EXCEPT ![r] = new]
    BY <1>1 DEF NextFrame
  <2> HIDE DEF new
  <2> QED BY <2>1, <2>2 DEF FrameTypes
<1>4. inbox' \in [Channels -> Boxes] /\ \A c \in Channels : inbox'[c].have <= inbox'[c].need
  <2> DEFINE new == IF box.have = box.need THEN NothingRead ELSE box
  <2>1. NothingRead \in Boxes /\ NothingRead.have <= NothingRead.need
    BY DEF NothingRead, Boxes
  <2>2. new \in Boxes /\ new.have <= new.need
    BY <1>1, <2>1
  <2>3. inbox' = [inbox EXCEPT ![chan[r]] = new]
    BY <1>1 DEF NextFrame
  <2> HIDE DEF new
  <2> QED BY <2>2, <2>3 DEF FrameTypes
<1>5. read' \in [Requests -> {"no", "whole", "garbled"}]
  BY <1>1 DEF NextFrame, FrameTypes
<1>6. \A q \in Requests : q # r => resp'[q] = resp[q] /\ read'[q] = read[q]
  BY <1>1 DEF NextFrame, FrameTypes
<1> QED
  BY <1>2, <1>3, <1>4, <1>5, <1>6 DEF FrameTypes

(* If nobody else writes to its host, what was written stays in order.     *)
LEMMA WriteFrameKeeps ==
    ASSUME FrameInv, RegTypeOK, OneOpen, NEW r \in Requests, WriteFrame(r)
    PROVE  FrameInv'
<1> DEFINE e == resp[r]
<1>1. PICK n \in Nat, s \in 0..(2 * InitBit - 1), box \in Boxes :
        /\ NextFrame(r, n, s, box)
        /\ n > 0 /\ e.pos + n <= e.len
        /\ n = Smaller(IF e.pos = 0 THEN InitLen ELSE ContLen, e.len - e.pos)
        /\ s = NextSeq(r)
        /\ box = IF e.pos = 0 THEN ReadFirst(r, e.len % SizeMod)
                 ELSE ReadNext(inbox[chan[r]], r, e.seq, e.pos, n)
  BY FrameIsTyped DEF FrameInv
<1>2. at[r] = "writing" /\ at' = at /\ chan' = chan /\ e.pos < e.len
  BY DEF WriteFrame, vars
<1>3. FrameTypes'
  BY WriteFrameTypes DEF FrameInv
<1>4. s \in Nat
  BY HidAssumption
<1>5. ASSUME e.len < SizeMod PROVE Delivered(r)' /\ read'[r] # "garbled"
  BY <1>1, <1>2, <1>4, <1>5, FrameIsDelivered
<1>6. ResponseOK(r)'
  <2>1. resp'[r].len = e.len /\ e.len > 0
    BY <1>1, <1>2 DEF NextFrame, FrameInv, FrameTypes, ResponseOK
  <2>2. e.len \in Nat /\ SizeMod \in Nat
    BY HidAssumption DEF FrameInv, FrameTypes, Responses
  <2>3. read'[r] = "garbled" => e.len >= SizeMod
    BY <1>5, <2>2
  <2>4. resp'[r].len < SizeMod => Delivered(r)'
    BY <1>5, <2>1
  <2> QED BY <2>1, <2>3, <2>4 DEF ResponseOK
<1>7. ASSUME NEW q \in Requests, q # r PROVE ResponseOK(q)'
  <2>1. resp'[q] = resp[q] /\ read'[q] = read[q]
    BY <1>1, <1>7 DEF NextFrame, FrameInv, FrameTypes
  <2>2. at[q] = "writing" => inbox'[chan[q]] = inbox[chan[q]]
    <3>1. at[q] = "writing" => chan[q] # chan[r]
      BY <1>2, <1>7 DEF OneOpen
    <3> QED BY <1>1, <3>1 DEF NextFrame, FrameInv, FrameTypes, RegTypeOK
  <2>3. ResponseOK(q)
    BY DEF FrameInv
  <2> QED BY <1>2, <2>1, <2>2, <2>3 DEF ResponseOK, Delivered, InSync, Dropped
<1> QED
  BY <1>3, <1>6, <1>7 DEF FrameInv

(* What the loop keeps between two packets is nothing, or less of a        *)
(* request than it needs.                                                  *)
BufferOK ==
    /\ pending.kind = "other" => pending = Blank
    /\ pending.kind = "request" =>
            pending.need \in 1..MaxPackets /\ Len(pending.data) < pending.need

(* Every step writes a frame of a response, begins one, answers a host     *)
(* that waits for none, or leaves the hosts alone.                         *)
FrameStep ==
    \/ Quiet
    \/ \E c \in Channels : Overwritten(c)
    \/ \E r \in Requests : Respond(r) \/ WriteFrame(r)

(* What is answered at once was asked by a host that waits for no request. *)
LEMMA WholeFrames ==
    ASSUME RegTypeOK, NEW m, HandOver(m) \/ Cancel(m) \/ AnswerAtOnce(m),
           m.kind = "other" => \/ m.chan = NoChannel
                               \/ m.chan \in Channels /\ HostReady(m.chan)
    PROVE  FrameStep
<1>1. CASE HandOver(m)
  <2>1. PICK r \in Requests : registerRequest(r) /\ UNCHANGED outVars
    BY <1>1 DEF HandOver
  <2>2. at[r] = "unsent" /\ at' = [at EXCEPT ![r] = "running"] /\ chan' = chan
    BY <2>1 DEF registerRequest, ComesNext
  <2> QED BY <2>1, <2>2 DEF RegTypeOK, FrameStep, Quiet
<1>2. CASE Cancel(m)
  BY <1>2 DEF Cancel, cancelRequest, vars, FrameStep, Quiet
<1>3. CASE AnswerAtOnce(m)
  <2>1. /\ inbox' = IF m.chan = NoChannel THEN inbox ELSE [inbox EXCEPT ![m.chan] = NothingRead]
        /\ UNCHANGED <<at, chan, resp, read>>
        /\ m.chan = NoChannel \/ (m.chan \in Channels /\ HostReady(m.chan))
    BY <1>3 DEF AnswerAtOnce, vars
  <2>2. CASE m.chan = NoChannel
    BY <2>1, <2>2 DEF FrameStep, Quiet, outVars
  <2>3. CASE m.chan # NoChannel
    BY <2>1, <2>3 DEF FrameStep, Overwritten
  <2> QED BY <2>2, <2>3
<1> QED
  BY <1>1, <1>2, <1>3

(* The first packet of a message, of any kind.                             *)
LEMMA FirstFrames ==
    ASSUME RegTypeOK, NEW c \in Channels, NEW n \in 1..MaxPackets, NEW kind, NEW piece,
           kind \in {"request", "cancel", "other"},
           kind # "request" => n = 1,
           kind = "other" => HostReady(c),
           TakePacket([first |-> TRUE, need |-> n, chan |-> c, kind |-> kind, piece |-> piece])
    PROVE  BufferOK' /\ FrameStep
<1> DEFINE m == [need |-> n, chan |-> c, kind |-> kind, data |-> <<piece>>]
<1>1. IF Len(m.data) >= m.need
      THEN /\ pending' = Blank
           /\ HandOver(m) \/ Cancel(m) \/ AnswerAtOnce(m)
      ELSE /\ pending' = m
           /\ UNCHANGED <<vars, got, outVars>>
  BY DEF TakePacket, Started, AfterMessage
<1>2. m.need = n /\ m.chan = c /\ m.kind = kind /\ Len(m.data) = 1 /\ n \in Nat /\ n # 0
  BY HidAssumption
<1> HIDE DEF m
<1>3. CASE n = 1
  <2>1. pending' = Blank /\ (HandOver(m) \/ Cancel(m) \/ AnswerAtOnce(m))
    BY <1>1, <1>2, <1>3
  <2>2. FrameStep
    BY <1>2, <2>1, WholeFrames
  <2> QED BY <2>1, <2>2 DEF BufferOK, Blank
<1>4. CASE n # 1
  <2>1. pending' = m /\ UNCHANGED <<vars, got, outVars>>
    BY <1>1, <1>2, <1>4
  <2>2. FrameStep
    BY <2>1 DEF FrameStep, Quiet, vars
  <2>3. 1 < n
    BY <1>2, <1>4
  <2> QED BY <1>2, <1>4, <2>1, <2>2, <2>3 DEF BufferOK
<1> QED
  BY <1>3, <1>4

(* Any other packet.                                                       *)
LEMMA NextFrames ==
    ASSUME HidInv, BufferOK, NEW piece, TakePacket([first |-> FALSE, piece |-> piece])
    PROVE  BufferOK' /\ FrameStep
<1> DEFINE m == [pending EXCEPT !.data = Append(@, piece)]
<1>1. IF Len(m.data) >= m.need
      THEN /\ pending' = Blank
           /\ HandOver(m) \/ Cancel(m) \/ AnswerAtOnce(m)
      ELSE /\ pending' = m
           /\ UNCHANGED <<vars, got, outVars>>
  BY DEF TakePacket, AfterMessage
<1>2. /\ m.chan = pending.chan /\ m.kind = pending.kind /\ m.need = pending.need
      /\ m.data = Append(pending.data, piece)
  BY DEF HidInv, PendingInv
<1>3. RegTypeOK /\ pending.kind \in {"request", "other"}
  BY DEF HidInv, PendingInv, SlotInv
<1> HIDE DEF m
<1>4. CASE Len(m.data) >= m.need
  <2>1. pending' = Blank /\ (HandOver(m) \/ Cancel(m) \/ AnswerAtOnce(m))
    BY <1>1, <1>4
  <2>2. m.kind = "other" => \/ m.chan = NoChannel
                            \/ m.chan \in Channels /\ HostReady(m.chan)
    BY <1>2 DEF BufferOK, Blank
  <2>3. RegTypeOK
    BY <1>3
  <2>4. FrameStep
    BY <2>1, <2>2, <2>3, WholeFrames
  <2> QED BY <2>1, <2>4 DEF BufferOK, Blank
<1>5. CASE ~(Len(m.data) >= m.need)
  <2>1. pending' = m /\ UNCHANGED <<vars, got, outVars>>
    BY <1>1, <1>5
  <2>2. FrameStep
    BY <2>1 DEF FrameStep, Quiet, vars
  <2>3. pending.kind = "request"
    <3>1. SUFFICES ASSUME pending.kind = "other" PROVE FALSE
      BY <1>3
    <3>2. pending.need = 0 /\ pending.data = <<>>
      BY <3>1 DEF BufferOK, Blank
    <3>3. m.need = 0 /\ m.data = <<piece>>
      BY <1>2, <3>2
    <3> QED BY <1>5, <3>3
  <2>4. m.need \in 1..MaxPackets /\ Len(m.data) < m.need
    <3>1. m.need \in 1..MaxPackets
      BY <1>2, <2>3 DEF BufferOK
    <3> QED BY <1>5, <3>1, HidAssumption
  <2> QED BY <1>2, <2>1, <2>2, <2>3, <2>4 DEF BufferOK
<1> QED
  BY <1>4, <1>5

(* Every step of HidTransport.                                             *)
LEMMA LoopStep ==
    ASSUME HidInv, BufferOK, [HidNext]_hidVars
    PROVE  BufferOK' /\ FrameStep
<1>0. RegTypeOK
  BY DEF HidInv, SlotInv
<1>1. ASSUME NEW c \in Channels, NEW n \in 1..MaxPackets, Send(c, n)
      PROVE  BufferOK' /\ FrameStep
  <2> DEFINE p == <<Len(msgs) + 1, 1>>
  <2>1. TakePacket([first |-> TRUE, need |-> n, chan |-> c, kind |-> "request", piece |-> p])
    BY <1>1 DEF Send
  <2> HIDE DEF p
  <2> QED BY <1>0, <2>1, FirstFrames
<1>2. ASSUME NEW c \in Channels, Continue(c) PROVE BufferOK' /\ FrameStep
  BY <1>2, NextFrames DEF Continue
<1>3. ASSUME NEW c \in Channels, NEW kind \in {"cancel", "other"}, SendSingle(c, kind)
      PROVE  BufferOK' /\ FrameStep
  <2>1. /\ TakePacket([first |-> TRUE, need |-> 1, chan |-> c, kind |-> kind, piece |-> <<0, 1>>])
        /\ kind = "other" => HostReady(c)
    BY <1>3 DEF SendSingle
  <2>2. 1 \in 1..MaxPackets
    BY HidAssumption
  <2> QED BY <1>0, <2>1, <2>2, FirstFrames
<1>4. ASSUME NEW r \in Requests, Respond(r) \/ WriteFrame(r) \/ Return(r) \/ Abandon(r)
      PROVE  BufferOK' /\ FrameStep
  <2>1. pending' = pending
    BY <1>4 DEF Respond, WriteFrame, Return, Abandon, inVars
  <2>2. BufferOK'
    BY <2>1 DEF BufferOK
  <2>3. CASE Respond(r) \/ WriteFrame(r)
    BY <2>2, <2>3 DEF FrameStep
  <2>4. CASE Return(r)
    <3>1. at[r] = "writing" /\ at' = [at EXCEPT ![r] = "answered"] /\ UNCHANGED <<outVars, chan>>
      BY <2>4 DEF Return, EndResponse
    <3> QED BY <1>0, <2>2, <3>1 DEF RegTypeOK, FrameStep, Quiet
  <2>5. CASE Abandon(r)
    <3>1. at[r] = "running" /\ at' = [at EXCEPT ![r] = "silent"] /\ UNCHANGED <<outVars, chan>>
      BY <2>5 DEF Abandon, EndSilently
    <3> QED BY <1>0, <2>2, <3>1 DEF RegTypeOK, FrameStep, Quiet
  <2> QED BY <1>4, <2>3, <2>4, <2>5
<1>5. CASE UNCHANGED hidVars
  BY <1>5 DEF hidVars, vars, outVars, BufferOK, FrameStep, Quiet
<1> QED
  BY <1>1, <1>2, <1>3, <1>4, <1>5 DEF HidNext

(* The types, and what is not begun is not written: whatever the hosts do. *)
LEMMA FrameTypesStep ==
    ASSUME HidInv, FrameTypes, FrameStep
    PROVE  FrameTypes'
<1>1. RegTypeOK
  BY DEF HidInv, SlotInv
<1> QED
  BY <1>1, FramesStay, FramesStayApart, RespondFrames, WriteFrameTypes DEF FrameStep

(* The frames of every response, for hosts that are patient.               *)
LEMMA FramesStep ==
    ASSUME PatientInv, Patient, FrameInv, FrameStep
    PROVE  FrameInv'
<1>1. RegTypeOK /\ OneOpen /\ FrameTypes
  BY DEF PatientInv, SlotInv, FrameInv
<1>2. CASE Quiet
  BY <1>1, <1>2, FramesStay
<1>3. ASSUME NEW c \in Channels, Overwritten(c) PROVE FrameInv'
  BY <1>1, <1>3, FramesStayApart
<1>4. ASSUME NEW r \in Requests, Respond(r) PROVE FrameInv'
  BY <1>1, <1>4, RespondFrames
<1>5. ASSUME NEW r \in Requests, WriteFrame(r) PROVE FrameInv'
  BY <1>1, <1>5, WriteFrameKeeps
<1> QED
  BY <1>2, <1>3, <1>4, <1>5 DEF FrameStep

(* Nothing is written or read at first.                                    *)
LEMMA FramesInit == HidInit => FrameInv /\ BufferOK
<1> SUFFICES ASSUME HidInit PROVE FrameInv /\ BufferOK
  OBVIOUS
<1>1. BufferOK
  BY DEF HidInit, BufferOK, Blank
<1>2. Unwritten \in Responses /\ Unwritten.pos <= Unwritten.len
  <2>1. 0 \in 0..(2 * InitBit - 1)
    BY HidAssumption
  <2> QED BY <2>1 DEF Unwritten, Responses
<1>3. NothingRead \in Boxes /\ NothingRead.have <= NothingRead.need
  BY DEF NothingRead, Boxes
<1>4. /\ resp = [r \in Requests |-> Unwritten] /\ inbox = [c \in Channels |-> NothingRead]
      /\ read = [r \in Requests |-> "no"] /\ at = [r \in Requests |-> "unsent"]
  BY DEF HidInit, RegInit, Unwritten
<1>5. FrameTypes
  BY <1>2, <1>3, <1>4 DEF FrameTypes
<1>6. ASSUME NEW r \in Requests PROVE ResponseOK(r)
  <2>1. resp[r].len = 0 /\ read[r] = "no" /\ at[r] = "unsent"
    BY <1>4 DEF Unwritten
  <2> QED BY <2>1 DEF ResponseOK, Delivered
<1> QED
  BY <1>1, <1>5, <1>6 DEF FrameInv

(* The packet loop and the frames keep their types, whatever hosts do.     *)
THEOREM HidTypesCorrect == HidSpec => []HidTypeOK
<1>1. HidInit => FrameTypes /\ BufferOK
  BY FramesInit DEF FrameInv
<1>2. HidInv /\ FrameTypes /\ BufferOK /\ [HidNext]_hidVars => FrameTypes' /\ BufferOK'
  BY LoopStep, FrameTypesStep
<1>3. HidInv /\ PacketInv /\ FrameTypes /\ BufferOK => HidTypeOK
  <2> SUFFICES ASSUME HidInv, PacketInv, FrameTypes, BufferOK PROVE HidTypeOK
    OBVIOUS
  <2>1. pending.kind \in {"request", "other"}
    BY DEF HidInv, PendingInv
  <2>2. pending.data \in Seq(Pieces) /\ Len(pending.data) \in Nat
    BY LenProperties DEF PacketInv, Buffered, Placed, MadeOf
  <2>3. pending.need \in 0..MaxPackets /\ Len(pending.data) <= MaxPackets
    <3>1. CASE pending.kind = "request"
      BY <2>2, <3>1, HidAssumption DEF BufferOK
    <3>2. CASE pending.kind = "other"
      <4>1. pending.need = 0 /\ Len(pending.data) = 0
        BY <3>2, EmptySeq DEF BufferOK, Blank
      <4> QED BY <4>1, HidAssumption
    <3> QED BY <2>1, <3>1, <3>2
  <2>4. ASSUME NEW r \in Requests PROVE resp[r].seq < 2 * InitBit
    <3>1. resp[r].seq \in 0..(2 * InitBit - 1)
      BY DEF FrameTypes, Responses
    <3> QED BY <3>1, HidAssumption
  <2> QED BY <2>1, <2>3, <2>4 DEF HidTypeOK, HidInv, SlotInv, PacketInv, FrameTypes
<1> QED
  BY <1>1, <1>2, <1>3, HidInvariant, PacketInvariant, PTL DEF HidSpec

(* A response that is not longer than the sequence numbers can count is    *)
(* read as it was written, by a host that was patient, whatever strays or  *)
(* broken requests of other hosts the loop has taken meanwhile; and no     *)
(* host mistakes a longer one for a response, if its length fits uint16.   *)
THEOREM ResponsesAreRead ==
    Patient /\ LongestResponse < SizeMod => (HidSpec => []ReadsAreWhole)
<1> SUFFICES ASSUME Patient, LongestResponse < SizeMod PROVE HidSpec => []ReadsAreWhole
  OBVIOUS
<1>1. HidInit => FrameInv /\ BufferOK /\ PatientInv
  BY FramesInit, PatientInit DEF HidInit
<1>2. HidInv /\ PatientInv /\ FrameInv /\ BufferOK /\ [HidNext]_hidVars
        => PatientInv' /\ FrameInv' /\ BufferOK'
  BY LoopStep, FramesStep, HidStep, PatientStep
<1>3. FrameInv => ReadsAreWhole
  <2> SUFFICES ASSUME FrameInv, NEW r \in Requests
               PROVE  /\ (at[r] = "answered" /\ resp[r].pos = resp[r].len
                           /\ resp[r].len <= LongestResponse) => read[r] = "whole"
                      /\ read[r] = "garbled" => resp[r].len >= SizeMod
    BY DEF ReadsAreWhole
  <2>1. ResponseOK(r) /\ resp[r].len \in Nat
    BY DEF FrameInv, FrameTypes, Responses
  <2>2. LongestResponse \in Nat /\ SizeMod \in Nat
    BY HidAssumption DEF LongestResponse
  <2>3. at[r] = "answered" /\ resp[r].len <= LongestResponse =>
          resp[r].len \in 1..LongestResponse /\ resp[r].len < SizeMod
    <3> HIDE DEF LongestResponse
    <3> QED BY <2>1, <2>2 DEF ResponseOK
  <2> QED BY <2>1, <2>3 DEF ResponseOK, Delivered
<1> QED
  BY <1>1, <1>2, <1>3, HidInvariant, PTL DEF HidSpec
=============================================================================
