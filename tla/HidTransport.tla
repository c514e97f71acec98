---------------------------- MODULE HidTransport ----------------------------
(***************************************************************************)
(* CTAPHID between the hosts and the request registry (fidohid.go): the    *)
(* hosts' packets become messages in the one loop of Run, a message        *)
(* becomes a request of RequestRegistry, and writeRespose cuts a response  *)
(* into frames that the host puts together again.                          *)
(*                                                                         *)
(* The loop has one buffer for all channels, and looks at neither the      *)
(* channel nor the sequence number of a continuation.  Packets are taken   *)
(* in the order they are written, so a host's write and the loop's turn    *)
(* with that packet are one step.  A message is as long as the packets it  *)
(* takes, since the loop counts whole packets; its bytes are the pieces    *)
(* <<message, packet>>.  Frames of responses carry byte counts.            *)
(***************************************************************************)
EXTENDS RequestRegistry, Sequences

CONSTANTS
    MaxPackets,    \* bound of the model: packets in a request
    Lengths,       \* lengths of responses
    InitLen,       \* initialPacketDataLen, 57
    ContLen,       \* contPacketDataLen, 59
    InitBit,       \* frameTypeInit, 128
    SizeMod        \* 2^16, the values of a uint16

ASSUME HidAssumption ==
    /\ {MaxPackets, InitLen, ContLen, InitBit, SizeMod} \subseteq Nat \ {0}
    /\ Lengths \subseteq Nat \ {0}

VARIABLES
    msgs,       \* history: the request messages hosts sent, in order
    upload,     \* the message each channel's host is sending, or 0
    pending,    \* innerMsg, needSize, reqChanID and cmd of the loop
    got,        \* history: the pieces each request was made of
    resp,       \* the data writeRespose is cutting up, for each request
    inbox,      \* the response each host is reading
    read        \* history: what became of a response at its host

hidVars == <<vars, msgs, upload, pending, got, resp, inbox, read>>
inVars  == <<msgs, upload, pending, got>>
outVars == <<resp, inbox, read>>

NoChannel == "none"
Smaller(a, b) == IF a < b THEN a ELSE b

(* The variables at the top of the loop: cmd is 0, which is no command.    *)
Blank == [need |-> 0, chan |-> NoChannel, kind |-> "other", data |-> <<>>]

NothingRead == [from |-> 0, need |-> 0, have |-> 0, seq |-> 0, good |-> TRUE]

HidInit ==
    /\ RegInit
    /\ msgs = <<>>
    /\ upload = [c \in Channels |-> 0]
    /\ pending = Blank
    /\ got = [r \in Requests |-> <<>>]
    /\ resp = [r \in Requests |-> [len |-> 0, pos |-> 0, seq |-> 0]]
    /\ inbox = [c \in Channels |-> NothingRead]
    /\ read = [r \in Requests |-> "no"]
-----------------------------------------------------------------------------
(* A frame at its host: an initial frame begins a response whatever was    *)
(* there before; a continuation belongs to it if it is the next in order.  *)
(* A sequence number with the top bit set looks like an initial frame of   *)
(* a command nobody gave, and the host drops what it has.                  *)
ReadFirst(r, total) ==
    [from |-> r, need |-> total, have |-> Smaller(InitLen, total), seq |-> 0,
     good |-> TRUE]

ReadNext(box, r, seq, pos, n) ==
    LET take == Smaller(ContLen, box.need - box.have) IN
    IF box.from # 0 /\ seq < InitBit /\ seq = box.seq
    THEN [box EXCEPT !.have = @ + take, !.seq = @ + 1,
                     !.good = @ /\ box.from = r /\ pos = box.have /\ n = take]
    ELSE NothingRead

(* The host of channel c has box; it is done with it when nothing misses.  *)
Keep(c, r, box) ==
    /\ inbox' = [inbox EXCEPT ![c] = IF box.have = box.need THEN NothingRead ELSE box]
    /\ read' = IF box.from # 0 /\ box.have = box.need
               THEN [read EXCEPT ![r] = IF box.good /\ box.need = resp[r].len
                                        THEN "whole" ELSE "garbled"]
               ELSE read

(* Mutant: the counter of continuation frames starts with the first frame. *)
SeqFromFirst(r) == (resp[r].seq + 1) % (2 * InitBit)

(* Mutant: the counter is wider than the byte it is sent in.               *)
WideSeq(r) == IF resp[r].pos = 0 THEN 0 ELSE resp[r].seq + 1

NextSeq(r) == (IF resp[r].pos = 0 THEN 0 ELSE resp[r].seq + 1) % (2 * InitBit)

(* One turn of the loop of writeRespose, and the host reads it.            *)
WriteFrame(r) ==
    LET pos   == resp[r].pos
        first == pos = 0
        n     == Smaller(IF first THEN InitLen ELSE ContLen, resp[r].len - pos)
        c     == chan[r]
    IN  /\ at[r] = "writing"
        /\ pos < resp[r].len
        /\ Keep(c, r, IF first THEN ReadFirst(r, resp[r].len % SizeMod)
                      ELSE ReadNext(inbox[c], r, resp[r].seq, pos, n))
        /\ resp' = [resp EXCEPT ![r].pos = pos + n, ![r].seq = NextSeq(r)]
        /\ UNCHANGED <<vars, inVars>>

Respond(r) ==
    /\ BeginResponse(r)
    /\ \E n \in Lengths : resp' = [resp EXCEPT ![r].len = n]
    /\ UNCHANGED <<inVars, inbox, read>>

(* The data is out, or WriteEvent failed and the rest stays unwritten.     *)
Return(r) == EndResponse(r) /\ UNCHANGED <<inVars, outVars>>

Abandon(r) == EndSilently(r) /\ UNCHANGED <<inVars, outVars>>
-----------------------------------------------------------------------------
(* The loop has a whole message.                                           *)
HandOver(m) ==
    /\ m.kind = "request"
    /\ \E r \in Requests : /\ chan[r] = m.chan
                           /\ registerRequest(r)
                           /\ got' = [got EXCEPT ![r] = m.data]
    /\ UNCHANGED outVars

Cancel(m) ==
    /\ m.kind = "cancel"
    /\ cancelRequest(m.chan) \/ (cancelFns[m.chan] = 0 /\ UNCHANGED vars)
    /\ UNCHANGED <<got, outVars>>

(* INIT, and commands that are not supported, are answered at once in one  *)
(* frame; what a stray continuation is answered goes to no channel.        *)
AnswerAtOnce(m) ==
    /\ m.kind = "other"
    /\ inbox' = IF m.chan = NoChannel THEN inbox ELSE [inbox EXCEPT ![m.chan] = NothingRead]
    /\ UNCHANGED <<vars, got, resp, read>>

(* Mutant: an initial packet does not end the message before it.           *)
AppendedToPending(p) ==
    [need |-> p.need, chan |-> p.chan, kind |-> p.kind, data |-> Append(pending.data, p.piece)]

Started(p) == [need |-> p.need, chan |-> p.chan, kind |-> p.kind, data |-> <<p.piece>>]

(* Mutant: needSize, reqChanID and cmd outlive the message they came with. *)
BlankData(m) == [m EXCEPT !.data = <<>>]

AfterMessage(m) == Blank

TakePacket(p) ==
    LET m == IF p.first THEN Started(p)
             ELSE [pending EXCEPT !.data = Append(@, p.piece)]
    IN  IF Len(m.data) >= m.need
        THEN /\ pending' = AfterMessage(m)
             /\ HandOver(m) \/ Cancel(m) \/ AnswerAtOnce(m)
        ELSE /\ pending' = m
             /\ UNCHANGED <<vars, got, outVars>>
-----------------------------------------------------------------------------
(* The hosts.  A packet of c lands between the packets of the others.      *)
Torn(seq, c) ==
    [m \in DOMAIN seq |->
        IF upload[seq[m].by] = m /\ seq[m].by # c THEN [seq[m] EXCEPT !.torn = TRUE] ELSE seq[m]]

Send(c, n) ==
    /\ Len(msgs) < MaxRequests
    /\ upload[c] = 0
    /\ HostReady(c)
    /\ LET m == Len(msgs) + 1 IN
        /\ msgs' = Append(Torn(msgs, c), [by |-> c, size |-> n, sent |-> 1, torn |-> FALSE])
        /\ upload' = [upload EXCEPT ![c] = IF n = 1 THEN 0 ELSE m]
        /\ TakePacket([first |-> TRUE, need |-> n, chan |-> c, kind |-> "request",
                       piece |-> <<m, 1>>])

Continue(c) ==
    LET m == upload[c]
        i == msgs[m].sent + 1
    IN  /\ m # 0
        /\ msgs' = [Torn(msgs, c) EXCEPT ![m].sent = i]
        /\ upload' = [upload EXCEPT ![c] = IF i = msgs[m].size THEN 0 ELSE m]
        /\ TakePacket([first |-> FALSE, piece |-> <<m, i>>])

(* CANCEL may come at any time; a host waits with the other commands.      *)
SendSingle(c, kind) ==
    /\ upload[c] = 0
    /\ kind = "other" => HostReady(c)
    /\ msgs' = Torn(msgs, c)
    /\ TakePacket([first |-> TRUE, need |-> 1, chan |-> c, kind |-> kind, piece |-> <<0, 1>>])
    /\ UNCHANGED upload

HidNext ==
    \/ \E c \in Channels :
        \/ \E n \in 1..MaxPackets : Send(c, n)
        \/ Continue(c)
        \/ SendSingle(c, "cancel") \/ SendSingle(c, "other")
    \/ \E r \in Requests : Respond(r) \/ WriteFrame(r) \/ Return(r) \/ Abandon(r)

HidSpec == HidInit /\ [][HidNext]_hidVars
-----------------------------------------------------------------------------
HidTypeOK ==
    /\ RegTypeOK
    /\ upload \in [Channels -> 0..Len(msgs)]
    /\ pending.need \in 0..MaxPackets /\ Len(pending.data) <= MaxPackets
    /\ pending.kind \in {"request", "other"}
    /\ \A r \in Requests : resp[r].pos <= resp[r].len /\ resp[r].seq < 2 * InitBit
    /\ \A c \in Channels : inbox[c].have <= inbox[c].need
    /\ read \in [Requests -> {"no", "whole", "garbled"}]

(* A request whose packets were written in a row reaches its handler as it *)
(* was sent, whatever was left in the buffer, or strayed into it, before:  *)
(* mixed messages of other hosts do no lasting harm.                       *)
UntornIsIntact ==
    \A m \in DOMAIN msgs :
        (msgs[m].sent = msgs[m].size /\ ~msgs[m].torn) =>
            \E r \in Requests : /\ chan[r] = msgs[m].by
                                /\ got[r] = [i \in 1..msgs[m].size |-> <<m, i>>]

(* No packet ends up in two requests, and a request begins with the        *)
(* initial packet of the channel it will be answered on.                   *)
NoPacketTwice ==
    /\ \A q, r \in Requests : \A i \in DOMAIN got[q], j \in DOMAIN got[r] :
        got[q][i] = got[r][j] => q = r /\ i = j
    /\ \A r \in Requests : got[r] # <<>> =>
        got[r][1][2] = 1 /\ msgs[got[r][1][1]].by = chan[r]

(* Hosts that are patient with their own messages are patient hosts for    *)
(* the registry too: strays and mixed messages register nothing that no    *)
(* host asked for.                                                         *)
ImplementsRegistry == RegSpec

(* The longest response the sequence numbers can carry.                    *)
LongestResponse == InitLen + InitBit * ContLen

(* A response that was written to the end and is not too long is read as   *)
(* it was written, whatever failed on the channel before; a longer one is  *)
(* not mistaken for a response unless its length does not fit uint16.      *)
ReadsAreWhole ==
    \A r \in Requests :
        /\ (at[r] = "answered" /\ resp[r].pos = resp[r].len /\ resp[r].len <= LongestResponse)
             => read[r] = "whole"
        /\ read[r] = "garbled" => resp[r].len >= SizeMod
=============================================================================
