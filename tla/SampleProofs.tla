---------------------------- MODULE SampleProofs ----------------------------
(***************************************************************************)
(* Theorems about the sample programs: what their runs check at a few      *)
(* messages, for any number of writers, instances, messages and buffers.   *)
(* Each program has an inductive invariant that keeps the account of its   *)
(* messages: WaitInv of the kernel sample, UserInv of the user-space one   *)
(* and XenInv of those of the Xen domains.                                 *)
(***************************************************************************)
EXTENDS MCSamples, Sequences, TLAPS

\* Leaves are for Zenon unless they name another prover.
USE ZenonT(120)

-----------------------------------------------------------------------------
(* The kernel sample *)

\* The writers in wait_for_completion_interruptible.
Waiting == {w \in Writers : writer[w].at = "wait"}

\* The state of a writer.
Writer == [at : {"idle", "send", "wait", "check"}, num : Nat, msg : Nat]

WaitTypes ==
    /\ writer \in [Writers -> Writer]
    /\ completion \in Nat /\ interrupted \in Nat
    /\ crossed \in BOOLEAN
    /\ requests \in [W!Channels -> Seq(Nat)]
    /\ replies \in [W!Channels -> Seq(Nat)]

\* Until a second writer starts beside the first, there is one.
OneAtWork == ~crossed => \A v, w \in W!Working : v = w

\* All the elements of a sequence are n.
AllAre(s, n) == \A i \in 1..Len(s) : s[i] = n

\* What a writer waits for is its own message: the message itself, its echo, or
\* the number that the callback has stored.
OwnReply ==
    interrupted = 0 /\ ~crossed =>
        \A w \in Writers :
            /\ writer[w].at = "check" => last = writer[w].msg
            /\ writer[w].at = "wait" =>
                  /\ completion > 0 => last = writer[w].msg
                  /\ \A c \in W!Channels :
                        /\ AllAre(requests[c], writer[w].msg)
                        /\ AllAre(replies[c], writer[w].msg)

\* The balance of posts and waits, and whose number it is that is compared.
WaitInv == WaitTypes /\ W!CompletionBalance /\ OneAtWork /\ OwnReply

\* What the argument needs of the counting of the writers that wait: it is proved
\* below, where the theorems about finite sets are at hand.
Counts ==
    \A S \in SUBSET Writers :
        /\ W!Cardinality(S) \in Nat
        /\ S = {} => W!Cardinality(S) = 0
        /\ \A w \in Writers \ S : W!Cardinality(S \cup {w}) = W!Cardinality(S) + 1
        /\ \A w \in S : W!Cardinality(S \ {w}) = W!Cardinality(S) - 1

LEMMA WaitingCount ==
    ASSUME Counts
    PROVE  /\ Waiting \subseteq Writers
           /\ W!Cardinality(Waiting) \in Nat
           /\ Waiting = {} => W!Cardinality(Waiting) = 0
<1>1. Waiting \subseteq Writers
    BY DEF Waiting
<1> QED BY <1>1 DEF Counts

\* CompletionBalance, with a name for the set that is counted.
Balance == completion + W!UnderWay = W!Cardinality(Waiting) + interrupted

LEMMA BalanceSame == /\ W!CompletionBalance <=> Balance
                     /\ W!CompletionBalance' <=> Balance'
BY DEF W!CompletionBalance, Balance, Waiting

LEMMA ChannelRange == \A m \in Nat : W!ChannelOf(m) \in W!Channels
BY SMTT(60) DEF W!ChannelOf, W!Channels

LEMMA NoneUnderWay == W!Empty \in [W!Channels -> Seq(Nat)]
<1>1. <<>> \in Seq(Nat)
    BY SMTT(60)
<1> QED BY <1>1 DEF W!Empty

LEMMA WaitInit == Counts /\ W!Init => WaitInv
<1> SUFFICES ASSUME Counts, W!Init PROVE WaitInv
    OBVIOUS
<1>0. crossed \in BOOLEAN
    BY DEF W!Init
<1>1. WaitTypes
    BY <1>0, NoneUnderWay DEF W!Init, W!Resting, WaitTypes, Writer
<1>2. Waiting = {}
    BY DEF W!Init, W!Resting, Waiting
<1>3. Balance
  <2>1. W!Cardinality(Waiting) = 0
      BY <1>2, WaitingCount
  <2> QED BY <2>1, SMTT(60) DEF W!Init, W!Empty, W!Channels, W!UnderWay, Balance
<1>4. OneAtWork /\ OwnReply
    BY DEF W!Init, W!Resting, W!Working, OneAtWork, OwnReply
<1> QED BY <1>1, <1>3, <1>4, BalanceSame DEF WaitInv

\* A step that leaves the messages under way and the waits alone.
LEMMA WaitAside ==
    ASSUME WaitInv, Waiting' = Waiting,
           completion' = completion, requests' = requests, replies' = replies,
           interrupted' = interrupted
    PROVE  W!CompletionBalance'
<1>1. Balance
    BY BalanceSame DEF WaitInv
<1>2. W!UnderWay' = W!UnderWay
    BY DEF W!UnderWay
<1>3. Balance'
    BY <1>1, <1>2 DEF Balance
<1> QED BY <1>3, BalanceSame

LEMMA WaitLoad == WaitInv /\ (W!sample_mod_init \/ UNCHANGED wait) => WaitInv'
<1> SUFFICES ASSUME WaitInv, W!sample_mod_init \/ UNCHANGED wait PROVE WaitInv'
    OBVIOUS
<1>1. UNCHANGED <<writer, completion, last, requests, replies, lostBufs, interrupted, crossed>>
    BY DEF W!sample_mod_init, wait
<1>2. WaitTypes' /\ Waiting' = Waiting
    BY <1>1 DEF WaitInv, WaitTypes, Waiting
<1>3. OneAtWork'
    BY <1>1 DEF WaitInv, OneAtWork, W!Working
<1>4. OwnReply'
    BY <1>1 DEF WaitInv, OwnReply, AllAre
<1> QED BY <1>1, <1>2, <1>3, <1>4, WaitAside DEF WaitInv

LEMMA WaitUnload == Counts /\ WaitInv /\ W!sample_mod_exit => WaitInv'
<1> SUFFICES ASSUME Counts, WaitInv, W!sample_mod_exit PROVE WaitInv'
    OBVIOUS
<1>1. /\ completion' = 0 /\ interrupted' = 0 /\ crossed' = FALSE /\ writer' = writer
      /\ requests' = W!Empty /\ replies' = W!Empty
      /\ \A w \in Writers : writer[w].at = "idle"
    BY DEF W!sample_mod_exit, W!Working
<1>0. crossed' \in BOOLEAN
    BY <1>1
<1>2. WaitTypes'
    BY <1>0, <1>1, NoneUnderWay DEF WaitInv, WaitTypes, Writer
<1>3. Waiting' = {}
    BY <1>1 DEF Waiting
<1>4. Balance'
  <2>1. W!Cardinality(Waiting') = 0
      BY <1>3 DEF Counts
  <2> QED BY <1>1, <2>1, SMTT(60) DEF W!Empty, W!Channels, W!UnderWay, Balance
<1>5. OneAtWork' /\ OwnReply'
    BY <1>1 DEF W!Working, OneAtWork, OwnReply
<1> QED BY <1>2, <1>4, <1>5, BalanceSame DEF WaitInv

\* ipc_sysfs_store: a writer begins.
LEMMA WaitStore ==
    ASSUME WaitInv, NEW w \in Writers, NEW num \in Nat, W!ipc_sysfs_store(w, num)
    PROVE  WaitInv'
<1>1. /\ writer[w].at = "idle"
      /\ writer' = [writer EXCEPT ![w] = [at |-> "send", num |-> num, msg |-> 0]]
      /\ crossed' = (crossed \/ W!Working # {})
      /\ UNCHANGED <<completion, last, requests, replies, interrupted>>
    BY DEF W!ipc_sysfs_store
<1>2. crossed' \in BOOLEAN
    BY <1>1 DEF WaitInv, WaitTypes
<1>3. WaitTypes'
    BY <1>1, <1>2 DEF WaitInv, WaitTypes, Writer
<1>4. Waiting' = Waiting
    BY <1>1 DEF WaitInv, WaitTypes, Writer, Waiting
<1>5. OneAtWork'
  <2>1. ~crossed' => ~crossed /\ W!Working = {}
      BY <1>1
  <2>2. W!Working' \subseteq W!Working \cup {w}
      BY <1>1 DEF WaitInv, WaitTypes, Writer, W!Working
  <2> QED BY <2>1, <2>2 DEF OneAtWork
<1>6. OwnReply'
  <2>1. ~crossed' => ~crossed
      BY <1>1
  <2> QED BY <1>1, <2>1 DEF WaitInv, WaitTypes, Writer, OwnReply, AllAre
<1> QED BY <1>3, <1>4, <1>1, <1>5, <1>6, WaitAside DEF WaitInv

\* A writer leaves, or goes on to its next message: SendNoBuffer, SendFails
\* and Check.
LEMMA WaitGoOn ==
    ASSUME WaitInv, NEW w \in Writers, W!SendNoBuffer(w) \/ W!SendFails(w) \/ W!Check(w)
    PROVE  WaitInv'
<1>1. /\ writer[w].at \in {"send", "check"}
      /\ \/ writer' = [writer EXCEPT ![w] = W!Resting]
         \/ writer' = [writer EXCEPT ![w] = [at |-> "send", num |-> @.num, msg |-> @.msg + 1]]
      /\ UNCHANGED <<completion, last, requests, replies, interrupted, crossed>>
    BY DEF W!SendNoBuffer, W!SendFails, W!Check, W!Leave
<1>2. PICK x \in [at : {"idle", "send"}, num : Nat, msg : Nat] :
          writer' = [writer EXCEPT ![w] = x]
  <2>1. W!Resting \in [at : {"idle", "send"}, num : Nat, msg : Nat]
      BY DEF W!Resting
  <2>2. [at |-> "send", num |-> writer[w].num, msg |-> writer[w].msg + 1]
            \in [at : {"idle", "send"}, num : Nat, msg : Nat]
      BY SMTT(60) DEF WaitInv, WaitTypes, Writer
  <2> QED BY <1>1, <2>1, <2>2
<1>t. WaitTypes'
    BY <1>1, <1>2 DEF WaitInv, WaitTypes, Writer
<1>3. Waiting' = Waiting
    BY <1>1, <1>2 DEF WaitInv, WaitTypes, Writer, Waiting
<1>4. OneAtWork'
  <2>1. W!Working' \subseteq W!Working
      BY <1>1, <1>2 DEF WaitInv, WaitTypes, Writer, W!Working
  <2> QED BY <1>1, <2>1 DEF WaitInv, OneAtWork
<1>5. OwnReply'
    BY <1>1, <1>2, SMTT(60) DEF WaitInv, WaitTypes, Writer, OwnReply, AllAre
<1> QED BY <1>1, <1>t, <1>3, <1>4, <1>5, WaitAside DEF WaitInv

\* The number of messages of the two channels, and what an update of one does to it.
Total(f) == Len(f[1]) + Len(f[2])

\* Messages and echoes under way, channel by channel.
LEMMA UnderWayTotal ==
    WaitTypes => W!UnderWay = Total(requests) + Total(replies)
<1> SUFFICES ASSUME WaitTypes PROVE W!UnderWay = Total(requests) + Total(replies)
    OBVIOUS
<1>1. /\ Len(requests[1]) \in Nat /\ Len(requests[2]) \in Nat
      /\ Len(replies[1]) \in Nat /\ Len(replies[2]) \in Nat
    BY SMTT(60) DEF WaitTypes, W!Channels
<1>2. PICK a \in Nat, b \in Nat, c \in Nat, d \in Nat :
          /\ a = Len(requests[1]) /\ b = Len(requests[2])
          /\ c = Len(replies[1]) /\ d = Len(replies[2])
    BY <1>1
<1>3. W!UnderWay = a + b + c + d /\ Total(requests) = a + b /\ Total(replies) = c + d
    BY <1>2 DEF W!UnderWay, Total
<1> QED BY <1>3, SMTT(60)

LEMMA UnderWayTotalNext ==
    WaitTypes' => W!UnderWay' = Total(requests') + Total(replies')
<1>1. (WaitTypes => W!UnderWay = Total(requests) + Total(replies))'
    BY UnderWayTotal, PTL
<1> QED BY <1>1 DEF Total

LEMMA TotalFacts ==
    ASSUME NEW f \in [W!Channels -> Seq(Nat)], NEW c \in W!Channels
    PROVE  /\ Total(f) \in Nat /\ Len(f[c]) \in Nat /\ Len(f[c]) <= Total(f)
           /\ \A s \in Seq(Nat) :
                 Len(s) \in Nat /\ Total([f EXCEPT ![c] = s]) = Total(f) + Len(s) - Len(f[c])
<1>1. f[1] \in Seq(Nat) /\ f[2] \in Seq(Nat)
    BY DEF W!Channels
<1>2. Len(f[1]) \in Nat /\ Len(f[2]) \in Nat
    BY <1>1, SMTT(60)
<1>3. ASSUME NEW s \in Seq(Nat)
      PROVE  Len(s) \in Nat /\ Total([f EXCEPT ![c] = s]) = Total(f) + Len(s) - Len(f[c])
  <2>1. Len(s) \in Nat
      BY SMTT(60)
  <2>2. CASE c = 1
      BY <1>2, <2>1, <2>2, SMTT(60) DEF W!Channels, Total
  <2>3. CASE c = 2
      BY <1>2, <2>1, <2>3, SMTT(60) DEF W!Channels, Total
  <2>4. c = 1 \/ c = 2
      BY DEF W!Channels
  <2> QED BY <2>2, <2>3, <2>4
<1>4. Total(f) \in Nat /\ Len(f[c]) \in Nat /\ Len(f[c]) <= Total(f)
    BY <1>2, SMTT(60) DEF W!Channels, Total
<1> QED BY <1>3, <1>4

LEMMA WriterAt ==
    ASSUME NEW f \in [Writers -> Writer], NEW w \in Writers, NEW a \in {"wait", "check"},
           NEW g, g = [f EXCEPT ![w].at = a]
    PROVE  /\ g \in [Writers -> Writer]
           /\ g[w].at = a /\ g[w].msg = f[w].msg
           /\ \A v \in Writers : v # w => g[v] = f[v]
<1>1. f[w] \in Writer
    OBVIOUS
<1>2. [f[w] EXCEPT !.at = a] \in Writer
    BY <1>1 DEF Writer
<1>3. g = [f EXCEPT ![w] = [f[w] EXCEPT !.at = a]]
    OBVIOUS
<1>4. g[w] = [f[w] EXCEPT !.at = a]
    BY <1>3
<1> QED BY <1>1, <1>2, <1>3, <1>4 DEF Writer

\* A message is sent: one more under way, and one more wait.
LEMMA WaitSend == ASSUME Counts, WaitInv, NEW w \in Writers, W!Send(w) PROVE WaitInv'
<1>1. PICK c \in W!Channels :
          /\ writer[w].at = "send" /\ writer[w].msg \in Nat
          /\ requests' = [requests EXCEPT ![c] = Append(@, writer[w].msg)]
          /\ writer' = [writer EXCEPT ![w].at = "wait"]
          /\ UNCHANGED <<completion, last, replies, interrupted, crossed>>
  <2>1. writer[w].msg \in Nat
      BY DEF WaitInv, WaitTypes, Writer
  <2> QED BY <2>1, ChannelRange DEF W!Send
<1>2. WaitTypes'
  <2>1. Append(requests[c], writer[w].msg) \in Seq(Nat)
      BY <1>1, SMTT(60) DEF WaitInv, WaitTypes, Writer
  <2>2. requests' \in [W!Channels -> Seq(Nat)]
      BY <1>1, <2>1 DEF WaitInv, WaitTypes, Writer
  <2>3. writer' \in [Writers -> Writer]
      BY <1>1, WriterAt DEF WaitInv, WaitTypes
  <2> QED BY <1>1, <2>2, <2>3 DEF WaitInv, WaitTypes
<1>3. W!Cardinality(Waiting') = W!Cardinality(Waiting) + 1
  <2>1. Waiting' = Waiting \cup {w} /\ w \notin Waiting
      BY <1>1 DEF WaitInv, WaitTypes, Writer, Waiting
  <2> QED BY <2>1, WaitingCount DEF Counts
<1>4. W!UnderWay' = W!UnderWay + 1
  <2>1. /\ Append(requests[c], writer[w].msg) \in Seq(Nat)
        /\ Len(Append(requests[c], writer[w].msg)) = Len(requests[c]) + 1
      BY <1>1, SMTT(60) DEF WaitInv, WaitTypes
  <2>2. /\ requests' = [requests EXCEPT ![c] = Append(requests[c], writer[w].msg)]
        /\ replies' = replies
        /\ requests \in [W!Channels -> Seq(Nat)] /\ replies \in [W!Channels -> Seq(Nat)]
      BY <1>1 DEF WaitInv, WaitTypes
  <2>3. Total(requests') = Total(requests) + Len(Append(requests[c], writer[w].msg)) - Len(requests[c])
      BY <2>1, <2>2, TotalFacts
  <2>4. Total(requests) \in Nat /\ Total(replies) \in Nat /\ Len(requests[c]) \in Nat
      BY <2>2, TotalFacts
  <2>5. /\ W!UnderWay = Total(requests) + Total(replies)
        /\ W!UnderWay' = Total(requests') + Total(replies)
      BY <1>2, <2>2, UnderWayTotal, UnderWayTotalNext DEF WaitInv
  <2> QED BY <2>1, <2>3, <2>4, <2>5, SMTT(60)
<1>5. Balance /\ W!UnderWay \in Nat /\ completion \in Nat /\ interrupted \in Nat
    BY BalanceSame, SMTT(60) DEF WaitInv, WaitTypes, Writer, W!UnderWay, W!Channels
<1>6. Balance'
    BY <1>1, <1>3, <1>4, <1>5, WaitingCount, SMTT(60) DEF Balance
<1>7. OneAtWork'
  <2>1. W!Working' = W!Working
      BY <1>1 DEF WaitInv, WaitTypes, Writer, W!Working
  <2> QED BY <1>1, <2>1 DEF WaitInv, OneAtWork
<1>8. OwnReply'
  <2> SUFFICES ASSUME interrupted = 0, ~crossed PROVE OwnReply'
      BY <1>1 DEF OwnReply
  <2>1. \A v \in Writers : v # w => writer[v].at = "idle"
    <3>1. w \in W!Working
        BY <1>1 DEF W!Working
    <3> QED BY <3>1 DEF WaitInv, OneAtWork, W!Working
  <2>2. Waiting = {}
      BY <1>1, <2>1 DEF Waiting
  <2>3. completion = 0 /\ W!UnderWay = 0
    <3>1. W!Cardinality(Waiting) = 0
        BY <2>2, WaitingCount
    <3> QED BY <1>5, <3>1, SMTT(60) DEF Balance
  <2>4. \A d \in W!Channels : Len(requests[d]) = 0 /\ Len(replies[d]) = 0
      BY <2>3, SMTT(60) DEF WaitInv, WaitTypes, Writer, W!UnderWay, W!Channels
  <2>5. \A d \in W!Channels :
            AllAre(requests'[d], writer[w].msg) /\ AllAre(replies'[d], writer[w].msg)
      BY <1>1, <2>4, SMTT(60) DEF WaitInv, WaitTypes, Writer, AllAre
  <2>6. /\ writer'[w].at = "wait" /\ writer'[w].msg = writer[w].msg
        /\ \A v \in Writers : v # w => writer'[v].at = "idle"
      BY <1>1, <2>1 DEF WaitInv, WaitTypes, Writer
  <2>7. completion' = 0
      BY <1>1, <2>3
  <2> QED BY <2>5, <2>6, <2>7, SMTT(60) DEF OwnReply, AllAre
<1> QED BY <1>2, <1>6, <1>7, <1>8, BalanceSame DEF WaitInv

\* A wait ends, by the completion or by a signal: each takes one from both
\* sides of the balance.
LEMMA WaitEnds ==
    ASSUME Counts, WaitInv, NEW w \in Writers, W!Wake(w) \/ W!Interrupt(w)
    PROVE  WaitInv'
<1>1. /\ writer[w].at = "wait"
      /\ UNCHANGED <<last, requests, replies, crossed>>
      /\ \/ /\ completion > 0 /\ completion' = completion - 1 /\ interrupted' = interrupted
            /\ writer' = [writer EXCEPT ![w].at = "check"]
         \/ /\ interrupted' = interrupted + 1 /\ completion' = completion
            /\ writer' = [writer EXCEPT ![w] = W!Resting]
    BY DEF W!Wake, W!Interrupt, W!Leave
<1>2. WaitTypes'
  <2>1. writer' \in [Writers -> Writer]
    <3>1. W!Resting \in Writer
        BY DEF W!Resting, Writer
    <3>2. CASE writer' = [writer EXCEPT ![w].at = "check"]
      <4>1. writer \in [Writers -> Writer] /\ writer[w] \in Writer
          BY DEF WaitInv, WaitTypes
      <4>2. [writer[w] EXCEPT !.at = "check"] \in Writer
          BY <4>1 DEF Writer
      <4>3. writer' = [writer EXCEPT ![w] = [writer[w] EXCEPT !.at = "check"]]
          BY <3>2
      <4> QED BY <4>1, <4>2, <4>3
    <3>3. CASE writer' = [writer EXCEPT ![w] = W!Resting]
        BY <3>1, <3>3 DEF WaitInv, WaitTypes
    <3> QED BY <1>1, <3>2, <3>3
  <2>2. completion' \in Nat /\ interrupted' \in Nat
      BY <1>1, SMTT(60) DEF WaitInv, WaitTypes, Writer
  <2> QED BY <1>1, <2>1, <2>2 DEF WaitInv, WaitTypes
<1>3. W!Cardinality(Waiting') = W!Cardinality(Waiting) - 1
  <2>1. Waiting' = Waiting \ {w} /\ w \in Waiting
      BY <1>1, SMTT(60) DEF WaitInv, WaitTypes, Writer, Waiting, W!Resting
  <2> QED BY <2>1, WaitingCount DEF Counts
<1>4. W!UnderWay' = W!UnderWay
    BY <1>1 DEF W!UnderWay
<1>5. Balance /\ W!UnderWay \in Nat /\ completion \in Nat /\ interrupted \in Nat
    BY BalanceSame, SMTT(60) DEF WaitInv, WaitTypes, Writer, W!UnderWay, W!Channels
<1>6. Balance'
    BY <1>1, <1>3, <1>4, <1>5, WaitingCount, SMTT(60) DEF Balance
<1>7. OneAtWork'
  <2>1. \A v \in Writers : v # w => writer'[v] = writer[v]
      BY <1>1 DEF WaitInv, WaitTypes, Writer
  <2>2. W!Working' \subseteq W!Working
      BY <1>1, <2>1 DEF W!Working
  <2> QED BY <1>1, <2>2 DEF WaitInv, OneAtWork
<1>8. OwnReply'
  <2> SUFFICES ASSUME interrupted' = 0, ~crossed PROVE OwnReply'
      BY <1>1 DEF OwnReply
  <2>1. /\ interrupted = 0 /\ completion > 0
        /\ writer' = [writer EXCEPT ![w].at = "check"]
      BY <1>1, <1>5, SMTT(60)
  <2>2. last = writer[w].msg
      BY <1>1, <2>1 DEF WaitInv, OwnReply
  <2>3. \A v \in Writers : v # w => writer[v].at = "idle"
    <3>1. w \in W!Working
        BY <1>1 DEF W!Working
    <3> QED BY <3>1 DEF WaitInv, OneAtWork, W!Working
  <2>4. /\ writer'[w].at = "check" /\ writer'[w].msg = writer[w].msg
        /\ \A v \in Writers : v # w => writer'[v].at = "idle"
      BY <2>1, <2>3 DEF WaitInv, WaitTypes, Writer
  <2> QED BY <1>1, <2>2, <2>4 DEF OwnReply
<1> QED BY <1>2, <1>6, <1>7, <1>8, BalanceSame DEF WaitInv

\* The remote side and the callback move a message on.
LEMMA WaitMoves ==
    ASSUME Counts, WaitInv, NEW c \in W!Channels, W!Echo(c) \/ W!data_chan_rx_cb(c)
    PROVE  WaitInv'
<1>1. /\ UNCHANGED <<writer, interrupted, crossed>>
      /\ requests \in [W!Channels -> Seq(Nat)] /\ replies \in [W!Channels -> Seq(Nat)]
      /\ requests[c] \in Seq(Nat) /\ replies[c] \in Seq(Nat)
      /\ completion \in Nat /\ interrupted \in Nat
    BY DEF W!Echo, W!data_chan_rx_cb, WaitInv, WaitTypes
<1>2. PICK p \in Seq(Nat), q \in Seq(Nat) :
          /\ requests' = [requests EXCEPT ![c] = p]
          /\ replies' = [replies EXCEPT ![c] = q]
          /\ completion' \in Nat /\ Len(requests[c]) + Len(replies[c]) > 0
          /\ completion' + Len(p) + Len(q) = completion + Len(requests[c]) + Len(replies[c])
          /\ \A n : AllAre(requests[c], n) /\ AllAre(replies[c], n)
                        => AllAre(p, n) /\ AllAre(q, n)
          /\ \/ completion' = completion /\ last' = last
             \/ \A n : AllAre(replies[c], n) => last' = n
  <2>1. CASE W!Echo(c)
    <3>1. /\ requests[c] # <<>>
          /\ requests' = [requests EXCEPT ![c] = Tail(requests[c])]
          /\ replies' = [replies EXCEPT ![c] = Append(replies[c], Head(requests[c]))]
          /\ completion' = completion /\ last' = last
        BY <2>1 DEF W!Echo
    <3>2. /\ Tail(requests[c]) \in Seq(Nat) /\ Append(replies[c], Head(requests[c])) \in Seq(Nat)
          /\ completion' + Len(Tail(requests[c])) + Len(Append(replies[c], Head(requests[c]))) =
                 completion + Len(requests[c]) + Len(replies[c])
          /\ Len(requests[c]) + Len(replies[c]) > 0
        BY <1>1, <3>1, SMTT(60)
    <3>3. ASSUME NEW n, AllAre(requests[c], n), AllAre(replies[c], n)
          PROVE  AllAre(Tail(requests[c]), n) /\ AllAre(Append(replies[c], Head(requests[c])), n)
        BY <1>1, <3>1, <3>3, SMTT(60) DEF AllAre
    <3> QED BY <1>1, <3>1, <3>2, <3>3
  <2>2. CASE W!data_chan_rx_cb(c)
    <3>1. /\ replies[c] # <<>>
          /\ requests' = requests
          /\ replies' = [replies EXCEPT ![c] = Tail(replies[c])]
          /\ completion' = completion + 1 /\ last' = Head(replies[c])
        BY <2>2 DEF W!data_chan_rx_cb
    <3>2. requests' = [requests EXCEPT ![c] = requests[c]]
        BY <1>1, <3>1
    <3>3. /\ Tail(replies[c]) \in Seq(Nat) /\ completion' \in Nat
          /\ completion' + Len(requests[c]) + Len(Tail(replies[c])) =
                 completion + Len(requests[c]) + Len(replies[c])
          /\ Len(requests[c]) + Len(replies[c]) > 0
        BY <1>1, <3>1, SMTT(60)
    <3>4. ASSUME NEW n, AllAre(replies[c], n)
          PROVE  AllAre(Tail(replies[c]), n) /\ last' = n
        BY <1>1, <3>1, <3>4, SMTT(60) DEF AllAre
    <3> QED BY <1>1, <3>1, <3>2, <3>3, <3>4
  <2> QED BY <2>1, <2>2
<1>3. WaitTypes'
  <2>1. requests' \in [W!Channels -> Seq(Nat)] /\ replies' \in [W!Channels -> Seq(Nat)]
      BY <1>1, <1>2
  <2> QED BY <1>1, <1>2, <2>1 DEF WaitInv, WaitTypes
<1>4. Balance'
  <2>1. Balance
      BY BalanceSame DEF WaitInv
  <2>2. Total(requests') = Total(requests) + Len(p) - Len(requests[c])
      BY <1>1, <1>2, TotalFacts
  <2>3. Total(replies') = Total(replies) + Len(q) - Len(replies[c])
      BY <1>1, <1>2, TotalFacts
  <2>4. completion' + W!UnderWay' = completion + W!UnderWay
    <3>1. /\ W!UnderWay = Total(requests) + Total(replies)
          /\ W!UnderWay' = Total(requests') + Total(replies')
        BY <1>3, UnderWayTotal, UnderWayTotalNext DEF WaitInv
    <3>2. /\ completion' \in Nat
          /\ completion' + Len(p) + Len(q) = completion + Len(requests[c]) + Len(replies[c])
        BY <1>2
    <3>3. /\ Total(requests) \in Nat /\ Total(replies) \in Nat
          /\ Len(requests[c]) \in Nat /\ Len(replies[c]) \in Nat
          /\ Len(p) \in Nat /\ Len(q) \in Nat
        BY <1>1, TotalFacts
    <3>4. PICK a \in Nat, b \in Nat, x \in Nat, y \in Nat, u \in Nat, v \in Nat :
              /\ a = Total(requests) /\ b = Total(replies)
              /\ x = Len(requests[c]) /\ y = Len(replies[c]) /\ u = Len(p) /\ v = Len(q)
        BY <3>3
    <3>5. /\ completion' + u + v = completion + x + y
          /\ W!UnderWay = a + b
          /\ W!UnderWay' = (a + u - x) + (b + v - y)
        BY <2>2, <2>3, <3>1, <3>2, <3>4
    <3>6. completion \in Nat /\ completion' \in Nat
        BY <1>1, <3>2
    <3>7. ASSUME NEW k \in Nat, NEW m \in Nat, m + u + v = k + x + y
          PROVE  m + ((a + u - x) + (b + v - y)) = k + (a + b)
        BY <3>7, SMTT(60)
    <3> QED BY <3>5, <3>6, <3>7
  <2>5. Waiting' = Waiting
      BY <1>1 DEF Waiting
  <2> QED BY <1>1, <2>1, <2>4, <2>5 DEF Balance
<1>5. OneAtWork'
    BY <1>1 DEF WaitInv, OneAtWork, W!Working
<1>6. OwnReply'
  <2> SUFFICES ASSUME interrupted = 0, ~crossed, NEW w \in Writers
               PROVE  /\ writer[w].at = "check" => last' = writer[w].msg
                      /\ writer[w].at = "wait" =>
                            /\ completion' > 0 => last' = writer[w].msg
                            /\ \A d \in W!Channels :
                                  /\ AllAre(requests'[d], writer[w].msg)
                                  /\ AllAre(replies'[d], writer[w].msg)
      BY <1>1 DEF OwnReply, AllAre
  <2>1. writer[w].at # "check"
    <3> SUFFICES ASSUME writer[w].at = "check" PROVE FALSE
        OBVIOUS
    <3>1. Waiting = {}
      <4>1. w \in W!Working
          BY DEF W!Working
      <4> QED BY <4>1 DEF WaitInv, OneAtWork, W!Working, Waiting
    <3>2. W!Cardinality(Waiting) = 0
        BY <3>1, WaitingCount
    <3>3. completion + W!UnderWay = 0
        BY <1>1, <3>2, BalanceSame, SMTT(60) DEF WaitInv, Balance
    <3>4. Len(requests[c]) + Len(replies[c]) = 0
      <4>1. /\ Total(requests) \in Nat /\ Total(replies) \in Nat
            /\ Len(requests[c]) \in Nat /\ Len(replies[c]) \in Nat
            /\ Len(requests[c]) <= Total(requests) /\ Len(replies[c]) <= Total(replies)
          BY <1>1, TotalFacts
      <4> QED BY <1>1, <3>3, <4>1, UnderWayTotal, SMTT(60) DEF WaitInv
    <3>5. Len(requests[c]) + Len(replies[c]) > 0
        BY <1>2
    <3>6. ~(0 > 0)
        BY SMTT(60)
    <3> QED BY <3>4, <3>5, <3>6
  <2>2. CASE writer[w].at = "wait"
    <3>1. /\ completion > 0 => last = writer[w].msg
          /\ \A d \in W!Channels : /\ AllAre(requests[d], writer[w].msg)
                                   /\ AllAre(replies[d], writer[w].msg)
        BY <2>2 DEF WaitInv, OwnReply
    <3>2. /\ AllAre(p, writer[w].msg) /\ AllAre(q, writer[w].msg)
          /\ completion' > 0 => last' = writer[w].msg
        BY <1>2, <3>1
    <3>3. \A d \in W!Channels : /\ requests'[d] = IF d = c THEN p ELSE requests[d]
                                /\ replies'[d] = IF d = c THEN q ELSE replies[d]
        BY <1>1, <1>2
    <3> QED BY <2>1, <3>1, <3>2, <3>3
  <2> QED BY <2>1, <2>2
<1> QED BY <1>3, <1>4, <1>5, <1>6, BalanceSame DEF WaitInv

LEMMA WaitNext == Counts /\ WaitInv /\ [Next]_vars => WaitInv'
<1> SUFFICES ASSUME Counts, WaitInv, [Next]_vars PROVE WaitInv'
    OBVIOUS
<1>1. CASE UNCHANGED wait
    BY <1>1, WaitLoad
<1>2. CASE W!sample_mod_init \/ W!sample_mod_exit
    BY <1>2, WaitLoad, WaitUnload
<1>3. CASE \E w \in Writers : W!Write(w)
  <2>1. PICK w \in Writers, num \in 1..WaitMsgs : W!ipc_sysfs_store(w, num)
      BY <1>3 DEF W!Write
  <2>2. num \in Nat
      BY SMTT(60)
  <2> QED BY <2>1, <2>2, WaitStore
<1>4. CASE \E w \in Writers : W!SendNoBuffer(w) \/ W!SendFails(w) \/ W!Check(w)
    BY <1>4, WaitGoOn
<1>5. CASE \E w \in Writers : W!Send(w) \/ W!Wake(w) \/ W!Interrupt(w)
    BY <1>5, WaitSend, WaitEnds
<1>6. CASE \E c \in W!Channels : W!Echo(c) \/ W!data_chan_rx_cb(c)
    BY <1>6, WaitMoves
<1> QED BY <1>1, <1>2, <1>3, <1>4, <1>5, <1>6
        DEF Next, vars, OfWait, OfUser, OfXen

-----------------------------------------------------------------------------
(* The user-space sample *)

\* What is under way between the sample and a remote side.
Link == [req : Nat, rep : Nat, due : Nat, ctrl : BOOLEAN]

\* Where main is: at its questions, or in run_demo and what it calls.
Prompting == {"inst", "count", "start"}
InDemo == {"announce", "send", "wait", "last", "poll", "drain"}
Main == [at : Prompting \cup InDemo \cup {"exit"}, num : Nat, inst : Instances, msg : Nat]

UserTypes ==
    /\ app \in [num : Nat, inst : Instances]
    /\ main \in Main
    /\ sema \in Nat
    /\ link \in [Instances -> Link]
    /\ answered \in [Polled -> BOOLEAN]
    /\ behind \in [Polled -> Int]

\* Nothing is under way on instance i.
QuietOn(i) == link[i] = U!Quiet /\ (i \in Polled => behind[i] = 0)

\* A flag as a number.
One(b) == IF b THEN 1 ELSE 0

\* The ledger of a demo with interrupts: n messages of which m are sent, the link
\* l of the instance, and the posts p that were not taken.  What is under way or
\* posted is the echo of the last message, and after it the answer.
Echoing(at, n, m, l, p) ==
    /\ at = "send" =>
          /\ m < n /\ p = 0
          /\ l.req = 0 /\ l.rep = 0 /\ l.due = n - m /\ One(l.ctrl) = 0
    /\ at = "wait" =>
          /\ 1 <= m /\ m <= n
          /\ l.due = n - m + l.req
          /\ One(l.ctrl) = 1 => l.due = 0
          /\ p + l.req + l.rep + One(l.ctrl) = IF l.due = 0 THEN 2 ELSE 1
    /\ at = "last" =>
          /\ l.req = 0 /\ l.due = 0
          /\ p + l.rep + One(l.ctrl) = 1
    /\ at \notin {"poll", "drain"}

\* The ledger of a demo that polls: also whether the answer has come, and how
\* many echoes b have not.
Counting(at, n, m, l, p, a, b) ==
    /\ at \in {"send", "poll"} =>
          /\ IF at = "send" THEN m < n ELSE m = n
          /\ b = l.req + l.rep /\ b <= m
          /\ l.due = n - m + l.req
          /\ One(l.ctrl) + One(a) = IF l.due = 0 THEN 1 ELSE 0
          /\ p = m - b + One(a)
    /\ at = "drain" =>
          /\ p = m + 1 /\ b = 0
          /\ l.req = 0 /\ l.rep = 0 /\ l.due = 0 /\ One(l.ctrl) = 0
    /\ at \notin {"wait", "last"}

\* The account of the demo under way, whichever kind of instance it is for.
Ledger ==
    LET i == main.inst
    IN  /\ i \in Polled =>
              Counting(main.at, main.num, main.msg, link[i], sema, answered[i], behind[i])
        /\ i \notin Polled =>
              Echoing(main.at, main.num, main.msg, link[i], sema)

\* A demo is under way, and no signal came since it was called.
Undisturbed == main.at \in InDemo /\ app.num # 0

\* At the questions nothing is left; in a demo that no signal has disturbed only
\* its own instance is busy, and its account is right.
UserInv ==
    /\ UserTypes
    /\ main.at \in Prompting => sema = 0 /\ \A i \in Instances : QuietOn(i)
    /\ Undisturbed =>
          /\ main.num = app.num /\ main.inst = app.inst
          /\ \A i \in Instances \ {main.inst} : QuietOn(i)
          /\ main.at = "announce" => main.msg = 0 /\ sema = 0 /\ QuietOn(main.inst)
          /\ main.at # "announce" => Ledger

LEMMA Flags == One(TRUE) = 1 /\ One(FALSE) = 0 /\ \A b \in BOOLEAN : One(b) \in {0, 1}
BY DEF One

LEMMA UserConstants == 0 \in Instances /\ Polled \subseteq Instances
BY MCSamplesAssumption DEF U!SampleUserAssumption

\* g is f but for the link of instance i, which has these fields.
LinkIs(g, f, i, req, rep, due, answer) ==
    /\ g \in [Instances -> Link]
    /\ g[i].req = req /\ g[i].rep = rep /\ g[i].due = due /\ One(g[i].ctrl) = answer
    /\ \A j \in Instances : j # i => g[j] = f[j]

\* What changing one field of a link makes of the links.
LEMMA PutDue ==
    ASSUME NEW f \in [Instances -> Link], NEW i \in Instances, NEW n \in Nat
    PROVE  LinkIs([f EXCEPT ![i].due = n], f, i, f[i].req, f[i].rep, n, One(f[i].ctrl))
<1>1. f[i] \in Link
    OBVIOUS
<1>2. [f[i] EXCEPT !.due = n] \in Link
    BY <1>1 DEF Link
<1> QED BY <1>1, <1>2 DEF Link, LinkIs

LEMMA PutReq ==
    ASSUME NEW f \in [Instances -> Link], NEW i \in Instances, NEW n \in Nat
    PROVE  LinkIs([f EXCEPT ![i].req = n], f, i, n, f[i].rep, f[i].due, One(f[i].ctrl))
<1>1. f[i] \in Link
    OBVIOUS
<1>2. [f[i] EXCEPT !.req = n] \in Link
    BY <1>1 DEF Link
<1> QED BY <1>1, <1>2 DEF Link, LinkIs

LEMMA PutRep ==
    ASSUME NEW f \in [Instances -> Link], NEW i \in Instances, NEW n \in Nat
    PROVE  LinkIs([f EXCEPT ![i].rep = n], f, i, f[i].req, n, f[i].due, One(f[i].ctrl))
<1>1. f[i] \in Link
    OBVIOUS
<1>2. [f[i] EXCEPT !.rep = n] \in Link
    BY <1>1 DEF Link
<1> QED BY <1>1, <1>2 DEF Link, LinkIs

LEMMA PutCtrl ==
    ASSUME NEW f \in [Instances -> Link], NEW i \in Instances
    PROVE  LinkIs([f EXCEPT ![i].ctrl = FALSE], f, i, f[i].req, f[i].rep, f[i].due, 0)
<1>1. f[i] \in Link
    OBVIOUS
<1>2. [f[i] EXCEPT !.ctrl = FALSE] \in Link
    BY <1>1 DEF Link
<1> QED BY <1>1, <1>2, Flags DEF Link, LinkIs

LEMMA UserInit == U!Init => UserInv
<1> SUFFICES ASSUME U!Init PROVE UserInv
    OBVIOUS
<1>1. /\ app = [num |-> 1, inst |-> 0]
      /\ main = [at |-> "inst", num |-> 0, inst |-> 0, msg |-> 0]
      /\ sema = 0
      /\ link = [i \in Instances |-> U!Quiet]
      /\ answered = [i \in Polled |-> FALSE]
      /\ behind = [i \in Polled |-> 0]
    BY DEF U!Init
<1>2. app \in [num : Nat, inst : Instances] /\ main \in Main /\ main.at = "inst" /\ sema \in Nat
    BY <1>1, UserConstants DEF Main, Prompting
<1>3. link \in [Instances -> Link] /\ answered \in [Polled -> BOOLEAN]
  <2>1. 0 \in Nat
      OBVIOUS
  <2>2. U!Quiet \in Link
      BY <2>1 DEF U!Quiet, Link
  <2> QED BY <1>1, <2>2
<1>4. behind \in [Polled -> Int]
    BY <1>1, SMTT(60)
<1>5. \A i \in Instances : QuietOn(i)
    BY <1>1 DEF QuietOn
<1>6. ~Undisturbed
    BY <1>2 DEF Undisturbed, InDemo
<1> QED BY <1>1, <1>2, <1>3, <1>4, <1>5, <1>6 DEF UserInv, UserTypes

\* A step to a place that is no prompt, with num_msgs set to 0 or on the way out.
LEMMA UserAside ==
    ASSUME UserTypes', main'.at \notin Prompting, app'.num = 0 \/ main'.at = "exit"
    PROVE  UserInv'
<1>1. ~Undisturbed'
    BY DEF Undisturbed, InDemo
<1> QED BY <1>1 DEF UserInv

LEMMA UserIdle == UserInv /\ UNCHANGED user => UserInv'
<1> SUFFICES ASSUME UserInv, UNCHANGED user PROVE UserInv'
    OBVIOUS
<1>1. /\ app' = app /\ main' = main /\ sema' = sema /\ link' = link
      /\ answered' = answered /\ behind' = behind
    BY DEF user
<1> QED BY <1>1 DEF UserInv, UserTypes, QuietOn, Undisturbed, Ledger

\* A step that stays at the prompts.
LEMMA UserPrompting ==
    ASSUME UserInv, main.at \in Prompting, app' \in [num : Nat, inst : Instances],
           main' \in Main, main'.at \in Prompting \cup {"exit"},
           sema' = sema, link' = link, answered' = answered, behind' = behind
    PROVE  UserInv'
<1>1. UserTypes'
    BY DEF UserInv, UserTypes
<1>2. sema' = 0 /\ \A i \in Instances : QuietOn(i)'
    BY DEF UserInv, QuietOn
<1>3. ~Undisturbed'
    BY DEF Undisturbed, InDemo, Prompting
<1> QED BY <1>1, <1>2, <1>3 DEF UserInv

\* The questions of main, and the call of the demo after the last one.
LEMMA UserScan ==
    ASSUME UserInv,
           (\E i \in Instances : U!ScanInstance(i)) \/ (\E n \in 0..UserMsgs : U!ScanCount(n))
    PROVE  UserInv'
<1>1. /\ sema' = sema /\ link' = link /\ answered' = answered /\ behind' = behind
      /\ main.at \in {"inst", "count"}
    BY DEF U!ScanInstance, U!ScanCount
<1>2. app \in [num : Nat, inst : Instances] /\ main \in Main
    BY DEF UserInv, UserTypes
<1>3. app' \in [num : Nat, inst : Instances]
    BY <1>2, SMTT(60) DEF U!ScanInstance, U!ScanCount
<1>4. \E a \in {"count", "exit", "start"} : main' = [main EXCEPT !.at = a]
    BY DEF U!ScanInstance, U!ScanCount, U!Goto
<1>5. main' \in Main /\ main'.at \in Prompting \cup {"exit"}
    BY <1>2, <1>4 DEF Main, Prompting
<1>6. main.at \in Prompting
    BY <1>1 DEF Prompting
<1> QED BY <1>1, <1>3, <1>5, <1>6, UserPrompting

LEMMA UserCall == UserInv /\ U!CallDemo => UserInv'
<1> SUFFICES ASSUME UserInv, U!CallDemo PROVE UserInv'
    OBVIOUS
<1>1. /\ sema' = sema /\ link' = link /\ answered' = answered /\ behind' = behind
      /\ app' = app /\ main.at = "start"
      /\ main' = [at |-> "announce", num |-> app.num, inst |-> app.inst, msg |-> 0]
    BY DEF U!CallDemo
<1>2. /\ main' \in Main /\ main'.at = "announce" /\ main'.num = app.num
      /\ main'.inst = app.inst /\ main'.inst \in Instances /\ main'.msg = 0
    BY <1>1 DEF UserInv, UserTypes, Main, InDemo
<1>3. UserTypes'
    BY <1>1, <1>2 DEF UserInv, UserTypes
<1>4. main.at \in Prompting /\ main'.at \notin Prompting
    BY <1>1, <1>2 DEF Prompting
<1>5. sema' = 0 /\ \A i \in Instances : QuietOn(i)'
    BY <1>1, <1>4 DEF UserInv, QuietOn
<1> QED BY <1>1, <1>2, <1>3, <1>4, <1>5 DEF UserInv

\* The loop of main, or a wait that a signal ends.
LEMMA AfterWaitPlaces ==
    ASSUME UserTypes, NEW num, U!AfterWait(num)
    PROVE  /\ main' \in Main
           /\ main'.at \in InDemo \cup {"inst", "exit"}
           /\ num = 0 => main'.at # "inst"
<1>1. CASE main.at = "wait"
  <2>1. PICK a \in {"last", "send"} : main' = [main EXCEPT !.at = a]
      BY <1>1 DEF U!AfterWait, U!Goto
  <2> QED BY <2>1 DEF UserTypes, Main, InDemo
<1>2. CASE main.at = "last"
  <2>1. main' = [main EXCEPT !.at = IF num = 0 THEN "exit" ELSE "inst"]
      BY <1>2 DEF U!AfterWait, U!AfterDemo, U!Goto
  <2> QED BY <2>1 DEF UserTypes, Main, InDemo, Prompting
<1>3. CASE main.at = "drain" /\ main.msg = 0
  <2>1. main' = [main EXCEPT !.at = IF num = 0 THEN "exit" ELSE "inst"]
      BY <1>3 DEF U!AfterWait, U!AfterDemo, U!Goto
  <2> QED BY <2>1 DEF UserTypes, Main, InDemo, Prompting
<1>4. CASE main.at = "drain" /\ main.msg # 0
  <2>1. main' = [main EXCEPT !.msg = main.msg - 1]
      BY <1>4 DEF U!AfterWait
  <2> QED BY <1>4, <2>1, SMTT(60) DEF UserTypes, Main, InDemo
<1> QED BY <1>1, <1>2, <1>3, <1>4 DEF U!AfterWait

\* After a signal the demo under way is no longer accounted for: app.num is 0.
LEMMA UserSignal ==
    ASSUME UserInv, U!SignalBeside \/ U!SignalWait \/ U!SignalScan
    PROVE  UserInv'
<1>1. /\ app' = [num |-> 0, inst |-> 0]
      /\ sema' = sema /\ link' = link /\ answered' = answered /\ behind' = behind
    BY DEF U!SignalBeside, U!SignalWait, U!SignalScan, U!int_handler
<1>2. app' \in [num : Nat, inst : Instances] /\ app'.num = 0
    BY <1>1, UserConstants
<1>3. ASSUME main' \in Main PROVE UserTypes'
    BY <1>1, <1>2, <1>3 DEF UserInv, UserTypes
<1>4. CASE U!SignalBeside
  <2>1. main' = main /\ main \in Main
      BY <1>4 DEF U!SignalBeside, UserInv, UserTypes
  <2>2. CASE main.at \in Prompting
      BY <1>1, <1>2, <2>1, <2>2, UserPrompting
  <2> QED BY <1>2, <1>3, <2>1, <2>2, UserAside
<1>5. CASE U!SignalWait
  <2>1. U!AfterWait(0)
      BY <1>2, <1>5 DEF U!SignalWait
  <2>2. main' \in Main /\ main'.at \in InDemo \cup {"inst", "exit"} /\ main'.at # "inst"
      BY <2>1, AfterWaitPlaces DEF UserInv
  <2>3. main'.at \notin Prompting
      BY <2>2 DEF InDemo, Prompting
  <2> QED BY <1>2, <1>3, <2>2, <2>3, UserAside
<1>6. CASE U!SignalScan
  <2>1. PICK a \in {"count", "exit"} : main' = [main EXCEPT !.at = a]
      BY <1>6 DEF U!SignalScan, U!Goto
  <2>2. main' \in Main /\ main'.at \in Prompting \cup {"exit"}
      BY <2>1 DEF UserInv, UserTypes, Main, Prompting
  <2>3. main.at \in Prompting
      BY <1>6 DEF U!SignalScan, Prompting
  <2> QED BY <1>1, <1>2, <2>2, <2>3, UserPrompting
<1> QED BY <1>4, <1>5, <1>6

\* What the invariant says of a link that is quiet.
LEMMA QuietFields ==
    ASSUME UserTypes, NEW i \in Instances
    PROVE  /\ link[i] \in Link /\ One(link[i].ctrl) \in {0, 1}
           /\ link[i] = U!Quiet <=>
                 link[i].req = 0 /\ link[i].rep = 0 /\ link[i].due = 0 /\ One(link[i].ctrl) = 0
<1>1. link[i] \in Link
    BY DEF UserTypes
<1>2. One(link[i].ctrl) \in {0, 1} /\ (One(link[i].ctrl) = 0 <=> link[i].ctrl = FALSE)
  <2>1. link[i].ctrl \in BOOLEAN
      BY <1>1 DEF Link
  <2>2. 0 # 1
      BY SMTT(60)
  <2> QED BY <2>1, <2>2, Flags
<1>3. link[i] = U!Quiet <=>
          link[i].req = 0 /\ link[i].rep = 0 /\ link[i].due = 0 /\ link[i].ctrl = FALSE
  <2>1. link[i] = [req |-> link[i].req, rep |-> link[i].rep, due |-> link[i].due,
                   ctrl |-> link[i].ctrl]
      BY <1>1 DEF Link
  <2>2. ASSUME link[i] = U!Quiet
        PROVE  link[i].req = 0 /\ link[i].rep = 0 /\ link[i].due = 0 /\ link[i].ctrl = FALSE
    <3>1. link[i].req = 0 /\ link[i].rep = 0 /\ link[i].due = 0
        BY <2>2, SMTT(60) DEF U!Quiet
    <3>2. link[i].ctrl = FALSE
        BY <2>2, SMTT(60) DEF U!Quiet
    <3> QED BY <3>1, <3>2
  <2>3. ASSUME link[i].req = 0, link[i].rep = 0, link[i].due = 0, link[i].ctrl = FALSE
        PROVE  link[i] = U!Quiet
      BY <2>1, <2>3 DEF U!Quiet
  <2> QED BY <2>2, <2>3
<1> QED BY <1>1, <1>2, <1>3

\* In a demo that no signal disturbs, Target is the instance of the demo.
LEMMA TargetIs ==
    /\ UserTypes => U!Target \in Instances
    /\ UserInv /\ Undisturbed => U!Target = main.inst
<1>1. UserTypes => app.inst \in Instances /\ main.inst \in Instances
    BY DEF UserTypes, Main
<1> QED BY <1>1 DEF U!Target, UserInv

LEMMA UserAnnounce == UserInv /\ U!send_ctrl_msg => UserInv'
<1> SUFFICES ASSUME UserInv, U!send_ctrl_msg PROVE UserInv'
    OBVIOUS
<1>0. UserTypes
    BY DEF UserInv
<1>1. /\ main.at = "announce"
      /\ answered' = [i \in Polled |-> answered[i] /\ i # main.inst]
      /\ app' = app /\ sema' = sema /\ behind' = behind
      /\ \/ main' = [main EXCEPT !.at = "exit"] /\ link' = link
         \/ /\ link' = [link EXCEPT ![U!Target].due = app.num]
            /\ IF main.num = 0 THEN U!AfterDemo(app.num) ELSE U!Goto("send")
    BY DEF U!send_ctrl_msg, U!Goto
<1>a. answered' \in [Polled -> BOOLEAN]
    BY <1>1
<1>x. CASE main' = [main EXCEPT !.at = "exit"] /\ link' = link
  <2>1. main' \in Main /\ main'.at = "exit" /\ main'.at \notin Prompting
      BY <1>0, <1>x DEF UserTypes, Main, Prompting
  <2>2. UserTypes'
      BY <1>0, <1>1, <1>a, <1>x, <2>1 DEF UserTypes
  <2> QED BY <2>1, <2>2, UserAside
<1>y. SUFFICES ASSUME link' = [link EXCEPT ![U!Target].due = app.num],
                      IF main.num = 0 THEN U!AfterDemo(app.num) ELSE U!Goto("send")
               PROVE  UserInv'
    BY <1>1, <1>x
<1>2. PICK t \in Instances : t = U!Target
    BY <1>0, TargetIs
<1>n. app.num \in Nat /\ link \in [Instances -> Link] /\ link' = [link EXCEPT ![t].due = app.num]
    BY <1>0, <1>2, <1>y DEF UserTypes
<1>m. LinkIs(link', link, t, link[t].req, link[t].rep, app.num, One(link[t].ctrl))
    BY <1>n, PutDue
<1>3. /\ link' \in [Instances -> Link]
      /\ link'[t].due = app.num /\ link'[t].req = link[t].req
      /\ link'[t].rep = link[t].rep /\ One(link'[t].ctrl) = One(link[t].ctrl)
      /\ \A j \in Instances : j # t => link'[j] = link[j]
    BY <1>m DEF LinkIs
<1>4. PICK a \in {"exit", "inst", "send"} :
          /\ main' = [main EXCEPT !.at = a]
          /\ app.num = 0 => a # "inst"
          /\ main.num # 0 => a = "send"
    BY <1>y DEF U!AfterDemo, U!Goto
<1>5. /\ main' \in Main /\ main'.at = a /\ main'.num = main.num /\ main'.inst = main.inst
      /\ main'.msg = main.msg
    BY <1>0, <1>4 DEF UserTypes, Main, Prompting, InDemo
<1>7. UserTypes'
    BY <1>0, <1>1, <1>3, <1>5, <1>a DEF UserTypes
<1>8. CASE app.num = 0
  <2>1. main'.at \notin Prompting
      BY <1>4, <1>5, <1>8 DEF Prompting
  <2> QED BY <1>1, <1>7, <1>8, <2>1, UserAside
<1>9. CASE app.num # 0
  <2>1. Undisturbed
      BY <1>1, <1>9 DEF Undisturbed, InDemo
  <2>2. /\ main.num = app.num /\ main.inst = app.inst /\ main.msg = 0 /\ sema = 0
        /\ \A i \in Instances : QuietOn(i)
        /\ t = main.inst
      BY <1>1, <1>2, <2>1, TargetIs DEF UserInv
  <2>3. main'.at = "send"
      BY <1>4, <1>5, <1>9, <2>2
  <2>4. \A i \in Instances \ {main.inst} : QuietOn(i)'
      BY <1>1, <1>3, <2>2 DEF QuietOn
  <2>5. /\ link'[main.inst].req = 0 /\ link'[main.inst].rep = 0
        /\ link'[main.inst].due = main.num /\ One(link'[main.inst].ctrl) = 0
    <3>1. link[main.inst].req = 0 /\ link[main.inst].rep = 0 /\ One(link[main.inst].ctrl) = 0
        BY <1>0, <1>2, <2>2, QuietFields DEF QuietOn
    <3> QED BY <1>3, <2>2, <3>1
  <2>6. Ledger'
    <3>1. main.num \in Nat /\ main.num # 0
        BY <1>0, <1>9, <2>2 DEF UserTypes
    <3>2. ASSUME main.inst \in Polled
          PROVE  One(answered'[main.inst]) = 0 /\ behind'[main.inst] = 0
      <4>1. answered'[main.inst] = FALSE
          BY <1>1, <3>2
      <4>2. behind'[main.inst] = 0
          BY <1>1, <1>2, <2>2, <3>2 DEF QuietOn
      <4> QED BY <4>1, <4>2, Flags
    <3>3. CASE main.inst \in Polled
      <4>1. Counting("send", main.num, 0, link'[main.inst], 0, answered'[main.inst],
                     behind'[main.inst])
          BY <2>5, <3>1, <3>2, <3>3, SMTT(60) DEF Counting
      <4> QED BY <1>1, <1>5, <2>2, <2>3, <3>3, <4>1 DEF Ledger
    <3>4. CASE main.inst \notin Polled
      <4>1. Echoing("send", main.num, 0, link'[main.inst], 0)
          BY <2>5, <3>1, SMTT(60) DEF Echoing
      <4> QED BY <1>1, <1>5, <2>2, <2>3, <3>4, <4>1 DEF Ledger
    <3> QED BY <3>3, <3>4
  <2>7. main'.at \notin Prompting /\ main'.at # "announce"
      BY <2>3 DEF Prompting
  <2> QED BY <1>1, <1>5, <1>7, <2>2, <2>4, <2>6, <2>7 DEF UserInv
<1> QED BY <1>8, <1>9

\* A step of an undisturbed demo that touches its own instance only.
LEMMA UserOwn ==
    ASSUME UserInv, Undisturbed, UserTypes', Ledger', app' = app,
           main'.num = main.num, main'.inst = main.inst,
           main'.at \in InDemo \ {"announce"},
           \A j \in Instances : j # main.inst =>
               link'[j] = link[j] /\ (j \in Polled => behind'[j] = behind[j])
    PROVE  UserInv'
<1>1. main'.at \notin Prompting /\ main'.at # "announce"
    BY DEF InDemo, Prompting
<1>2. /\ main'.num = app'.num /\ main'.inst = app'.inst
      /\ \A i \in Instances \ {main'.inst} : QuietOn(i)'
    BY DEF UserInv, QuietOn
<1> QED BY <1>1, <1>2 DEF UserInv

\* Of a demo, the numbers: main, the link of its instance, the semaphore.
LEMMA UserNumbers ==
    ASSUME UserTypes
    PROVE  /\ main.num \in Nat /\ main.msg \in Nat /\ main.inst \in Instances /\ sema \in Nat
           /\ app.num \in Nat
           /\ \A i \in Instances :
                 /\ link[i].req \in Nat /\ link[i].rep \in Nat /\ link[i].due \in Nat
                 /\ One(link[i].ctrl) \in {0, 1}
           /\ \A i \in Polled : behind[i] \in Int /\ One(answered[i]) \in {0, 1}
<1>1. \A i \in Polled : One(answered[i]) \in {0, 1}
    BY Flags DEF UserTypes
<1>2. \A i \in Instances : One(link[i].ctrl) \in {0, 1}
    BY QuietFields
<1>3. /\ main.num \in Nat /\ main.msg \in Nat /\ main.inst \in Instances /\ sema \in Nat
      /\ app.num \in Nat /\ \A i \in Polled : behind[i] \in Int
    BY DEF UserTypes, Main
<1>4. \A i \in Instances : link[i].req \in Nat /\ link[i].rep \in Nat /\ link[i].due \in Nat
    BY DEF UserTypes, Link
<1> QED BY <1>1, <1>2, <1>3, <1>4

LEMMA UserSendFails == UserInv /\ U!SendFails => UserInv'
<1> SUFFICES ASSUME UserInv, U!SendFails PROVE UserInv'
    OBVIOUS
<1>1. /\ main' = [main EXCEPT !.at = "exit"] /\ app' = app /\ sema' = sema /\ link' = link
      /\ answered' = answered /\ behind' = behind
    BY DEF U!SendFails, U!Goto
<1>2. main' \in Main /\ main'.at = "exit" /\ main'.at \notin Prompting
    BY <1>1 DEF UserInv, UserTypes, Main, Prompting
<1>3. UserTypes'
    BY <1>1, <1>2 DEF UserInv, UserTypes
<1> QED BY <1>2, <1>3, UserAside

\* send_data_msg and send_data_poll.
LEMMA UserSend == UserInv /\ (U!send_data_msg \/ U!send_data_poll) => UserInv'
<1> SUFFICES ASSUME UserInv, U!send_data_msg \/ U!send_data_poll PROVE UserInv'
    OBVIOUS
<1>0. UserTypes
    BY DEF UserInv
<1>1. PICK t \in Instances : t = U!Target
    BY <1>0, TargetIs
<1>2. PICK a \in {"wait", "poll", "send"} :
      /\ main.at = "send" /\ app' = app /\ sema' = sema /\ answered' = answered
      /\ link' = [link EXCEPT ![t].req = link[t].req + 1]
      /\ main' = [main EXCEPT !.msg = main.msg + 1, !.at = a]
      /\ main.inst \in Polled =>
            /\ behind' = [behind EXCEPT ![main.inst] = behind[main.inst] + 1]
            /\ a = IF main.msg + 1 = main.num THEN "poll" ELSE "send"
      /\ main.inst \notin Polled => behind' = behind /\ a = "wait"
  <2>1. CASE U!send_data_msg
      BY <1>1, <2>1 DEF U!send_data_msg, U!Sent
  <2>2. CASE U!send_data_poll
    <3>1. (IF main.msg + 1 = main.num THEN "poll" ELSE "send") \in {"wait", "poll", "send"}
        OBVIOUS
    <3> QED BY <1>1, <2>2, <3>1 DEF U!send_data_poll, U!Sent
  <2> QED BY <2>1, <2>2
<1>3. link \in [Instances -> Link] /\ link[t].req \in Nat /\ link[t].req + 1 \in Nat
    BY <1>0, UserNumbers, SMTT(60) DEF UserTypes
<1>4. LinkIs(link', link, t, link[t].req + 1, link[t].rep, link[t].due, One(link[t].ctrl))
    BY <1>2, <1>3, PutReq
<1>5. /\ link' \in [Instances -> Link]
      /\ link'[t].due = link[t].due /\ link'[t].req = link[t].req + 1
      /\ link'[t].rep = link[t].rep /\ One(link'[t].ctrl) = One(link[t].ctrl)
      /\ \A j \in Instances : j # t => link'[j] = link[j]
    BY <1>4 DEF LinkIs
<1>6. /\ main' \in Main /\ main'.at = a /\ main'.num = main.num /\ main'.inst = main.inst
      /\ main'.msg = main.msg + 1
  <2>1. main \in Main /\ main' = [main EXCEPT !.msg = main.msg + 1, !.at = a]
      BY <1>0, <1>2 DEF UserTypes
  <2>2. main.msg + 1 \in Nat /\ a \in InDemo
      BY <1>0, UserNumbers, SMTT(60) DEF InDemo
  <2> QED BY <2>1, <2>2 DEF Main
<1>7. UserTypes'
  <2>1. behind' \in [Polled -> Int]
      BY <1>0, <1>2, SMTT(60) DEF UserTypes
  <2> QED BY <1>0, <1>2, <1>5, <1>6, <2>1 DEF UserTypes
<1>8. main'.at \in InDemo \ {"announce"} /\ main'.at \notin Prompting
    BY <1>6 DEF InDemo, Prompting
<1>9. CASE app.num = 0
    BY <1>2, <1>7, <1>8, <1>9, UserAside
<1>10. CASE app.num # 0
  <2>1. Undisturbed /\ main.at # "announce"
      BY <1>2, <1>10 DEF Undisturbed, InDemo
  <2>2. Ledger /\ t = main.inst
      BY <1>1, <2>1, TargetIs DEF UserInv
  <2>3. /\ main.num \in Nat /\ main.msg \in Nat /\ sema \in Nat
        /\ link[t].req \in Nat /\ link[t].rep \in Nat /\ link[t].due \in Nat
        /\ One(link[t].ctrl) \in {0, 1}
      BY <1>0, UserNumbers
  <2>4. CASE t \in Polled
    <3>1. Counting("send", main.num, main.msg, link[t], sema, answered[t], behind[t])
        BY <1>2, <2>2, <2>4 DEF Ledger
    <3>2. /\ a = IF main.msg + 1 = main.num THEN "poll" ELSE "send"
          /\ behind'[t] = behind[t] + 1 /\ behind[t] \in Int
          /\ \A j \in Polled : j # t => behind'[j] = behind[j]
        BY <1>0, <1>2, <2>2, <2>4 DEF UserTypes
    <3>3. One(answered[t]) \in {0, 1}
        BY <1>0, <2>4, UserNumbers
    <3>4. Counting(a, main.num, main.msg + 1, link'[t], sema, answered[t], behind'[t])
        BY <1>5, <2>3, <3>1, <3>2, <3>3, SMTT(60) DEF Counting
    <3>5. Ledger'
        BY <1>2, <1>6, <2>2, <2>4, <3>4 DEF Ledger
    <3> QED BY <1>2, <1>5, <1>6, <1>7, <1>8, <2>1, <2>2, <3>2, <3>5, UserOwn
  <2>5. CASE t \notin Polled
    <3>1. Echoing("send", main.num, main.msg, link[t], sema)
        BY <1>2, <2>2, <2>5 DEF Ledger
    <3>2. a = "wait" /\ behind' = behind
        BY <1>2, <2>2, <2>5
    <3>3. Echoing("wait", main.num, main.msg + 1, link'[t], sema)
        BY <1>5, <2>3, <3>1, SMTT(60) DEF Echoing
    <3>4. Ledger'
        BY <1>2, <1>6, <2>2, <2>5, <3>2, <3>3 DEF Ledger
    <3> QED BY <1>2, <1>5, <1>6, <1>7, <1>8, <2>1, <2>2, <3>2, <3>4, UserOwn
  <2> QED BY <2>4, <2>5
<1> QED BY <1>9, <1>10

\* A sem_wait that takes a post.
LEMMA UserWait == UserInv /\ U!Wait => UserInv'
<1> SUFFICES ASSUME UserInv, U!Wait PROVE UserInv'
    OBVIOUS
<1>0. UserTypes
    BY DEF UserInv
<1>1. /\ sema > 0 /\ sema' = sema - 1 /\ U!AfterWait(app.num)
      /\ app' = app /\ link' = link /\ answered' = answered /\ behind' = behind
    BY DEF U!Wait
<1>2. /\ main' \in Main /\ main'.at \in InDemo \cup {"inst", "exit"}
      /\ app.num = 0 => main'.at # "inst"
    BY <1>0, <1>1, AfterWaitPlaces
<1>3. UserTypes'
  <2>1. sema' \in Nat
      BY <1>0, <1>1, SMTT(60) DEF UserTypes
  <2> QED BY <1>0, <1>1, <1>2, <2>1 DEF UserTypes
<1>4. CASE app.num = 0
  <2>1. main'.at \notin Prompting
      BY <1>2, <1>4 DEF InDemo, Prompting
  <2> QED BY <1>1, <1>3, <1>4, <2>1, UserAside
<1>5. CASE app.num # 0
  <2>1. main.at \in {"wait", "last", "drain"}
      BY <1>1 DEF U!AfterWait
  <2>2. Undisturbed /\ main.at # "announce"
      BY <1>5, <2>1 DEF Undisturbed, InDemo
  <2>3. /\ Ledger /\ \A i \in Instances \ {main.inst} : QuietOn(i)
        /\ main.num = app.num /\ main.inst = app.inst
      BY <2>2 DEF UserInv
  <2>4. PICK t \in Instances : t = main.inst
      BY <1>0, UserNumbers
  <2>5. /\ main.num \in Nat /\ main.msg \in Nat /\ sema \in Nat /\ main \in Main
        /\ link[t].req \in Nat /\ link[t].rep \in Nat /\ link[t].due \in Nat
        /\ One(link[t].ctrl) \in {0, 1}
      BY <1>0, UserNumbers DEF UserTypes
  <2>6. ASSUME main'.at = "inst", sema' = 0, QuietOn(t) PROVE UserInv'
    <3>1. \A i \in Instances : QuietOn(i)'
        BY <1>1, <2>3, <2>4, <2>6 DEF QuietOn
    <3>2. ~Undisturbed'
        BY <2>6 DEF Undisturbed, InDemo
    <3> QED BY <1>3, <2>6, <3>1, <3>2 DEF UserInv
  <2>7. ASSUME main'.at \in InDemo \ {"announce"}, main'.num = main.num,
               main'.inst = main.inst, Ledger'
        PROVE  UserInv'
      BY <1>1, <1>3, <2>2, <2>7, UserOwn
  <2>8. CASE main.at = "drain"
    <3>1. /\ t \in Polled
          /\ Counting("drain", main.num, main.msg, link[t], sema, answered[t], behind[t])
      <4>1. t \in Polled
          BY <2>3, <2>4, <2>8 DEF Ledger, Echoing
      <4> QED BY <2>3, <2>4, <2>8, <4>1 DEF Ledger
    <3>2. /\ sema = main.msg + 1 /\ behind[t] = 0
          /\ link[t].req = 0 /\ link[t].rep = 0 /\ link[t].due = 0 /\ One(link[t].ctrl) = 0
        BY <3>1 DEF Counting
    <3>3. CASE main.msg = 0
      <4>1. main' = [main EXCEPT !.at = "inst"]
          BY <1>1, <1>5, <2>8, <3>3 DEF U!AfterWait, U!AfterDemo, U!Goto
      <4>2. main'.at = "inst"
          BY <2>5, <4>1 DEF Main
      <4>3. QuietOn(t)
          BY <1>0, <3>2, QuietFields DEF QuietOn
      <4>4. sema' = 0
          BY <1>1, <3>2, <3>3, SMTT(60)
      <4> QED BY <2>6, <4>2, <4>3, <4>4
    <3>4. CASE main.msg # 0
      <4>1. main' = [main EXCEPT !.msg = main.msg - 1]
          BY <1>1, <2>8, <3>4 DEF U!AfterWait
      <4>2. /\ main'.at = "drain" /\ main'.num = main.num /\ main'.inst = main.inst
            /\ main'.msg = main.msg - 1
          BY <2>5, <2>8, <4>1 DEF Main
      <4>3. Counting("drain", main.num, main'.msg, link[t], sema', answered[t], behind[t])
          BY <1>1, <2>5, <3>2, <4>2, SMTT(60) DEF Counting
      <4>4. Ledger'
          BY <1>1, <2>4, <3>1, <4>2, <4>3 DEF Ledger
      <4>5. main'.at \in InDemo \ {"announce"}
          BY <4>2 DEF InDemo
      <4> QED BY <2>7, <4>2, <4>4, <4>5
    <3> QED BY <3>3, <3>4
  <2>9. CASE main.at \in {"wait", "last"}
    <3>1. t \notin Polled
        BY <2>3, <2>4, <2>9 DEF Ledger, Counting
    <3>2. Echoing(main.at, main.num, main.msg, link[t], sema)
        BY <2>3, <2>4, <3>1 DEF Ledger
    <3>3. CASE main.at = "wait"
      <4>1. PICK a \in {"last", "send"} :
                /\ main' = [main EXCEPT !.at = a]
                /\ a = IF main.msg = main.num THEN "last" ELSE "send"
          BY <1>1, <3>3 DEF U!AfterWait, U!Goto
      <4>2. main'.at = a /\ main'.num = main.num /\ main'.inst = main.inst /\ main'.msg = main.msg
          BY <2>5, <4>1 DEF Main
      <4>3. Echoing(a, main.num, main.msg, link[t], sema')
        <5>1. /\ 1 <= main.msg /\ main.msg <= main.num
              /\ link[t].due = main.num - main.msg + link[t].req
              /\ One(link[t].ctrl) = 1 => link[t].due = 0
              /\ sema + link[t].req + link[t].rep + One(link[t].ctrl) =
                     IF link[t].due = 0 THEN 2 ELSE 1
            BY <3>2, <3>3 DEF Echoing
        <5>2. CASE main.msg = main.num
          <6>1. a = "last"
              BY <4>1, <5>2
          <6>2. link[t].req = 0 /\ link[t].due = 0 /\ sema' + link[t].rep + One(link[t].ctrl) = 1
              BY <1>1, <2>5, <5>1, <5>2, SMTT(60)
          <6> QED BY <6>1, <6>2 DEF Echoing
        <5>3. CASE main.msg # main.num
          <6>1. a = "send"
              BY <4>1, <5>3
          <6>2. /\ main.msg < main.num /\ sema' = 0
                /\ link[t].req = 0 /\ link[t].rep = 0
                /\ link[t].due = main.num - main.msg /\ One(link[t].ctrl) = 0
              BY <1>1, <2>5, <5>1, <5>3, SMTT(60)
          <6> QED BY <6>1, <6>2 DEF Echoing
        <5> QED BY <5>2, <5>3
      <4>4. Ledger'
          BY <1>1, <2>4, <3>1, <4>2, <4>3 DEF Ledger
      <4>5. main'.at \in InDemo \ {"announce"}
          BY <4>2 DEF InDemo
      <4> QED BY <2>7, <4>2, <4>4, <4>5
    <3>4. CASE main.at = "last"
      <4>1. main' = [main EXCEPT !.at = "inst"]
          BY <1>1, <1>5, <3>4 DEF U!AfterWait, U!AfterDemo, U!Goto
      <4>2. main'.at = "inst"
          BY <2>5, <4>1 DEF Main
      <4>3. /\ sema' = 0
            /\ link[t].req = 0 /\ link[t].rep = 0 /\ link[t].due = 0 /\ One(link[t].ctrl) = 0
          BY <1>1, <2>5, <3>2, <3>4, SMTT(60) DEF Echoing
      <4>4. QuietOn(t)
          BY <1>0, <3>1, <4>3, QuietFields DEF QuietOn
      <4> QED BY <2>6, <4>2, <4>3, <4>4
    <3> QED BY <2>9, <3>3, <3>4
  <2> QED BY <2>1, <2>8, <2>9
<1> QED BY <1>4, <1>5

\* The polling is over.
LEMMA UserPolled == UserInv /\ U!PolledAll => UserInv'
<1> SUFFICES ASSUME UserInv, U!PolledAll PROVE UserInv'
    OBVIOUS
<1>0. UserTypes
    BY DEF UserInv
<1>1. /\ main.at = "poll" /\ behind[main.inst] = 0 /\ answered[main.inst]
      /\ main' = [main EXCEPT !.at = "drain", !.msg = main.num]
      /\ app' = app /\ sema' = sema /\ link' = link /\ answered' = answered /\ behind' = behind
    BY DEF U!PolledAll
<1>2. /\ main' \in Main /\ main'.at = "drain" /\ main'.num = main.num
      /\ main'.inst = main.inst /\ main'.msg = main.num
  <2>1. main \in Main /\ main' = [main EXCEPT !.at = "drain", !.msg = main.num]
      BY <1>0, <1>1 DEF UserTypes
  <2>2. main.num \in Nat /\ "drain" \in InDemo
      BY <1>0, UserNumbers DEF InDemo
  <2> QED BY <2>1, <2>2 DEF Main
<1>3. UserTypes'
    BY <1>0, <1>1, <1>2 DEF UserTypes
<1>4. main'.at \in InDemo \ {"announce"} /\ main'.at \notin Prompting
    BY <1>2 DEF InDemo, Prompting
<1>5. CASE app.num = 0
    BY <1>1, <1>3, <1>4, <1>5, UserAside
<1>6. CASE app.num # 0
  <2>1. Undisturbed /\ main.at # "announce"
      BY <1>1, <1>6 DEF Undisturbed, InDemo
  <2>2. Ledger
      BY <2>1 DEF UserInv
  <2>3. PICK t \in Instances : t = main.inst
      BY <1>0, UserNumbers
  <2>4. t \in Polled
      BY <1>1, <2>2, <2>3 DEF Ledger, Echoing
  <2>5. Counting("poll", main.num, main.msg, link[t], sema, answered[t], behind[t])
      BY <1>1, <2>2, <2>3, <2>4 DEF Ledger
  <2>6. One(answered[t]) = 1
      BY <1>0, <1>1, <2>3, <2>4, Flags DEF UserTypes
  <2>7. /\ main.num \in Nat /\ main.msg \in Nat /\ sema \in Nat /\ behind[t] = 0
        /\ link[t].req \in Nat /\ link[t].rep \in Nat /\ link[t].due \in Nat
        /\ One(link[t].ctrl) \in {0, 1}
      BY <1>0, <1>1, <2>3, UserNumbers
  <2>8. Counting("drain", main.num, main.num, link[t], sema, answered[t], behind[t])
    <3>1. /\ main.msg = main.num
          /\ behind[t] = link[t].req + link[t].rep
          /\ link[t].due = main.num - main.msg + link[t].req
          /\ One(link[t].ctrl) + One(answered[t]) = IF link[t].due = 0 THEN 1 ELSE 0
          /\ sema = main.msg - behind[t] + One(answered[t])
        BY <2>5 DEF Counting
    <3>2. /\ sema = main.num + 1
          /\ link[t].req = 0 /\ link[t].rep = 0 /\ link[t].due = 0 /\ One(link[t].ctrl) = 0
        BY <2>6, <2>7, <3>1, SMTT(60)
    <3> QED BY <2>7, <3>2 DEF Counting
  <2>9. Ledger'
      BY <1>1, <1>2, <2>3, <2>4, <2>8 DEF Ledger
  <2> QED BY <1>1, <1>2, <1>3, <1>4, <2>1, <2>9, UserOwn
<1> QED BY <1>5, <1>6

\* A step of the remote side or of a callback, for an instance that is not quiet:
\* it is the instance of the demo, unless a signal disturbed that.
LEMMA UserLinkStep ==
    ASSUME UserInv, NEW i \in Instances, link[i] # U!Quiet, UserTypes', app' = app, main' = main,
           \A j \in Instances : j # i => link'[j] = link[j],
           \A j \in Polled : j # i => behind'[j] = behind[j],
           main.at \in InDemo \ {"announce"} /\ i = main.inst /\ Ledger => Ledger'
    PROVE  UserInv'
<1>1. main.at \notin Prompting
    BY DEF UserInv, QuietOn
<1>2. CASE main.at = "exit" \/ app.num = 0
    BY <1>1, <1>2, UserAside
<1>3. CASE main.at # "exit" /\ app.num # 0
  <2>1. main.at \in InDemo
      BY <1>1, <1>3 DEF UserInv, UserTypes, Main
  <2>2. Undisturbed
      BY <1>3, <2>1 DEF Undisturbed
  <2>3. i = main.inst
      BY <2>2 DEF UserInv, QuietOn
  <2>4. main.at # "announce"
      BY <2>2, <2>3 DEF UserInv, QuietOn
  <2>5. Ledger /\ main.at \in InDemo \ {"announce"}
      BY <2>1, <2>2, <2>4 DEF UserInv
  <2> QED BY <2>2, <2>3, <2>5, UserOwn
<1> QED BY <1>2, <1>3

LEMMA UserRx == ASSUME UserInv, NEW i \in Instances, U!data_chan_rx_cb(i) PROVE UserInv'
<1>0. UserTypes
    BY DEF UserInv
<1>1. /\ U!Receiving(i) /\ link[i].rep > 0
      /\ link' = [link EXCEPT ![i].rep = link[i].rep - 1]
      /\ behind' = [j \in Polled |-> IF j = i THEN behind[j] - 1 ELSE behind[j]]
      /\ sema' = sema + 1
      /\ app' = app /\ main' = main /\ answered' = answered
    BY DEF U!data_chan_rx_cb
<1>2. /\ main.num \in Nat /\ main.msg \in Nat /\ sema \in Nat
      /\ link[i].req \in Nat /\ link[i].rep \in Nat /\ link[i].due \in Nat
      /\ One(link[i].ctrl) \in {0, 1}
    BY <1>0, UserNumbers
<1>3. link \in [Instances -> Link] /\ link[i].rep - 1 \in Nat /\ link[i].rep # 0
    BY <1>0, <1>1, <1>2, SMTT(60) DEF UserTypes
<1>4. LinkIs(link', link, i, link[i].req, link[i].rep - 1, link[i].due, One(link[i].ctrl))
    BY <1>1, <1>3, PutRep
<1>5. /\ link' \in [Instances -> Link]
      /\ link'[i].due = link[i].due /\ link'[i].req = link[i].req
      /\ link'[i].rep = link[i].rep - 1 /\ One(link'[i].ctrl) = One(link[i].ctrl)
      /\ \A j \in Instances : j # i => link'[j] = link[j]
    BY <1>4 DEF LinkIs
<1>6. behind' \in [Polled -> Int] /\ sema' \in Nat
    BY <1>0, <1>1, SMTT(60) DEF UserTypes
<1>7. UserTypes'
    BY <1>0, <1>1, <1>5, <1>6 DEF UserTypes
<1>8. link[i] # U!Quiet
    BY <1>0, <1>3, QuietFields
<1>9. ASSUME main.at \in InDemo \ {"announce"}, i = main.inst, Ledger PROVE Ledger'
  <2>1. CASE i \in Polled
    <3>1. /\ main.at = "poll" /\ behind[i] \in Int /\ behind'[i] = behind[i] - 1
          /\ One(answered[i]) \in {0, 1}
        BY <1>0, <1>1, <2>1, UserNumbers DEF U!Receiving
    <3>2. Counting("poll", main.num, main.msg, link[i], sema, answered[i], behind[i])
        BY <1>9, <2>1, <3>1 DEF Ledger
    <3>3. Counting("poll", main.num, main.msg, link'[i], sema', answered[i], behind'[i])
        BY <1>1, <1>2, <1>5, <3>1, <3>2, SMTT(60) DEF Counting
    <3> QED BY <1>1, <1>9, <2>1, <3>1, <3>3 DEF Ledger
  <2>2. CASE i \notin Polled
    <3>1. Echoing(main.at, main.num, main.msg, link[i], sema)
        BY <1>9, <2>2 DEF Ledger
    <3>2. main.at \in {"wait", "last"}
        BY <1>3, <1>9, <3>1 DEF Echoing, InDemo
    <3>3. Echoing(main.at, main.num, main.msg, link'[i], sema')
        BY <1>1, <1>2, <1>5, <3>1, <3>2, SMTT(60) DEF Echoing
    <3> QED BY <1>1, <1>9, <2>2, <3>3 DEF Ledger
  <2> QED BY <2>1, <2>2
<1>10. \A j \in Polled : j # i => behind'[j] = behind[j]
    BY <1>1
<1> QED BY <1>1, <1>5, <1>7, <1>8, <1>9, <1>10, UserLinkStep

LEMMA UserCtrlRx == ASSUME UserInv, NEW i \in Instances, U!ctrl_chan_rx_cb(i) PROVE UserInv'
<1>0. UserTypes
    BY DEF UserInv
<1>1. /\ U!Receiving(i) /\ link[i].ctrl
      /\ link' = [link EXCEPT ![i].ctrl = FALSE]
      /\ answered' = [j \in Polled |-> answered[j] \/ j = i]
      /\ sema' = sema + 1
      /\ app' = app /\ main' = main /\ behind' = behind
    BY DEF U!ctrl_chan_rx_cb
<1>2. /\ main.num \in Nat /\ main.msg \in Nat /\ sema \in Nat
      /\ link[i].req \in Nat /\ link[i].rep \in Nat /\ link[i].due \in Nat
    BY <1>0, UserNumbers
<1>3. link \in [Instances -> Link] /\ One(link[i].ctrl) = 1
    BY <1>0, <1>1, Flags DEF UserTypes, Link
<1>4. LinkIs(link', link, i, link[i].req, link[i].rep, link[i].due, 0)
    BY <1>1, <1>3, PutCtrl
<1>5. /\ link' \in [Instances -> Link]
      /\ link'[i].due = link[i].due /\ link'[i].req = link[i].req
      /\ link'[i].rep = link[i].rep /\ One(link'[i].ctrl) = 0
      /\ \A j \in Instances : j # i => link'[j] = link[j]
    BY <1>4 DEF LinkIs
<1>6. sema' \in Nat /\ sema' = sema + 1
    BY <1>1, <1>2, SMTT(60)
<1>7. UserTypes'
  <2>1. answered' \in [Polled -> BOOLEAN]
      BY <1>1
  <2> QED BY <1>0, <1>1, <1>5, <1>6, <2>1 DEF UserTypes
<1>8. link[i] # U!Quiet
  <2>1. 0 # 1
      BY SMTT(60)
  <2> QED BY <1>0, <1>3, <2>1, QuietFields
<1>9. ASSUME main.at \in InDemo \ {"announce"}, i = main.inst, Ledger PROVE Ledger'
  <2>1. CASE i \in Polled
    <3>1. main.at = "poll" /\ behind[i] \in Int /\ One(answered[i]) \in {0, 1}
        BY <1>0, <1>1, <2>1, UserNumbers DEF U!Receiving
    <3>2. One(answered'[i]) = 1
      <4>1. answered'[i] = TRUE
          BY <1>1, <2>1
      <4> QED BY <4>1, Flags
    <3>3. Counting("poll", main.num, main.msg, link[i], sema, answered[i], behind[i])
        BY <1>9, <2>1, <3>1 DEF Ledger
    <3>4. Counting("poll", main.num, main.msg, link'[i], sema', answered'[i], behind[i])
        BY <1>2, <1>3, <1>5, <1>6, <3>1, <3>2, <3>3, SMTT(60) DEF Counting
    <3> QED BY <1>1, <1>9, <2>1, <3>1, <3>4 DEF Ledger
  <2>2. CASE i \notin Polled
    <3>1. Echoing(main.at, main.num, main.msg, link[i], sema)
        BY <1>9, <2>2 DEF Ledger
    <3>2. main.at \in {"wait", "last"}
        BY <1>3, <1>9, <3>1, SMTT(60) DEF Echoing, InDemo
    <3>3. Echoing(main.at, main.num, main.msg, link'[i], sema')
        BY <1>2, <1>3, <1>5, <1>6, <3>1, <3>2, SMTT(60) DEF Echoing
    <3> QED BY <1>1, <1>9, <2>2, <3>3 DEF Ledger
  <2> QED BY <2>1, <2>2
<1> QED BY <1>1, <1>5, <1>7, <1>8, <1>9, UserLinkStep

\* The remote side takes a message.
LEMMA UserEcho == ASSUME UserInv, NEW i \in Instances, U!RemoteEcho(i) PROVE UserInv'
<1>0. UserTypes
    BY DEF UserInv
<1>1. /\ link[i].req > 0
      /\ link' = [link EXCEPT ![i] =
                     [req |-> link[i].req - 1, rep |-> link[i].rep + 1,
                      due |-> IF link[i].due > 0 THEN link[i].due - 1 ELSE 0,
                      ctrl |-> link[i].ctrl \/ link[i].due = 1]]
      /\ sema' = sema /\ app' = app /\ main' = main /\ behind' = behind /\ answered' = answered
    BY DEF U!RemoteEcho
<1>2. /\ main.num \in Nat /\ main.msg \in Nat /\ sema \in Nat
      /\ link[i].req \in Nat /\ link[i].rep \in Nat /\ link[i].due \in Nat
      /\ One(link[i].ctrl) \in {0, 1}
    BY <1>0, UserNumbers
<1>3. /\ link[i].req - 1 \in Nat /\ link[i].rep + 1 \in Nat /\ link[i].req # 0
      /\ (IF link[i].due > 0 THEN link[i].due - 1 ELSE 0) \in Nat
    BY <1>1, <1>2, SMTT(60)
<1>4. PICK r \in Link :
          /\ link' = [link EXCEPT ![i] = r]
          /\ r.req = link[i].req - 1 /\ r.rep = link[i].rep + 1
          /\ r.due = IF link[i].due > 0 THEN link[i].due - 1 ELSE 0
          /\ r.ctrl = (link[i].ctrl \/ link[i].due = 1)
  <2>1. (link[i].ctrl \/ link[i].due = 1) \in BOOLEAN
      OBVIOUS
  <2>2. [req |-> link[i].req - 1, rep |-> link[i].rep + 1,
         due |-> IF link[i].due > 0 THEN link[i].due - 1 ELSE 0,
         ctrl |-> link[i].ctrl \/ link[i].due = 1] \in Link
      BY <1>3, <2>1 DEF Link
  <2> QED BY <1>1, <2>2
<1>5. /\ link' \in [Instances -> Link] /\ link'[i] = r
      /\ \A j \in Instances : j # i => link'[j] = link[j]
    BY <1>0, <1>4 DEF UserTypes
<1>6. /\ r.req = link[i].req - 1 /\ r.rep = link[i].rep + 1
      /\ r.due = IF link[i].due > 0 THEN link[i].due - 1 ELSE 0
      /\ link[i].due = 1 => One(r.ctrl) = 1
      /\ link[i].due # 1 => One(r.ctrl) = One(link[i].ctrl)
  <2>1. link[i].ctrl \in BOOLEAN
      BY <1>0 DEF UserTypes, Link
  <2>2. ASSUME link[i].due = 1 PROVE One(r.ctrl) = 1
      BY <1>4, <2>2, Flags
  <2>3. ASSUME link[i].due # 1 PROVE One(r.ctrl) = One(link[i].ctrl)
      BY <1>4, <2>1, <2>3
  <2> QED BY <1>4, <2>2, <2>3
<1>7. UserTypes'
    BY <1>0, <1>1, <1>5 DEF UserTypes
<1>8. link[i] # U!Quiet
    BY <1>0, <1>3, QuietFields
<1>9. ASSUME main.at \in InDemo \ {"announce"}, i = main.inst, Ledger PROVE Ledger'
  <2>1. CASE i \in Polled
    <3>1. Counting(main.at, main.num, main.msg, link[i], sema, answered[i], behind[i])
        BY <1>9, <2>1 DEF Ledger
    <3>2. main.at \in {"send", "poll"}
        BY <1>3, <1>9, <3>1 DEF Counting, InDemo
    <3>3. behind[i] \in Int /\ One(answered[i]) \in {0, 1}
        BY <1>0, <2>1, UserNumbers
    <3>4. Counting(main.at, main.num, main.msg, r, sema, answered[i], behind[i])
        BY <1>2, <1>3, <1>6, <3>1, <3>2, <3>3, SMTT(60) DEF Counting
    <3> QED BY <1>1, <1>5, <1>9, <2>1, <3>4 DEF Ledger
  <2>2. CASE i \notin Polled
    <3>1. Echoing(main.at, main.num, main.msg, link[i], sema)
        BY <1>9, <2>2 DEF Ledger
    <3>2. main.at = "wait"
        BY <1>3, <1>9, <3>1 DEF Echoing, InDemo
    <3>3. Echoing("wait", main.num, main.msg, r, sema)
      <4>1. /\ 1 <= main.msg /\ main.msg <= main.num
            /\ link[i].due = main.num - main.msg + link[i].req
            /\ One(link[i].ctrl) = 1 => link[i].due = 0
            /\ sema + link[i].req + link[i].rep + One(link[i].ctrl) =
                   IF link[i].due = 0 THEN 2 ELSE 1
          BY <3>1, <3>2 DEF Echoing
      <4>2. /\ link[i].req = 1 /\ link[i].rep = 0 /\ sema = 0 /\ One(link[i].ctrl) = 0
            /\ link[i].due >= 1
        <5>1. link[i].req >= 1
            BY <1>2, <1>3, SMTT(60)
        <5>2. link[i].due >= 1
            BY <1>2, <4>1, <5>1, SMTT(60)
        <5>3. sema + link[i].req + link[i].rep + One(link[i].ctrl) = 1
            BY <4>1, <5>2, SMTT(60)
        <5> QED BY <1>2, <5>1, <5>2, <5>3, SMTT(60)
      <4>3. /\ r.req = 0 /\ r.rep = 1 /\ r.due = main.num - main.msg
            /\ One(r.ctrl) = IF r.due = 0 THEN 1 ELSE 0
          BY <1>2, <1>6, <4>1, <4>2, SMTT(60)
      <4> QED BY <1>2, <4>1, <4>2, <4>3, SMTT(60) DEF Echoing
    <3> QED BY <1>1, <1>5, <1>9, <2>2, <3>2, <3>3 DEF Ledger
  <2> QED BY <2>1, <2>2
<1> QED BY <1>1, <1>5, <1>7, <1>8, <1>9, UserLinkStep

LEMMA UserNext == UserInv /\ [Next]_vars => UserInv'
<1> SUFFICES ASSUME UserInv, [Next]_vars PROVE UserInv'
    OBVIOUS
<1>1. CASE UNCHANGED user
    BY <1>1, UserIdle
<1>2. CASE U!Prompts
    BY <1>2, UserScan DEF U!Prompts
<1>3. CASE U!CallDemo \/ U!send_ctrl_msg \/ U!SendFails
    BY <1>3, UserCall, UserAnnounce, UserSendFails
<1>4. CASE U!send_data_msg \/ U!send_data_poll \/ U!Wait \/ U!PolledAll
    BY <1>4, UserSend, UserWait, UserPolled
<1>5. CASE U!SignalBeside \/ U!SignalWait \/ U!SignalScan
    BY <1>5, UserSignal
<1>6. CASE \E i \in Instances :
               U!data_chan_rx_cb(i) \/ U!ctrl_chan_rx_cb(i) \/ U!RemoteEcho(i)
    BY <1>6, UserRx, UserCtrlRx, UserEcho
<1> QED BY <1>1, <1>2, <1>3, <1>4, <1>5, <1>6
        DEF Next, vars, OfWait, OfUser, OfXen

\* The user-space sample: whatever the signals, no post of the semaphore and no
\* message is left when main prompts again; for any set of instances, whichever
\* of them are polled, and any number of messages and buffers.
THEOREM CleanPromptHolds == Spec => []CleanPrompt
<1>1. Init => UserInv
    BY UserInit DEF Init
<1>2. UserInv => CleanPrompt
  <2>1. "inst" \in Prompting
      BY DEF Prompting
  <2> QED BY <2>1, UserConstants DEF UserInv, QuietOn, CleanPrompt, U!CleanPrompt
<1> QED BY <1>1, <1>2, UserNext, PTL DEF Spec

-----------------------------------------------------------------------------
(* The Xen samples *)

\* The state of a domain.
Dom == [at : {"idle", "ping", "await", "listen", "reply"}, num : Nat, msg : Nat, tx : Nat,
        rx : Nat, expected : Nat, cursor : 0..3, again : BOOLEAN]

XenTypes ==
    /\ dom \in [X!Domains -> Dom]
    /\ incoming \in [X!Domains -> [X!Channels -> Nat]]
    /\ ctrl \in [X!Domains -> [num : Nat, unseen : BOOLEAN]]
    /\ roles \in [X!Domains -> SUBSET {"write", "read"}]
    /\ txErrors \in Nat

\* Domain w only writes the file, the other one only reads it, and the driver has
\* sent all that they gave it.
Writes(w) ==
    txErrors = 0 /\ roles[w] \subseteq {"write"} /\ roles[X!Other(w)] \subseteq {"read"}

\* The messages that domain d has not received.
Pending(d) == incoming[d][1] + incoming[d][2]

\* What the writer and the reader know of each other: of the writer, where it is,
\* num_msgs, the messages of this write that it has sent, num_tx_msg, num_rx_msg
\* and the replies that wait for it; of the reader, where it is, num_tx_msg,
\* num_rx_msg, expected_msgs, the replies it has sent, the control message that
\* waits for it (new is 1 if there is one) and the messages.  From the beginning
\* of a write to the first reply the write is announced: the control message has
\* not been seen, or the reader has the number and polls for the messages.
Exchanged(at, num, msg, tx, rx, pending, rat, rtx, rrx, expected, replied, new, cnum, rpending) ==
    LET announced == new = 1 \/ (rat = "listen" /\ expected # 0)
    IN  /\ at \in {"idle", "ping", "await"}
        /\ rat \in {"idle", "listen", "reply"}
        /\ rtx = 0
        /\ rat = "idle" => rrx = 0
        /\ at = "idle" =>
              /\ tx = rx /\ pending = 0 /\ rpending = 0
              /\ rat # "reply" /\ rrx = 0 /\ ~announced
        /\ at = "ping" => msg < num /\ announced
        /\ at = "await" => msg = num /\ num > 0
        /\ at # "idle" /\ announced =>
              /\ rat # "reply"
              /\ new = 1 => cnum = num /\ (rat = "listen" => expected = 0)
              /\ new # 1 => expected = num
              /\ rrx + rpending = msg
              /\ tx = rx + msg /\ pending = 0
        /\ at = "await" /\ ~announced =>
              /\ rpending = 0
              /\ rat # "reply" => rrx = 0 /\ rx + pending = tx
              /\ rat = "reply" =>
                    /\ expected = num /\ replied < expected
                    /\ rx + pending + expected = tx + replied

\* What the steps of the writer and of the reader do to the account: these lemmas
\* are about the numbers alone.
Counted(num, msg, tx, rx, pending, rtx, rrx, expected, replied, new, cnum, rpending) ==
    /\ num \in Nat /\ msg \in Nat /\ tx \in Nat /\ rx \in Nat /\ pending \in Nat
    /\ rtx \in Nat /\ rrx \in Nat /\ expected \in Nat /\ replied \in Nat
    /\ new \in {0, 1} /\ cnum \in Nat /\ rpending \in Nat

\* The writer sends a message.
LEMMA PingCounts ==
    ASSUME NEW at, NEW num, NEW msg, NEW tx, NEW rx, NEW pending, NEW rat, NEW rtx, NEW rrx,
           NEW expected, NEW replied, NEW new, NEW cnum, NEW rpending,
           Exchanged(at, num, msg, tx, rx, pending, rat, rtx, rrx, expected, replied, new, cnum,
                     rpending),
           Counted(num, msg, tx, rx, pending, rtx, rrx, expected, replied, new, cnum, rpending),
           NEW next \in {"ping", "await"}, at = "ping", next = "await" <=> msg + 1 = num
    PROVE  Exchanged(next, num, msg + 1, tx + 1, rx, pending, rat, rtx, rrx, expected, replied,
                     new, cnum, rpending + 1)
BY SMTT(60) DEF Exchanged, Counted

\* The reader sends a reply; it may be the last one.
LEMMA ReplyCounts ==
    ASSUME NEW at, NEW num, NEW msg, NEW tx, NEW rx, NEW pending, NEW rat, NEW rtx, NEW rrx,
           NEW expected, NEW replied, NEW new, NEW cnum, NEW rpending,
           Exchanged(at, num, msg, tx, rx, pending, rat, rtx, rrx, expected, replied, new, cnum,
                     rpending),
           Counted(num, msg, tx, rx, pending, rtx, rrx, expected, replied, new, cnum, rpending),
           NEW next, NEW sent \in Nat, NEW seen \in Nat, rat = "reply",
           \/ replied + 1 = expected /\ next = "idle" /\ sent = 0 /\ seen = 0
           \/ replied + 1 # expected /\ next = "reply" /\ sent = replied + 1 /\ seen = rrx
    PROVE  Exchanged(at, num, msg, tx, rx, pending + 1, next, rtx, seen, expected, sent, new,
                     cnum, rpending)
BY SMTT(60) DEF Exchanged, Counted

\* A write begins.
LEMMA StoreCounts ==
    ASSUME NEW at, NEW num, NEW msg, NEW tx, NEW rx, NEW pending, NEW rat, NEW rtx, NEW rrx,
           NEW expected, NEW replied, NEW new, NEW cnum, NEW rpending,
           Exchanged(at, num, msg, tx, rx, pending, rat, rtx, rrx, expected, replied, new, cnum,
                     rpending),
           Counted(num, msg, tx, rx, pending, rtx, rrx, expected, replied, new, cnum, rpending),
           NEW n \in Nat, n > 0, at = "idle"
    PROVE  Exchanged("ping", n, 0, tx, rx, pending, rat, rtx, rrx, expected, replied, 1, n,
                     rpending)
BY SMTT(60) DEF Exchanged, Counted

\* The reader sees the control message.
LEMMA CtrlCounts ==
    ASSUME NEW at, NEW num, NEW msg, NEW tx, NEW rx, NEW pending, NEW rat, NEW rtx, NEW rrx,
           NEW expected, NEW replied, NEW new, NEW cnum, NEW rpending,
           Exchanged(at, num, msg, tx, rx, pending, rat, rtx, rrx, expected, replied, new, cnum,
                     rpending),
           Counted(num, msg, tx, rx, pending, rtx, rrx, expected, replied, new, cnum, rpending),
           NEW n \in Nat, n = IF new = 1 THEN cnum ELSE expected, rat = "listen"
    PROVE  Exchanged(at, num, msg, tx, rx, pending, rat, rtx, rrx, n, replied, 0, cnum, rpending)
BY SMTT(60) DEF Exchanged, Counted

\* The writer takes k replies.
LEMMA WriterCounts ==
    ASSUME NEW at, NEW num, NEW msg, NEW tx, NEW rx, NEW pending, NEW rat, NEW rtx, NEW rrx,
           NEW expected, NEW replied, NEW new, NEW cnum, NEW rpending,
           Exchanged(at, num, msg, tx, rx, pending, rat, rtx, rrx, expected, replied, new, cnum,
                     rpending),
           Counted(num, msg, tx, rx, pending, rtx, rrx, expected, replied, new, cnum, rpending),
           NEW k \in Nat, k <= pending, at = "await"
    PROVE  Exchanged(at, num, msg, tx, rx + k, pending - k, rat, rtx, rrx, expected, replied, new,
                     cnum, rpending)
BY SMTT(60) DEF Exchanged, Counted

\* The reader takes k messages.
LEMMA ReaderCounts ==
    ASSUME NEW at, NEW num, NEW msg, NEW tx, NEW rx, NEW pending, NEW rat, NEW rtx, NEW rrx,
           NEW expected, NEW replied, NEW new, NEW cnum, NEW rpending,
           Exchanged(at, num, msg, tx, rx, pending, rat, rtx, rrx, expected, replied, new, cnum,
                     rpending),
           Counted(num, msg, tx, rx, pending, rtx, rrx, expected, replied, new, cnum, rpending),
           NEW k \in Nat, k <= rpending, rat = "listen"
    PROVE  Exchanged(at, num, msg, tx, rx, pending, rat, rtx, rrx + k, expected, replied, new,
                     cnum, rpending - k)
BY SMTT(60) DEF Exchanged, Counted

\* The reader has all the messages.
LEMMA AllReadCounts ==
    ASSUME NEW at, NEW num, NEW msg, NEW tx, NEW rx, NEW pending, NEW rat, NEW rtx, NEW rrx,
           NEW expected, NEW replied, NEW new, NEW cnum, NEW rpending,
           Exchanged(at, num, msg, tx, rx, pending, rat, rtx, rrx, expected, replied, new, cnum,
                     rpending),
           Counted(num, msg, tx, rx, pending, rtx, rrx, expected, replied, new, cnum, rpending),
           rat = "listen", rrx = expected, expected # 0
    PROVE  Exchanged(at, num, msg, tx, rx, pending, "reply", rtx, rrx, expected, 0, new, cnum,
                     rpending)
BY SMTT(60) DEF Exchanged, Counted

\* The writer has all the replies.
LEMMA AllAnsweredCounts ==
    ASSUME NEW at, NEW num, NEW msg, NEW tx, NEW rx, NEW pending, NEW rat, NEW rtx, NEW rrx,
           NEW expected, NEW replied, NEW new, NEW cnum, NEW rpending,
           Exchanged(at, num, msg, tx, rx, pending, rat, rtx, rrx, expected, replied, new, cnum,
                     rpending),
           Counted(num, msg, tx, rx, pending, rtx, rrx, expected, replied, new, cnum, rpending),
           at = "await", tx = rx
    PROVE  Exchanged("idle", num, 0, tx, rx, pending, rat, rtx, rrx, expected, replied, new, cnum,
                     rpending)
BY SMTT(60) DEF Exchanged, Counted

\* The same of the domains as they are, when w writes.
Exchange(w) ==
    LET r == X!Other(w)
    IN  Exchanged(dom[w].at, dom[w].num, dom[w].msg, dom[w].tx, dom[w].rx, Pending(w),
                  dom[r].at, dom[r].tx, dom[r].rx, dom[r].expected, dom[r].msg,
                  One(ctrl[r].unseen), ctrl[r].num, Pending(r))

\* Whichever of the domains writes, the account of the exchange is right.
XenInv == XenTypes /\ \A w \in X!Domains : Writes(w) => Exchange(w)

\* There are two domains, each the other of the other one.
LEMMA OtherFacts == \A d \in X!Domains : /\ X!Other(d) \in X!Domains /\ X!Other(d) # d
                                         /\ X!Other(X!Other(d)) = d
                                         /\ \A e \in X!Domains : e = d \/ e = X!Other(d)
BY SMTT(60) DEF X!Domains, X!Other

Fields(r, at, num, msg, tx, rx, expected) ==
    /\ r \in Dom
    /\ r.at = at /\ r.num = num /\ r.msg = msg
    /\ r.tx = tx /\ r.rx = rx /\ r.expected = expected

\* g is f but for domain d, which has the record with these fields.
DomIs(g, f, d, at, num, msg, tx, rx, expected) ==
    /\ g \in [X!Domains -> Dom]
    /\ Fields(g[d], at, num, msg, tx, rx, expected)
    /\ \A e \in X!Domains : e # d => g[e] = f[e]

LEMMA DomPut ==
    ASSUME NEW f \in [X!Domains -> Dom], NEW d \in X!Domains, NEW r,
           NEW at, NEW num, NEW msg, NEW tx, NEW rx, NEW expected,
           Fields(r, at, num, msg, tx, rx, expected)
    PROVE  DomIs([f EXCEPT ![d] = r], f, d, at, num, msg, tx, rx, expected)
BY DEF DomIs, Fields

LEMMA XenInit == X!Init => XenInv
<1> SUFFICES ASSUME X!Init PROVE XenInv
    OBVIOUS
<1>1. X!Loaded \in Dom /\ Fields(X!Loaded, "idle", 0, 0, 0, 0, 0)
  <2>1. "idle" \in {"idle", "ping", "await", "listen", "reply"} /\ 0 \in Nat /\ 0 \in 0..3
      BY SMTT(60)
  <2> QED BY <2>1 DEF Dom, X!Loaded, Fields
<1>2. [num |-> 0, unseen |-> FALSE] \in [num : Nat, unseen : BOOLEAN]
  <2>1. 0 \in Nat
      OBVIOUS
  <2> QED BY <2>1
<1>3. [c \in X!Channels |-> 0] \in [X!Channels -> Nat]
    OBVIOUS
<1>4. XenTypes
  <2>1. txErrors \in Nat
      BY SMTT(60) DEF X!Init
  <2> QED BY <1>1, <1>2, <1>3, <2>1 DEF X!Init, XenTypes
<1>5. ASSUME NEW w \in X!Domains PROVE Exchange(w)
  <2>1. PICK r \in X!Domains : r = X!Other(w)
      BY OtherFacts
  <2>2. dom[w] = X!Loaded /\ dom[r] = X!Loaded /\ ctrl[r] = [num |-> 0, unseen |-> FALSE]
      BY DEF X!Init
  <2>3. Pending(w) = 0 /\ Pending(r) = 0
      BY SMTT(60) DEF X!Init, Pending, X!Channels
  <2>4. One(ctrl[r].unseen) = 0
    <3>1. ctrl[r].unseen = FALSE
        BY <2>2, SMTT(60)
    <3> QED BY <3>1, Flags
  <2>5. ctrl[r].num = 0
      BY <2>2, SMTT(60)
  <2>6. Exchanged("idle", 0, 0, 0, 0, 0, "idle", 0, 0, 0, 0, 0, 0, 0)
      BY SMTT(60) DEF Exchanged
  <2> QED BY <1>1, <2>1, <2>2, <2>3, <2>4, <2>5, <2>6 DEF Exchange, Fields
<1> QED BY <1>4, <1>5 DEF XenInv

\* What each call does to the record of its domain.
LEMMA StoreDom ==
    ASSUME XenTypes, NEW d \in X!Domains, NEW n \in Nat, NEW ok \in BOOLEAN, NEW at,
           at = IF ok THEN "ping" ELSE "idle", X!ipc_sysfs_store(d, n, ok)
    PROVE  DomIs(dom', dom, d, at, n, 0, dom[d].tx, dom[d].rx, dom[d].expected)
<1>1. dom \in [X!Domains -> Dom] /\ dom[d] \in Dom
    BY DEF XenTypes
<1>2. PICK r : dom' = [dom EXCEPT ![d] = r] /\ r = [dom[d] EXCEPT !.at = at, !.num = n, !.msg = 0]
    BY DEF X!ipc_sysfs_store
<1>3. 0 \in Nat /\ at \in {"idle", "ping", "await", "listen", "reply"}
    OBVIOUS
<1>4. Fields(r, at, n, 0, dom[d].tx, dom[d].rx, dom[d].expected)
    BY <1>1, <1>2, <1>3 DEF Fields, Dom
<1>5. DomIs([dom EXCEPT ![d] = r], dom, d, at, n, 0, dom[d].tx, dom[d].rx, dom[d].expected)
    BY <1>1, <1>4, DomPut
<1> QED BY <1>2, <1>5

LEMMA ShowDom ==
    ASSUME XenTypes, NEW d \in X!Domains, X!ipc_sysfs_show(d)
    PROVE  DomIs(dom', dom, d, "listen", dom[d].num, dom[d].msg, dom[d].tx, 0, 0)
<1>1. dom \in [X!Domains -> Dom] /\ dom[d] \in Dom
    BY DEF XenTypes
<1>2. PICK r : dom' = [dom EXCEPT ![d] = r]
               /\ r = [dom[d] EXCEPT !.at = "listen", !.rx = 0, !.expected = 0]
    BY DEF X!ipc_sysfs_show
<1>3. 0 \in Nat /\ "listen" \in {"idle", "ping", "await", "listen", "reply"}
    OBVIOUS
<1>4. Fields(r, "listen", dom[d].num, dom[d].msg, dom[d].tx, 0, 0)
    BY <1>1, <1>2, <1>3 DEF Fields, Dom
<1>5. DomIs([dom EXCEPT ![d] = r], dom, d, "listen", dom[d].num, dom[d].msg, dom[d].tx, 0, 0)
    BY <1>1, <1>4, DomPut
<1> QED BY <1>2, <1>5

LEMMA PingDom ==
    ASSUME XenTypes, NEW d \in X!Domains, X!Ping(d)
    PROVE  \E at \in {"ping", "await"} :
              /\ DomIs(dom', dom, d, at, dom[d].num, dom[d].msg + 1, dom[d].tx + 1, dom[d].rx,
                       dom[d].expected)
              /\ at = "await" <=> dom[d].msg + 1 = dom[d].num
<1>1. dom \in [X!Domains -> Dom] /\ dom[d] \in Dom
    BY DEF XenTypes
<1>2. PICK at \in {"ping", "await"} : at = IF dom[d].msg + 1 = dom[d].num THEN "await" ELSE "ping"
    OBVIOUS
<1>3. PICK r : dom' = [dom EXCEPT ![d] = r]
               /\ r = [dom[d] EXCEPT !.msg = dom[d].msg + 1, !.tx = dom[d].tx + 1, !.at = at]
    BY <1>2 DEF X!Ping
<1>4. /\ dom[d].msg + 1 \in Nat /\ dom[d].tx + 1 \in Nat
      /\ at \in {"idle", "ping", "await", "listen", "reply"}
      /\ at = "await" <=> dom[d].msg + 1 = dom[d].num
    BY <1>1, <1>2, SMTT(60) DEF Dom
<1>5. Fields(r, at, dom[d].num, dom[d].msg + 1, dom[d].tx + 1, dom[d].rx, dom[d].expected)
    BY <1>1, <1>3, <1>4 DEF Fields, Dom
<1>6. DomIs([dom EXCEPT ![d] = r], dom, d, at, dom[d].num, dom[d].msg + 1, dom[d].tx + 1,
            dom[d].rx, dom[d].expected)
    BY <1>1, <1>5, DomPut
<1> QED BY <1>3, <1>4, <1>6

LEMMA ReplyDom ==
    ASSUME XenTypes, NEW d \in X!Domains, X!Reply(d)
    PROVE  \/ /\ dom[d].msg + 1 = dom[d].expected
              /\ DomIs(dom', dom, d, "idle", dom[d].num, 0, dom[d].tx, 0, dom[d].expected)
           \/ /\ dom[d].msg + 1 # dom[d].expected
              /\ DomIs(dom', dom, d, "reply", dom[d].num, dom[d].msg + 1, dom[d].tx, dom[d].rx,
                       dom[d].expected)
<1>1. dom \in [X!Domains -> Dom] /\ dom[d] \in Dom /\ dom[d].at = "reply"
    BY DEF XenTypes, X!Reply
<1>2. /\ 0 \in Nat /\ dom[d].msg + 1 \in Nat
      /\ "idle" \in {"idle", "ping", "await", "listen", "reply"}
      /\ "reply" \in {"idle", "ping", "await", "listen", "reply"}
    BY <1>1, SMTT(60) DEF Dom
<1>3. CASE dom[d].msg + 1 = dom[d].expected
  <2>1. PICK r : dom' = [dom EXCEPT ![d] = r]
                 /\ r = [dom[d] EXCEPT !.at = "idle", !.msg = 0, !.rx = 0]
      BY <1>3 DEF X!Reply
  <2>2. Fields(r, "idle", dom[d].num, 0, dom[d].tx, 0, dom[d].expected)
      BY <1>1, <1>2, <2>1 DEF Fields, Dom
  <2>3. DomIs([dom EXCEPT ![d] = r], dom, d, "idle", dom[d].num, 0, dom[d].tx, 0, dom[d].expected)
      BY <1>1, <2>2, DomPut
  <2> QED BY <1>3, <2>1, <2>3
<1>4. CASE dom[d].msg + 1 # dom[d].expected
  <2>1. PICK r : dom' = [dom EXCEPT ![d] = r] /\ r = [dom[d] EXCEPT !.msg = dom[d].msg + 1]
      BY <1>4 DEF X!Reply
  <2>2. Fields(r, "reply", dom[d].num, dom[d].msg + 1, dom[d].tx, dom[d].rx, dom[d].expected)
      BY <1>1, <1>2, <2>1 DEF Fields, Dom
  <2>3. DomIs([dom EXCEPT ![d] = r], dom, d, "reply", dom[d].num, dom[d].msg + 1, dom[d].tx,
              dom[d].rx, dom[d].expected)
      BY <1>1, <2>2, DomPut
  <2> QED BY <1>4, <2>1, <2>3
<1> QED BY <1>3, <1>4

\* The poll of a data channel: what was there has been received.
LEMMA DataDom ==
    ASSUME XenTypes, NEW d \in X!Domains, X!data_chan_rx_cb(d)
    PROVE  DomIs(dom', dom, d, dom[d].at, dom[d].num, dom[d].msg, dom[d].tx,
                 dom[d].rx + incoming[d][dom[d].cursor], dom[d].expected)
<1>1. /\ dom \in [X!Domains -> Dom] /\ dom[d] \in Dom /\ dom[d].cursor \in X!Channels
      /\ incoming \in [X!Domains -> [X!Channels -> Nat]]
    BY DEF XenTypes, X!data_chan_rx_cb
<1>2. PICK k : k = IF dom[d].cursor = 2 /\ dom[d].again THEN 0 ELSE dom[d].cursor + 1
    OBVIOUS
<1>3. PICK n : n = dom[d].rx + incoming[d][dom[d].cursor]
    OBVIOUS
<1>4. PICK r : dom' = [dom EXCEPT ![d] = r] /\ r = [dom[d] EXCEPT !.rx = n, !.cursor = k]
    BY <1>2, <1>3 DEF X!data_chan_rx_cb
<1>5. n \in Nat
  <2>1. incoming[d][dom[d].cursor] \in Nat
      BY <1>1
  <2>2. dom[d].rx \in Nat
      BY <1>1 DEF Dom
  <2> QED BY <1>3, <2>1, <2>2, SMTT(60)
<1>6. k \in 0..3
  <2>1. dom[d].cursor = 1 \/ dom[d].cursor = 2
      BY <1>1 DEF X!Channels
  <2>2. 0 \in 0..3 /\ 1 + 1 \in 0..3 /\ 2 + 1 \in 0..3
      BY SMTT(60)
  <2> QED BY <1>2, <2>1, <2>2
<1>7. Fields(r, dom[d].at, dom[d].num, dom[d].msg, dom[d].tx, n, dom[d].expected)
    BY <1>1, <1>4, <1>5, <1>6 DEF Fields, Dom
<1>8. DomIs([dom EXCEPT ![d] = r], dom, d, dom[d].at, dom[d].num, dom[d].msg, dom[d].tx, n,
            dom[d].expected)
    BY <1>1, <1>7, DomPut
<1> QED BY <1>3, <1>4, <1>8

\* The poll of the control channel: a new number has been stored.
LEMMA CtrlDom ==
    ASSUME XenTypes, NEW d \in X!Domains, X!ctrl_chan_rx_cb(d)
    PROVE  \E n \in Nat :
              /\ n = IF ctrl[d].unseen THEN ctrl[d].num ELSE dom[d].expected
              /\ DomIs(dom', dom, d, dom[d].at, dom[d].num, dom[d].msg, dom[d].tx, dom[d].rx, n)
<1>1. /\ dom \in [X!Domains -> Dom] /\ dom[d] \in Dom
      /\ ctrl[d] \in [num : Nat, unseen : BOOLEAN]
    BY DEF XenTypes
<1>2. PICK n : n = IF ctrl[d].unseen THEN ctrl[d].num ELSE dom[d].expected
    OBVIOUS
<1>3. PICK b \in BOOLEAN : b = ctrl[d].unseen
    BY <1>1
<1>4. PICK r : dom' = [dom EXCEPT ![d] = r]
               /\ r = [dom[d] EXCEPT !.cursor = 1, !.again = b, !.expected = n]
    BY <1>2, <1>3 DEF X!ctrl_chan_rx_cb
<1>5. n \in Nat
  <2>1. ctrl[d].num \in Nat
      BY <1>1
  <2>2. dom[d].expected \in Nat
      BY <1>1 DEF Dom
  <2> QED BY <1>2, <2>1, <2>2
<1>6. 1 \in 0..3
    BY SMTT(60)
<1>7. Fields(r, dom[d].at, dom[d].num, dom[d].msg, dom[d].tx, dom[d].rx, n)
    BY <1>1, <1>4, <1>5, <1>6 DEF Fields, Dom
<1>8. DomIs([dom EXCEPT ![d] = r], dom, d, dom[d].at, dom[d].num, dom[d].msg, dom[d].tx,
            dom[d].rx, n)
    BY <1>1, <1>7, DomPut
<1> QED BY <1>2, <1>4, <1>5, <1>8

\* The end of a round of polling that is not the last: only the cursor moves.
LEMMA AgainDom ==
    ASSUME XenTypes, NEW d \in X!Domains, X!PollAgain(d)
    PROVE  DomIs(dom', dom, d, dom[d].at, dom[d].num, dom[d].msg, dom[d].tx, dom[d].rx,
                 dom[d].expected)
<1>1. dom \in [X!Domains -> Dom] /\ dom[d] \in Dom
    BY DEF XenTypes
<1>2. PICK r : dom' = [dom EXCEPT ![d] = r] /\ r = [dom[d] EXCEPT !.cursor = 0]
    BY DEF X!PollAgain
<1>3. 0 \in 0..3
    BY SMTT(60)
<1>4. Fields(r, dom[d].at, dom[d].num, dom[d].msg, dom[d].tx, dom[d].rx, dom[d].expected)
    BY <1>1, <1>2, <1>3 DEF Fields, Dom
<1>5. DomIs([dom EXCEPT ![d] = r], dom, d, dom[d].at, dom[d].num, dom[d].msg, dom[d].tx,
            dom[d].rx, dom[d].expected)
    BY <1>1, <1>4, DomPut
<1> QED BY <1>2, <1>5

\* The last one: a reader begins to reply, a writer returns.
LEMMA PolledDom ==
    ASSUME XenTypes, NEW d \in X!Domains, NEW at \in {"reply", "idle"},
           dom' = [dom EXCEPT ![d].at = at, ![d].msg = 0, ![d].cursor = 0]
    PROVE  DomIs(dom', dom, d, at, dom[d].num, 0, dom[d].tx, dom[d].rx, dom[d].expected)
<1>1. dom \in [X!Domains -> Dom] /\ dom[d] \in Dom
    BY DEF XenTypes
<1>2. PICK r : dom' = [dom EXCEPT ![d] = r] /\ r = [dom[d] EXCEPT !.at = at, !.msg = 0, !.cursor = 0]
    OBVIOUS
<1>3. 0 \in 0..3 /\ 0 \in Nat /\ at \in {"idle", "ping", "await", "listen", "reply"}
    BY SMTT(60)
<1>4. Fields(r, at, dom[d].num, 0, dom[d].tx, dom[d].rx, dom[d].expected)
    BY <1>1, <1>2, <1>3 DEF Fields, Dom
<1>5. DomIs([dom EXCEPT ![d] = r], dom, d, at, dom[d].num, 0, dom[d].tx, dom[d].rx,
            dom[d].expected)
    BY <1>1, <1>4, DomPut
<1> QED BY <1>2, <1>5

\* An update of one channel of the messages to domain d.
LEMMA PendingPut ==
    ASSUME XenTypes, NEW d \in X!Domains, NEW c \in X!Channels, NEW n \in Nat,
           incoming' = [incoming EXCEPT ![d][c] = n]
    PROVE  /\ incoming' \in [X!Domains -> [X!Channels -> Nat]]
           /\ Pending(d)' = Pending(d) + n - incoming[d][c]
           /\ incoming[d][c] \in Nat /\ Pending(d) \in Nat /\ incoming[d][c] <= Pending(d)
           /\ \A e \in X!Domains : e # d => incoming'[e] = incoming[e]
<1>1. /\ incoming \in [X!Domains -> [X!Channels -> Nat]]
      /\ incoming[d] \in [X!Channels -> Nat] /\ incoming[d][c] \in Nat
    BY DEF XenTypes
<1>2. incoming' = [incoming EXCEPT ![d] = [incoming[d] EXCEPT ![c] = n]]
    OBVIOUS
<1>3. [incoming[d] EXCEPT ![c] = n] \in [X!Channels -> Nat]
    BY <1>1
<1>4. /\ incoming'[d] = [incoming[d] EXCEPT ![c] = n]
      /\ \A e \in X!Domains : e # d => incoming'[e] = incoming[e]
      /\ incoming' \in [X!Domains -> [X!Channels -> Nat]]
    BY <1>1, <1>2, <1>3
<1>5. incoming[d][1] \in Nat /\ incoming[d][2] \in Nat
    BY <1>1 DEF X!Channels
<1>6. CASE c = 1
  <2>1. incoming'[d][1] = n /\ incoming'[d][2] = incoming[d][2]
      BY <1>1, <1>4, <1>6, SMTT(60) DEF X!Channels
  <2> QED BY <1>1, <1>4, <1>5, <1>6, <2>1, SMTT(60) DEF Pending
<1>7. CASE c = 2
  <2>1. incoming'[d][2] = n /\ incoming'[d][1] = incoming[d][1]
      BY <1>1, <1>4, <1>7, SMTT(60) DEF X!Channels
  <2> QED BY <1>1, <1>4, <1>5, <1>7, <2>1, SMTT(60) DEF Pending
<1> QED BY <1>6, <1>7 DEF X!Channels

LEMMA XenNumbers ==
    ASSUME XenTypes, NEW d \in X!Domains
    PROVE  /\ dom[d].num \in Nat /\ dom[d].msg \in Nat /\ dom[d].tx \in Nat /\ dom[d].rx \in Nat
           /\ dom[d].expected \in Nat /\ ctrl[d].num \in Nat /\ Pending(d) \in Nat
           /\ One(ctrl[d].unseen) \in {0, 1}
<1>1. dom[d] \in Dom /\ ctrl[d] \in [num : Nat, unseen : BOOLEAN]
    BY DEF XenTypes
<1>2. One(ctrl[d].unseen) \in {0, 1} /\ ctrl[d].num \in Nat
    BY <1>1, Flags
<1>3. /\ dom[d].num \in Nat /\ dom[d].msg \in Nat /\ dom[d].tx \in Nat /\ dom[d].rx \in Nat
      /\ dom[d].expected \in Nat
    BY <1>1 DEF Dom
<1>4. Pending(d) \in Nat
    BY SMTT(60) DEF XenTypes, Pending, X!Channels
<1> QED BY <1>2, <1>3, <1>4

\* The numbers that an exchange between w and r is about.
Numbers(w, r) ==
    Counted(dom[w].num, dom[w].msg, dom[w].tx, dom[w].rx, Pending(w), dom[r].tx, dom[r].rx,
            dom[r].expected, dom[r].msg, One(ctrl[r].unseen), ctrl[r].num, Pending(r))

LEMMA PairNumbers == ASSUME XenTypes, NEW w \in X!Domains, NEW r \in X!Domains PROVE Numbers(w, r)
BY XenNumbers DEF Numbers, Counted

\* The calls of the driver are counted when they fail.
LEMMA TxFacts ==
    ASSUME XenTypes, NEW ok \in BOOLEAN, X!Tx(ok)
    PROVE  /\ ok => txErrors' = txErrors
           /\ ~ok => txErrors' \in Nat /\ txErrors' # 0
<1>1. txErrors \in Nat
    BY DEF XenTypes
<1>2. txErrors + 1 \in Nat /\ txErrors + 1 # 0
    BY <1>1, SMTT(60)
<1> QED BY <1>2 DEF X!Tx

\* The memory of the control channels after a control message of domain d.
LEMMA CtrlPut ==
    ASSUME XenTypes, NEW d \in X!Domains, NEW n \in Nat, NEW ok \in BOOLEAN,
           X!send_ctrl_msg(d, n, ok)
    PROVE  /\ ctrl' \in [X!Domains -> [num : Nat, unseen : BOOLEAN]]
           /\ ctrl'[d] = ctrl[d]
           /\ ok => ctrl'[X!Other(d)].num = n /\ ctrl'[X!Other(d)].unseen = TRUE
<1>1. PICK o \in X!Domains : o = X!Other(d) /\ o # d
    BY OtherFacts
<1>2. ctrl \in [X!Domains -> [num : Nat, unseen : BOOLEAN]] /\ ctrl[o].unseen \in BOOLEAN
    BY DEF XenTypes
<1>3. CASE ~ok /\ ctrl' = ctrl
    BY <1>2, <1>3
<1>4. CASE ctrl' = [ctrl EXCEPT ![o] = [num |-> n, unseen |-> ok \/ ctrl[o].unseen]]
  <2>1. PICK u \in BOOLEAN : u = (ok \/ ctrl[o].unseen)
      OBVIOUS
  <2>2. PICK m : m = [num |-> n, unseen |-> u]
      OBVIOUS
  <2>3. m \in [num : Nat, unseen : BOOLEAN] /\ m.num = n /\ m.unseen = u
      BY <2>2
  <2>4. ctrl' = [ctrl EXCEPT ![o] = m]
      BY <1>4, <2>1, <2>2
  <2>5. /\ ctrl' \in [X!Domains -> [num : Nat, unseen : BOOLEAN]] /\ ctrl'[o] = m
        /\ ctrl'[d] = ctrl[d]
      BY <1>1, <1>2, <2>3, <2>4
  <2>6. ok => u = TRUE
      BY <2>1
  <2> QED BY <1>1, <2>3, <2>5, <2>6
<1> QED BY <1>1, <1>3, <1>4 DEF X!send_ctrl_msg

\* A message is added to those that wait for the other domain.
LEMMA XenSend ==
    ASSUME XenTypes, NEW d \in X!Domains, X!send_data_poll(d, TRUE)
    PROVE  /\ incoming' \in [X!Domains -> [X!Channels -> Nat]]
           /\ Pending(X!Other(d))' = Pending(X!Other(d)) + 1 /\ Pending(d)' = Pending(d)
           /\ txErrors' = txErrors
<1>1. PICK o \in X!Domains : o = X!Other(d) /\ o # d
    BY OtherFacts
<1>2. PICK c \in X!Channels : incoming' = [incoming EXCEPT ![o][c] = incoming[o][c] + 1]
  <2>1. dom[d].msg \in Nat
      BY XenNumbers
  <2>2. X!ChannelOf(dom[d].msg) \in X!Channels
      BY <2>1, SMTT(60) DEF X!ChannelOf, X!Channels
  <2> QED BY <1>1, <2>2 DEF X!send_data_poll
<1>3. incoming[o][c] \in Nat
    BY SMTT(60) DEF XenTypes
<1>4. incoming[o][c] + 1 \in Nat
    BY <1>3, SMTT(60)
<1>5. /\ incoming' \in [X!Domains -> [X!Channels -> Nat]]
      /\ Pending(o)' = Pending(o) + (incoming[o][c] + 1) - incoming[o][c]
      /\ Pending(o) \in Nat
      /\ \A e \in X!Domains : e # o => incoming'[e] = incoming[e]
    BY <1>2, <1>4, PendingPut
<1>6. Pending(d)' = Pending(d)
    BY <1>1, <1>5 DEF Pending
<1>7. Pending(o)' = Pending(o) + 1
    BY <1>3, <1>5, SMTT(60)
<1>8. txErrors' = txErrors
    BY TxFacts DEF X!send_data_poll
<1> QED BY <1>1, <1>5, <1>6, <1>7, <1>8

\* To show that a step keeps the invariant, it is enough to look at one pair of a
\* writer and a reader.
LEMMA XenPair ==
    ASSUME XenInv, XenTypes', txErrors' = txErrors,
           \A d \in X!Domains : roles[d] \subseteq roles'[d],
           \A w, r \in X!Domains : /\ r = X!Other(w) /\ w # r
                                   /\ \A e \in X!Domains : e = w \/ e = r
                                   /\ roles'[w] \subseteq {"write"} /\ roles'[r] \subseteq {"read"}
                                   /\ Exchange(w)
                                   => Exchange(w)'
    PROVE  XenInv'
<1> SUFFICES ASSUME NEW w \in X!Domains, Writes(w)' PROVE Exchange(w)'
    BY DEF XenInv
<1>1. PICK r \in X!Domains :
          r = X!Other(w) /\ w # r /\ \A e \in X!Domains : e = w \/ e = r
    BY OtherFacts
<1>2. roles'[w] \subseteq {"write"} /\ roles'[r] \subseteq {"read"}
    BY <1>1 DEF Writes
<1>3. Writes(w)
    BY <1>1, <1>2 DEF Writes
<1>4. Exchange(w)
    BY <1>3 DEF XenInv
<1> QED BY <1>1, <1>2, <1>4

\* After an error nothing is claimed but the types.
LEMMA XenFailed == ASSUME XenTypes', txErrors' # 0 PROVE XenInv'
<1>1. \A w \in X!Domains : ~Writes(w)'
    BY DEF Writes
<1> QED BY <1>1 DEF XenInv

LEMMA XenIdle == XenInv /\ UNCHANGED xen => XenInv'
<1> SUFFICES ASSUME XenInv, UNCHANGED xen PROVE XenInv'
    OBVIOUS
<1>1. /\ dom' = dom /\ incoming' = incoming /\ ctrl' = ctrl /\ roles' = roles
      /\ txErrors' = txErrors
    BY DEF xen
<1> QED BY <1>1 DEF XenInv, XenTypes, Writes, Exchange, Pending

\* The steps, each of the writer or of the reader: from where it is in the call
\* follows which of them it is.
LEMMA XenPing == ASSUME XenInv, NEW d \in X!Domains, X!Ping(d) PROVE XenInv'
<1>0. XenTypes
    BY DEF XenInv
<1>2. dom[d].at = "ping" /\ ctrl' = ctrl /\ roles' = roles /\ X!send_data_poll(d, TRUE)
    BY DEF X!Ping
<1>3. PICK at \in {"ping", "await"} :
          /\ DomIs(dom', dom, d, at, dom[d].num, dom[d].msg + 1, dom[d].tx + 1, dom[d].rx,
                   dom[d].expected)
          /\ at = "await" <=> dom[d].msg + 1 = dom[d].num
    BY <1>0, PingDom
<1>4. /\ incoming' \in [X!Domains -> [X!Channels -> Nat]]
      /\ Pending(X!Other(d))' = Pending(X!Other(d)) + 1 /\ Pending(d)' = Pending(d)
      /\ txErrors' = txErrors
    BY <1>0, <1>2, XenSend
<1>5. XenTypes'
    BY <1>0, <1>2, <1>3, <1>4 DEF XenTypes, DomIs
<1>6. ASSUME NEW w \in X!Domains, NEW r \in X!Domains, r = X!Other(w), w # r,
             \A e \in X!Domains : e = w \/ e = r, Exchange(w)
      PROVE  Exchange(w)'
  <2>1. Exchanged(dom[w].at, dom[w].num, dom[w].msg, dom[w].tx, dom[w].rx, Pending(w),
                  dom[r].at, dom[r].tx, dom[r].rx, dom[r].expected, dom[r].msg,
                  One(ctrl[r].unseen), ctrl[r].num, Pending(r))
      BY <1>6 DEF Exchange
  <2>2. w = d
    <3>1. dom[r].at # "ping"
        BY <2>1 DEF Exchanged
    <3> QED BY <1>2, <1>6, <3>1
  <2>3. /\ dom'[w].at = at /\ dom'[w].num = dom[w].num /\ dom'[w].msg = dom[w].msg + 1
        /\ dom'[w].tx = dom[w].tx + 1 /\ dom'[w].rx = dom[w].rx /\ dom'[r] = dom[r]
      BY <1>3, <1>6, <2>2 DEF DomIs, Fields
  <2>4. Exchanged(at, dom[w].num, dom[w].msg + 1, dom[w].tx + 1, dom[w].rx, Pending(w),
                  dom[r].at, dom[r].tx, dom[r].rx, dom[r].expected, dom[r].msg,
                  One(ctrl[r].unseen), ctrl[r].num, Pending(r) + 1)
    <3>1. Numbers(w, r)
        BY <1>0, PairNumbers
    <3>2. dom[w].at = "ping" /\ (at = "await" <=> dom[w].msg + 1 = dom[w].num)
        BY <1>2, <1>3, <2>2
    <3> QED BY <2>1, <3>1, <3>2, PingCounts DEF Numbers
  <2> QED BY <1>2, <1>4, <1>6, <2>2, <2>3, <2>4 DEF Exchange
<1> QED BY <1>2, <1>4, <1>5, <1>6, XenPair

LEMMA XenReply == ASSUME XenInv, NEW d \in X!Domains, X!Reply(d) PROVE XenInv'
<1>0. XenTypes
    BY DEF XenInv
<1>2. dom[d].at = "reply" /\ ctrl' = ctrl /\ roles' = roles /\ X!send_data_poll(d, TRUE)
    BY DEF X!Reply
<1>3. PICK at \in {"idle", "reply"}, msg \in Nat, rx \in Nat :
          /\ DomIs(dom', dom, d, at, dom[d].num, msg, dom[d].tx, rx, dom[d].expected)
          /\ \/ dom[d].msg + 1 = dom[d].expected /\ at = "idle" /\ msg = 0 /\ rx = 0
             \/ /\ dom[d].msg + 1 # dom[d].expected /\ at = "reply"
                /\ msg = dom[d].msg + 1 /\ rx = dom[d].rx
  <2>1. 0 \in Nat /\ dom[d].msg + 1 \in Nat /\ dom[d].rx \in Nat
    <3>1. dom[d].msg \in Nat /\ dom[d].rx \in Nat
        BY <1>0, XenNumbers
    <3> QED BY <3>1, SMTT(60)
  <2> QED BY <1>0, <2>1, ReplyDom
<1>4. /\ incoming' \in [X!Domains -> [X!Channels -> Nat]]
      /\ Pending(X!Other(d))' = Pending(X!Other(d)) + 1 /\ Pending(d)' = Pending(d)
      /\ txErrors' = txErrors
    BY <1>0, <1>2, XenSend
<1>5. XenTypes'
    BY <1>0, <1>2, <1>3, <1>4 DEF XenTypes, DomIs
<1>6. ASSUME NEW w \in X!Domains, NEW r \in X!Domains, r = X!Other(w), w # r,
             \A e \in X!Domains : e = w \/ e = r, Exchange(w)
      PROVE  Exchange(w)'
  <2>1. Exchanged(dom[w].at, dom[w].num, dom[w].msg, dom[w].tx, dom[w].rx, Pending(w),
                  dom[r].at, dom[r].tx, dom[r].rx, dom[r].expected, dom[r].msg,
                  One(ctrl[r].unseen), ctrl[r].num, Pending(r))
      BY <1>6 DEF Exchange
  <2>2. r = d /\ X!Other(d) = w
    <3>1. dom[w].at # "reply"
        BY <2>1 DEF Exchanged
    <3>2. r = d
        BY <1>2, <1>6, <3>1
    <3> QED BY <1>6, <3>2, OtherFacts
  <2>3. /\ dom'[r].at = at /\ dom'[r].msg = msg /\ dom'[r].tx = dom[r].tx /\ dom'[r].rx = rx
        /\ dom'[r].expected = dom[r].expected /\ dom'[w] = dom[w]
      BY <1>3, <1>6, <2>2 DEF DomIs, Fields
  <2>4. Exchanged(dom[w].at, dom[w].num, dom[w].msg, dom[w].tx, dom[w].rx, Pending(w) + 1,
                  at, dom[r].tx, rx, dom[r].expected, msg,
                  One(ctrl[r].unseen), ctrl[r].num, Pending(r))
    <3>1. Numbers(w, r)
        BY <1>0, PairNumbers
    <3>2. /\ dom[r].at = "reply"
          /\ \/ dom[r].msg + 1 = dom[r].expected /\ at = "idle" /\ msg = 0 /\ rx = 0
             \/ /\ dom[r].msg + 1 # dom[r].expected /\ at = "reply"
                /\ msg = dom[r].msg + 1 /\ rx = dom[r].rx
        BY <1>2, <1>3, <2>2
    <3> QED BY <2>1, <3>1, <3>2, ReplyCounts DEF Numbers
  <2> QED BY <1>2, <1>4, <1>6, <2>2, <2>3, <2>4 DEF Exchange
<1> QED BY <1>2, <1>4, <1>5, <1>6, XenPair

LEMMA XenStore ==
    ASSUME XenInv, NEW d \in X!Domains, NEW n \in 1..XenMsgs, X!ipc_sysfs_store(d, n, TRUE)
    PROVE  XenInv'
<1>0. XenTypes
    BY DEF XenInv
<1>2. PICK o \in X!Domains : o = X!Other(d) /\ o # d
    BY OtherFacts
<1>3. /\ dom[d].at = "idle" /\ incoming' = incoming
      /\ roles' = [roles EXCEPT ![d] = roles[d] \cup {"write"}]
      /\ X!send_ctrl_msg(d, n, TRUE) /\ X!Tx(TRUE)
    BY DEF X!ipc_sysfs_store, X!send_ctrl_msg
<1>n. n \in Nat
    BY SMTT(60)
<1>t. txErrors' = txErrors
    BY <1>0, <1>3, TxFacts
<1>4. DomIs(dom', dom, d, "ping", n, 0, dom[d].tx, dom[d].rx, dom[d].expected)
  <2>1. "ping" = IF TRUE THEN "ping" ELSE "idle"
      OBVIOUS
  <2> QED BY <1>0, <1>n, <2>1, StoreDom
<1>5. /\ roles' \in [X!Domains -> SUBSET {"write", "read"}] /\ "write" \in roles'[d]
      /\ \A e \in X!Domains : roles[e] \subseteq roles'[e]
    BY <1>0, <1>3 DEF XenTypes
<1>6. /\ ctrl' \in [X!Domains -> [num : Nat, unseen : BOOLEAN]]
      /\ ctrl'[o].num = n /\ ctrl'[o].unseen = TRUE
    BY <1>0, <1>2, <1>3, <1>n, CtrlPut
<1>7. XenTypes'
    BY <1>0, <1>3, <1>4, <1>5, <1>6, <1>t DEF XenTypes, DomIs
<1>8. ASSUME NEW w \in X!Domains, NEW r \in X!Domains, r = X!Other(w), w # r,
             \A e \in X!Domains : e = w \/ e = r, roles'[w] \subseteq {"write"},
             roles'[r] \subseteq {"read"}, Exchange(w)
      PROVE  Exchange(w)'
  <2>1. Exchanged(dom[w].at, dom[w].num, dom[w].msg, dom[w].tx, dom[w].rx, Pending(w),
                  dom[r].at, dom[r].tx, dom[r].rx, dom[r].expected, dom[r].msg,
                  One(ctrl[r].unseen), ctrl[r].num, Pending(r))
      BY <1>8 DEF Exchange
  <2>2. w = d /\ r = o
    <3>1. r # d
      <4>1. "write" \notin {"read"}
          OBVIOUS
      <4> QED BY <1>5, <1>8, <4>1
    <3> QED BY <1>2, <1>8, <3>1
  <2>3. /\ dom'[w].at = "ping" /\ dom'[w].num = n /\ dom'[w].msg = 0
        /\ dom'[w].tx = dom[w].tx /\ dom'[w].rx = dom[w].rx /\ dom'[r] = dom[r]
      BY <1>4, <1>8, <2>2 DEF DomIs, Fields
  <2>4. Exchanged("ping", n, 0, dom[w].tx, dom[w].rx, Pending(w),
                  dom[r].at, dom[r].tx, dom[r].rx, dom[r].expected, dom[r].msg,
                  1, n, Pending(r))
    <3>1. Numbers(w, r)
        BY <1>0, PairNumbers
    <3>2. dom[w].at = "idle" /\ n \in 1..XenMsgs
        BY <1>3, <2>2
    <3>3. n \in Nat /\ n > 0
        BY <3>2, SMTT(60)
    <3> QED BY <2>1, <3>1, <3>2, <3>3, StoreCounts DEF Numbers
  <2>5. Pending(w)' = Pending(w) /\ Pending(r)' = Pending(r)
      BY <1>3 DEF Pending
  <2>6. One(ctrl'[r].unseen) = 1 /\ ctrl'[r].num = n
      BY <1>6, <2>2 DEF One
  <2> QED BY <1>8, <2>2, <2>3, <2>4, <2>5, <2>6 DEF Exchange
<1> QED BY <1>5, <1>7, <1>8, <1>t, XenPair

\* A write or a message that fails.
LEMMA XenStoreFails ==
    ASSUME XenInv, NEW d \in X!Domains, NEW n \in 1..XenMsgs, X!ipc_sysfs_store(d, n, FALSE)
    PROVE  XenInv'
<1>0. XenTypes
    BY DEF XenInv
<1>1. n \in Nat
    BY SMTT(60)
<1>2. /\ X!send_ctrl_msg(d, n, FALSE) /\ X!Tx(FALSE) /\ incoming' = incoming
      /\ roles' = [roles EXCEPT ![d] = roles[d] \cup {"write"}]
    BY DEF X!ipc_sysfs_store, X!send_ctrl_msg
<1>3. ctrl' \in [X!Domains -> [num : Nat, unseen : BOOLEAN]]
    BY <1>0, <1>1, <1>2, CtrlPut
<1>4. txErrors' \in Nat /\ txErrors' # 0
    BY <1>0, <1>2, TxFacts
<1>5. dom' \in [X!Domains -> Dom]
  <2>1. "idle" = IF FALSE THEN "ping" ELSE "idle"
      OBVIOUS
  <2> QED BY <1>0, <1>1, <2>1, StoreDom DEF DomIs
<1>6. roles' \in [X!Domains -> SUBSET {"write", "read"}]
    BY <1>0, <1>2 DEF XenTypes
<1>7. XenTypes'
    BY <1>0, <1>2, <1>3, <1>4, <1>5, <1>6 DEF XenTypes
<1> QED BY <1>4, <1>7, XenFailed

LEMMA XenSendFails == ASSUME XenInv, NEW d \in X!Domains, X!SendFails(d) PROVE XenInv'
<1>0. XenTypes
    BY DEF XenInv
<1>1. /\ X!Tx(FALSE) /\ incoming' = incoming /\ ctrl' = ctrl /\ roles' = roles
      /\ dom' = [dom EXCEPT ![d].at = "idle", ![d].msg = 0]
    BY DEF X!SendFails, X!send_data_poll
<1>2. txErrors' \in Nat /\ txErrors' # 0
    BY <1>0, <1>1, TxFacts
<1>3. dom' \in [X!Domains -> Dom]
  <2>1. dom \in [X!Domains -> Dom] /\ dom[d] \in Dom
      BY <1>0 DEF XenTypes
  <2>2. PICK r : dom' = [dom EXCEPT ![d] = r] /\ r = [dom[d] EXCEPT !.at = "idle", !.msg = 0]
      BY <1>1
  <2>3. r \in Dom
    <3>1. 0 \in Nat /\ "idle" \in {"idle", "ping", "await", "listen", "reply"}
        OBVIOUS
    <3> QED BY <2>1, <2>2, <3>1 DEF Dom
  <2> QED BY <2>1, <2>2, <2>3
<1>4. XenTypes'
    BY <1>0, <1>1, <1>2, <1>3 DEF XenTypes
<1> QED BY <1>2, <1>4, XenFailed

LEMMA XenShow == ASSUME XenInv, NEW d \in X!Domains, X!ipc_sysfs_show(d) PROVE XenInv'
<1>0. XenTypes
    BY DEF XenInv
<1>2. /\ dom[d].at = "idle" /\ incoming' = incoming /\ ctrl' = ctrl /\ txErrors' = txErrors
      /\ roles' = [roles EXCEPT ![d] = roles[d] \cup {"read"}]
    BY DEF X!ipc_sysfs_show
<1>3. DomIs(dom', dom, d, "listen", dom[d].num, dom[d].msg, dom[d].tx, 0, 0)
    BY <1>0, ShowDom
<1>4. /\ roles' \in [X!Domains -> SUBSET {"write", "read"}] /\ "read" \in roles'[d]
      /\ \A e \in X!Domains : roles[e] \subseteq roles'[e]
    BY <1>0, <1>2 DEF XenTypes
<1>5. XenTypes'
    BY <1>0, <1>2, <1>3, <1>4 DEF XenTypes, DomIs
<1>6. ASSUME NEW w \in X!Domains, NEW r \in X!Domains, r = X!Other(w), w # r,
             \A e \in X!Domains : e = w \/ e = r, roles'[w] \subseteq {"write"},
             roles'[r] \subseteq {"read"}, Exchange(w)
      PROVE  Exchange(w)'
  <2>1. Exchanged(dom[w].at, dom[w].num, dom[w].msg, dom[w].tx, dom[w].rx, Pending(w),
                  dom[r].at, dom[r].tx, dom[r].rx, dom[r].expected, dom[r].msg,
                  One(ctrl[r].unseen), ctrl[r].num, Pending(r))
      BY <1>6 DEF Exchange
  <2>2. r = d
    <3>1. w # d
        BY <1>4, <1>6
    <3> QED BY <1>6, <3>1
  <2>3. /\ dom'[r].at = "listen" /\ dom'[r].msg = dom[r].msg /\ dom'[r].tx = dom[r].tx
        /\ dom'[r].rx = 0 /\ dom'[r].expected = 0 /\ dom'[w] = dom[w]
      BY <1>3, <1>6, <2>2 DEF DomIs, Fields
  <2>4. Exchanged(dom[w].at, dom[w].num, dom[w].msg, dom[w].tx, dom[w].rx, Pending(w),
                  "listen", dom[r].tx, 0, 0, dom[r].msg,
                  One(ctrl[r].unseen), ctrl[r].num, Pending(r))
    <3>1. Numbers(w, r)
        BY <1>0, PairNumbers
    <3>2. dom[r].at = "idle"
        BY <1>2, <2>2
    <3> QED BY <2>1, <3>1, <3>2 DEF Exchanged, Numbers
  <2> QED BY <1>2, <1>6, <2>3, <2>4 DEF Exchange, Pending
<1> QED BY <1>2, <1>4, <1>5, <1>6, XenPair

\* The callbacks run in either domain; what the writer learns of the reader's
\* control message it does not use.
LEMMA XenCtrl == ASSUME XenInv, NEW d \in X!Domains, X!ctrl_chan_rx_cb(d) PROVE XenInv'
<1>0. XenTypes
    BY DEF XenInv
<1>2. /\ dom[d].at \in {"listen", "await"} /\ incoming' = incoming /\ roles' = roles
      /\ ctrl' = [ctrl EXCEPT ![d].unseen = FALSE] /\ txErrors' = txErrors
    BY DEF X!ctrl_chan_rx_cb, X!Polling
<1>3. PICK n \in Nat :
          /\ n = IF ctrl[d].unseen THEN ctrl[d].num ELSE dom[d].expected
          /\ DomIs(dom', dom, d, dom[d].at, dom[d].num, dom[d].msg, dom[d].tx, dom[d].rx, n)
    BY <1>0, CtrlDom
<1>4. /\ ctrl' \in [X!Domains -> [num : Nat, unseen : BOOLEAN]]
      /\ ctrl'[d].num = ctrl[d].num /\ ctrl'[d].unseen = FALSE
      /\ \A e \in X!Domains : e # d => ctrl'[e] = ctrl[e]
  <2>1. /\ ctrl \in [X!Domains -> [num : Nat, unseen : BOOLEAN]]
        /\ ctrl[d] \in [num : Nat, unseen : BOOLEAN]
      BY <1>0 DEF XenTypes
  <2>2. PICK m : ctrl' = [ctrl EXCEPT ![d] = m] /\ m = [ctrl[d] EXCEPT !.unseen = FALSE]
      BY <1>2
  <2>3. m \in [num : Nat, unseen : BOOLEAN] /\ m.num = ctrl[d].num /\ m.unseen = FALSE
      BY <2>1, <2>2
  <2>4. /\ ctrl' \in [X!Domains -> [num : Nat, unseen : BOOLEAN]] /\ ctrl'[d] = m
        /\ \A e \in X!Domains : e # d => ctrl'[e] = ctrl[e]
      BY <2>1, <2>2, <2>3
  <2> QED BY <2>3, <2>4
<1>5. XenTypes'
    BY <1>0, <1>2, <1>3, <1>4 DEF XenTypes, DomIs
<1>6. ASSUME NEW w \in X!Domains, NEW r \in X!Domains, r = X!Other(w), w # r,
             \A e \in X!Domains : e = w \/ e = r, Exchange(w)
      PROVE  Exchange(w)'
  <2>1. Exchanged(dom[w].at, dom[w].num, dom[w].msg, dom[w].tx, dom[w].rx, Pending(w),
                  dom[r].at, dom[r].tx, dom[r].rx, dom[r].expected, dom[r].msg,
                  One(ctrl[r].unseen), ctrl[r].num, Pending(r))
      BY <1>6 DEF Exchange
  <2>2. Pending(w)' = Pending(w) /\ Pending(r)' = Pending(r)
      BY <1>2 DEF Pending
  <2>3. CASE d = w
    <3>1. /\ dom'[w].at = dom[w].at /\ dom'[w].num = dom[w].num /\ dom'[w].msg = dom[w].msg
          /\ dom'[w].tx = dom[w].tx /\ dom'[w].rx = dom[w].rx /\ dom'[r] = dom[r]
        BY <1>3, <1>6, <2>3 DEF DomIs, Fields
    <3>2. ctrl'[r] = ctrl[r]
        BY <1>4, <1>6, <2>3
    <3> QED BY <1>6, <2>1, <2>2, <3>1, <3>2 DEF Exchange
  <2>4. CASE d = r
    <3>1. /\ dom'[r].at = dom[r].at /\ dom'[r].msg = dom[r].msg /\ dom'[r].tx = dom[r].tx
          /\ dom'[r].rx = dom[r].rx /\ dom'[r].expected = n /\ dom'[w] = dom[w]
        BY <1>3, <1>6, <2>4 DEF DomIs, Fields
    <3>2. One(ctrl'[r].unseen) = 0 /\ ctrl'[r].num = ctrl[r].num
        BY <1>4, <2>4 DEF One
    <3>3. n = IF One(ctrl[r].unseen) = 1 THEN ctrl[r].num ELSE dom[r].expected
      <4>1. ctrl[r].unseen \in BOOLEAN
          BY <1>0 DEF XenTypes
      <4>2. ctrl[r].unseen <=> One(ctrl[r].unseen) = 1
        <5>1. 0 # 1
            BY SMTT(60)
        <5> QED BY <4>1, <5>1 DEF One
      <4> QED BY <1>3, <2>4, <4>2
    <3>4. Exchanged(dom[w].at, dom[w].num, dom[w].msg, dom[w].tx, dom[w].rx, Pending(w),
                    dom[r].at, dom[r].tx, dom[r].rx, n, dom[r].msg,
                    0, ctrl[r].num, Pending(r))
      <4>1. Numbers(w, r)
          BY <1>0, PairNumbers
      <4>2. dom[r].at = "listen"
        <5>1. dom[r].at # "await"
            BY <2>1 DEF Exchanged
        <5> QED BY <1>2, <2>4, <5>1
      <4>3. n \in Nat
          BY <3>3, <4>1 DEF Numbers, Counted
      <4> QED BY <2>1, <3>3, <4>1, <4>2, <4>3, CtrlCounts DEF Numbers
    <3> QED BY <1>6, <2>2, <3>1, <3>2, <3>4 DEF Exchange
  <2> QED BY <1>6, <2>3, <2>4
<1> QED BY <1>2, <1>5, <1>6, XenPair

LEMMA XenData == ASSUME XenInv, NEW d \in X!Domains, X!data_chan_rx_cb(d) PROVE XenInv'
<1>0. XenTypes
    BY DEF XenInv
<1>2. /\ dom[d].at \in {"listen", "await"} /\ dom[d].cursor \in X!Channels
      /\ ctrl' = ctrl /\ roles' = roles /\ incoming' = [incoming EXCEPT ![d][dom[d].cursor] = 0]
      /\ txErrors' = txErrors
    BY DEF X!data_chan_rx_cb, X!Polling
<1>3. PICK k \in Nat :
          /\ DomIs(dom', dom, d, dom[d].at, dom[d].num, dom[d].msg, dom[d].tx, dom[d].rx + k,
                   dom[d].expected)
          /\ incoming' \in [X!Domains -> [X!Channels -> Nat]]
          /\ k <= Pending(d) /\ Pending(d)' = Pending(d) - k
          /\ \A e \in X!Domains : e # d => Pending(e)' = Pending(e)
  <2>1. 0 \in Nat
      OBVIOUS
  <2>2. PICK k \in Nat : k = incoming[d][dom[d].cursor]
      BY <1>0, <1>2, SMTT(60) DEF XenTypes
  <2>3. /\ incoming' \in [X!Domains -> [X!Channels -> Nat]]
        /\ Pending(d)' = Pending(d) + 0 - k /\ Pending(d) \in Nat /\ k <= Pending(d)
        /\ \A e \in X!Domains : e # d => incoming'[e] = incoming[e]
      BY <1>0, <1>2, <2>1, <2>2, PendingPut
  <2>4. Pending(d)' = Pending(d) - k
      BY <2>3, SMTT(60)
  <2>5. \A e \in X!Domains : e # d => Pending(e)' = Pending(e)
      BY <2>3 DEF Pending
  <2>6. DomIs(dom', dom, d, dom[d].at, dom[d].num, dom[d].msg, dom[d].tx, dom[d].rx + k,
              dom[d].expected)
      BY <1>0, <2>2, DataDom
  <2> QED BY <2>3, <2>4, <2>5, <2>6
<1>5. XenTypes'
    BY <1>0, <1>2, <1>3 DEF XenTypes, DomIs
<1>6. ASSUME NEW w \in X!Domains, NEW r \in X!Domains, r = X!Other(w), w # r,
             \A e \in X!Domains : e = w \/ e = r, Exchange(w)
      PROVE  Exchange(w)'
  <2>1. Exchanged(dom[w].at, dom[w].num, dom[w].msg, dom[w].tx, dom[w].rx, Pending(w),
                  dom[r].at, dom[r].tx, dom[r].rx, dom[r].expected, dom[r].msg,
                  One(ctrl[r].unseen), ctrl[r].num, Pending(r))
      BY <1>6 DEF Exchange
  <2>2. Numbers(w, r)
      BY <1>0, PairNumbers
  <2>3. CASE d = w
    <3>1. /\ dom'[w].at = dom[w].at /\ dom'[w].num = dom[w].num /\ dom'[w].msg = dom[w].msg
          /\ dom'[w].tx = dom[w].tx /\ dom'[w].rx = dom[w].rx + k /\ dom'[r] = dom[r]
        BY <1>3, <1>6, <2>3 DEF DomIs, Fields
    <3>2. /\ Pending(w)' = Pending(w) - k /\ Pending(r)' = Pending(r)
          /\ k <= Pending(w)
        BY <1>3, <1>6, <2>3
    <3>3. Exchanged(dom[w].at, dom[w].num, dom[w].msg, dom[w].tx, dom[w].rx + k, Pending(w) - k,
                    dom[r].at, dom[r].tx, dom[r].rx, dom[r].expected, dom[r].msg,
                    One(ctrl[r].unseen), ctrl[r].num, Pending(r))
      <4>1. dom[w].at = "await"
        <5>1. dom[w].at # "listen"
            BY <2>1 DEF Exchanged
        <5> QED BY <1>2, <2>3, <5>1
      <4> QED BY <2>1, <2>2, <3>2, <4>1, WriterCounts DEF Numbers
    <3> QED BY <1>2, <1>6, <3>1, <3>2, <3>3 DEF Exchange
  <2>4. CASE d = r
    <3>1. /\ dom'[r].at = dom[r].at /\ dom'[r].msg = dom[r].msg /\ dom'[r].tx = dom[r].tx
          /\ dom'[r].rx = dom[r].rx + k /\ dom'[r].expected = dom[r].expected /\ dom'[w] = dom[w]
        BY <1>3, <1>6, <2>4 DEF DomIs, Fields
    <3>2. /\ Pending(r)' = Pending(r) - k /\ Pending(w)' = Pending(w)
          /\ k <= Pending(r)
        BY <1>3, <1>6, <2>4
    <3>3. Exchanged(dom[w].at, dom[w].num, dom[w].msg, dom[w].tx, dom[w].rx, Pending(w),
                    dom[r].at, dom[r].tx, dom[r].rx + k, dom[r].expected, dom[r].msg,
                    One(ctrl[r].unseen), ctrl[r].num, Pending(r) - k)
      <4>1. dom[r].at = "listen"
        <5>1. dom[r].at # "await"
            BY <2>1 DEF Exchanged
        <5> QED BY <1>2, <2>4, <5>1
      <4> QED BY <2>1, <2>2, <3>2, <4>1, ReaderCounts DEF Numbers
    <3> QED BY <1>2, <1>6, <3>1, <3>2, <3>3 DEF Exchange
  <2> QED BY <1>6, <2>3, <2>4
<1> QED BY <1>2, <1>5, <1>6, XenPair

\* A poll that does not end the loop changes nothing of what is exchanged.
LEMMA AgainKeeps ==
    ASSUME XenInv, NEW d \in X!Domains, X!PollAgain(d), ctrl' = ctrl, incoming' = incoming,
           roles' = roles, txErrors' = txErrors
    PROVE  XenInv'
<1>0. XenTypes
    BY DEF XenInv
<1>1. DomIs(dom', dom, d, dom[d].at, dom[d].num, dom[d].msg, dom[d].tx, dom[d].rx, dom[d].expected)
    BY <1>0, AgainDom
<1>2. XenTypes'
    BY <1>0, <1>1 DEF XenTypes, DomIs
<1>3. ASSUME NEW w \in X!Domains, NEW r \in X!Domains, r = X!Other(w), w # r, Exchange(w)
      PROVE  Exchange(w)'
  <2>1. \A e \in X!Domains :
            /\ dom'[e].at = dom[e].at /\ dom'[e].num = dom[e].num /\ dom'[e].msg = dom[e].msg
            /\ dom'[e].tx = dom[e].tx /\ dom'[e].rx = dom[e].rx
            /\ dom'[e].expected = dom[e].expected
      BY <1>1 DEF DomIs, Fields
  <2>2. Pending(w)' = Pending(w) /\ Pending(r)' = Pending(r)
      BY DEF Pending
  <2> QED BY <1>3, <2>1, <2>2 DEF Exchange
<1> QED BY <1>2, <1>3, XenPair

LEMMA XenShown == ASSUME XenInv, NEW d \in X!Domains, X!ShowAfterPoll(d) PROVE XenInv'
<1>0. XenTypes
    BY DEF XenInv
<1>2. /\ dom[d].at = "listen" /\ incoming' = incoming /\ roles' = roles
      /\ \/ X!PollAgain(d) /\ ctrl' = ctrl /\ txErrors' = txErrors
         \/ /\ dom[d].rx = dom[d].expected /\ dom[d].expected # 0
            /\ dom' = [dom EXCEPT ![d].at = "reply", ![d].msg = 0, ![d].cursor = 0]
            /\ \E ok \in BOOLEAN : X!send_ctrl_msg(d, dom[d].num, ok)
    BY DEF X!ShowAfterPoll
<1>3. CASE X!PollAgain(d) /\ ctrl' = ctrl /\ txErrors' = txErrors
    BY <1>2, <1>3, AgainKeeps
<1>4. CASE /\ dom[d].rx = dom[d].expected /\ dom[d].expected # 0
           /\ dom' = [dom EXCEPT ![d].at = "reply", ![d].msg = 0, ![d].cursor = 0]
           /\ \E ok \in BOOLEAN : X!send_ctrl_msg(d, dom[d].num, ok)
  <2>k. PICK ok \in BOOLEAN : X!send_ctrl_msg(d, dom[d].num, ok)
      BY <1>4
  <2>1. DomIs(dom', dom, d, "reply", dom[d].num, 0, dom[d].tx, dom[d].rx, dom[d].expected)
    <3>1. "reply" \in {"reply", "idle"}
        OBVIOUS
    <3> QED BY <1>0, <1>4, <3>1, PolledDom
  <2>2. /\ ctrl' \in [X!Domains -> [num : Nat, unseen : BOOLEAN]]
        /\ ctrl'[d] = ctrl[d]
    <3>1. dom[d].num \in Nat
        BY <1>0, XenNumbers
    <3> QED BY <1>0, <2>k, <3>1, CtrlPut
  <2>t. /\ ok => txErrors' = txErrors
        /\ ~ok => txErrors' # 0
        /\ txErrors' \in Nat
    <3>1. X!Tx(ok) /\ txErrors \in Nat
        BY <1>0, <2>k DEF X!send_ctrl_msg, XenTypes
    <3> QED BY <1>0, <3>1, TxFacts
  <2>3. XenTypes'
      BY <1>0, <1>2, <2>1, <2>2, <2>t DEF XenTypes, DomIs
  <2>f. CASE ~ok
      BY <2>3, <2>f, <2>t, XenFailed
  <2>4. ASSUME NEW w \in X!Domains, NEW r \in X!Domains, r = X!Other(w), w # r,
               \A e \in X!Domains : e = w \/ e = r, Exchange(w)
        PROVE  Exchange(w)'
    <3>1. Exchanged(dom[w].at, dom[w].num, dom[w].msg, dom[w].tx, dom[w].rx, Pending(w),
                    dom[r].at, dom[r].tx, dom[r].rx, dom[r].expected, dom[r].msg,
                    One(ctrl[r].unseen), ctrl[r].num, Pending(r))
        BY <2>4 DEF Exchange
    <3>2. r = d
      <4>1. dom[w].at # "listen"
          BY <3>1 DEF Exchanged
      <4> QED BY <1>2, <2>4, <4>1
    <3>3. /\ dom'[r].at = "reply" /\ dom'[r].msg = 0 /\ dom'[r].tx = dom[r].tx
          /\ dom'[r].rx = dom[r].rx /\ dom'[r].expected = dom[r].expected /\ dom'[w] = dom[w]
        BY <2>1, <2>4, <3>2 DEF DomIs, Fields
    <3>4. Exchanged(dom[w].at, dom[w].num, dom[w].msg, dom[w].tx, dom[w].rx, Pending(w),
                    "reply", dom[r].tx, dom[r].rx, dom[r].expected, 0,
                    One(ctrl[r].unseen), ctrl[r].num, Pending(r))
      <4>1. Numbers(w, r)
          BY <1>0, PairNumbers
      <4>2. dom[r].at = "listen" /\ dom[r].rx = dom[r].expected /\ dom[r].expected # 0
          BY <1>2, <1>4, <3>2
      <4> QED BY <3>1, <4>1, <4>2, AllReadCounts DEF Numbers
    <3>5. Pending(w)' = Pending(w) /\ Pending(r)' = Pending(r)
        BY <1>2 DEF Pending
    <3> QED BY <2>2, <2>4, <3>2, <3>3, <3>4, <3>5 DEF Exchange
  <2>o. CASE ok
      BY <1>2, <2>3, <2>4, <2>o, <2>t, XenPair
  <2> QED BY <2>f, <2>o
<1> QED BY <1>2, <1>3, <1>4

LEMMA XenAwaited == ASSUME XenInv, NEW d \in X!Domains, X!DemoAfterPoll(d) PROVE XenInv'
<1>0. XenTypes
    BY DEF XenInv
<1>2. /\ dom[d].at = "await" /\ incoming' = incoming /\ roles' = roles /\ ctrl' = ctrl
      /\ txErrors' = txErrors
      /\ \/ X!PollAgain(d)
         \/ /\ dom[d].tx = dom[d].rx
            /\ dom' = [dom EXCEPT ![d].at = "idle", ![d].msg = 0, ![d].cursor = 0]
    BY DEF X!DemoAfterPoll
<1>3. CASE X!PollAgain(d)
    BY <1>2, <1>3, AgainKeeps
<1>4. CASE /\ dom[d].tx = dom[d].rx
           /\ dom' = [dom EXCEPT ![d].at = "idle", ![d].msg = 0, ![d].cursor = 0]
  <2>1. DomIs(dom', dom, d, "idle", dom[d].num, 0, dom[d].tx, dom[d].rx, dom[d].expected)
    <3>1. "idle" \in {"reply", "idle"}
        OBVIOUS
    <3> QED BY <1>0, <1>4, <3>1, PolledDom
  <2>2. XenTypes'
      BY <1>0, <1>2, <2>1 DEF XenTypes, DomIs
  <2>3. ASSUME NEW w \in X!Domains, NEW r \in X!Domains, r = X!Other(w), w # r,
               \A e \in X!Domains : e = w \/ e = r, Exchange(w)
        PROVE  Exchange(w)'
    <3>1. Exchanged(dom[w].at, dom[w].num, dom[w].msg, dom[w].tx, dom[w].rx, Pending(w),
                    dom[r].at, dom[r].tx, dom[r].rx, dom[r].expected, dom[r].msg,
                    One(ctrl[r].unseen), ctrl[r].num, Pending(r))
        BY <2>3 DEF Exchange
    <3>2. w = d
      <4>1. dom[r].at # "await"
          BY <3>1 DEF Exchanged
      <4> QED BY <1>2, <2>3, <4>1
    <3>3. /\ dom'[w].at = "idle" /\ dom'[w].num = dom[w].num /\ dom'[w].msg = 0
          /\ dom'[w].tx = dom[w].tx /\ dom'[w].rx = dom[w].rx /\ dom'[r] = dom[r]
        BY <2>1, <2>3, <3>2 DEF DomIs, Fields
    <3>4. Exchanged("idle", dom[w].num, 0, dom[w].tx, dom[w].rx, Pending(w),
                    dom[r].at, dom[r].tx, dom[r].rx, dom[r].expected, dom[r].msg,
                    One(ctrl[r].unseen), ctrl[r].num, Pending(r))
      <4>1. Numbers(w, r)
          BY <1>0, PairNumbers
      <4>2. dom[w].at = "await" /\ dom[w].tx = dom[w].rx
          BY <1>2, <1>4, <3>2
      <4> QED BY <3>1, <4>1, <4>2, AllAnsweredCounts DEF Numbers
    <3>5. Pending(w)' = Pending(w) /\ Pending(r)' = Pending(r)
        BY <1>2 DEF Pending
    <3> QED BY <1>2, <2>3, <3>3, <3>4, <3>5 DEF Exchange
  <2> QED BY <1>2, <2>2, <2>3, XenPair
<1> QED BY <1>2, <1>3, <1>4

LEMMA XenNext == XenInv /\ [Next]_vars => XenInv'
<1> SUFFICES ASSUME XenInv, [Next]_vars PROVE XenInv'
    OBVIOUS
<1>1. CASE UNCHANGED xen
    BY <1>1, XenIdle
<1>2. CASE \E d \in X!Domains : X!Write(d) \/ X!ipc_sysfs_show(d)
  <2>1. CASE \E d \in X!Domains : X!Write(d)
    <3>1. PICK d \in X!Domains, n \in 1..XenMsgs, ok \in BOOLEAN : X!ipc_sysfs_store(d, n, ok)
        BY <2>1 DEF X!Write
    <3>2. CASE ok = TRUE
        BY <3>1, <3>2, XenStore
    <3>3. CASE ok = FALSE
        BY <3>1, <3>3, XenStoreFails
    <3> QED BY <3>2, <3>3
  <2> QED BY <1>2, <2>1, XenShow
<1>3. CASE \E d \in X!Domains : X!Ping(d) \/ X!Reply(d) \/ X!SendFails(d)
    BY <1>3, XenPing, XenReply, XenSendFails
<1>4. CASE \E d \in X!Domains : X!ctrl_chan_rx_cb(d) \/ X!data_chan_rx_cb(d)
    BY <1>4, XenCtrl, XenData
<1>5. CASE \E d \in X!Domains : X!ShowAfterPoll(d) \/ X!DemoAfterPoll(d)
    BY <1>5, XenShown, XenAwaited
<1> QED BY <1>1, <1>2, <1>3, <1>4, <1>5 DEF Next, vars, OfWait, OfUser, OfXen

\* The samples of the Xen domains: when one domain writes the file and the other
\* reads it and no call of the driver fails, the reader replies when it has
\* received all that was announced, and the writer returns with all the replies;
\* for any numbers of messages and buffers.
THEOREM RepliesAfterAllHolds == Spec => []RepliesAfterAll
<1>1. Init => XenInv
    BY XenInit DEF Init
<1>2. XenInv => RepliesAfterAll
  <2> SUFFICES ASSUME XenInv, NEW w \in X!Domains, Writes(w), NEW d \in X!Domains
               PROVE  /\ dom[d].at = "reply" /\ dom[d].msg = 0 =>
                            /\ dom[X!Other(d)].at = "await"
                            /\ dom[d].expected = dom[X!Other(d)].num
                            /\ incoming[d] = [c \in X!Channels |-> 0]
                      /\ dom[d].at = "idle" => dom[d].tx = dom[d].rx
      BY DEF RepliesAfterAll, X!RepliesAfterAll, X!Apart, Writes
  <2>1. PICK r \in X!Domains :
            r = X!Other(w) /\ w = X!Other(r) /\ \A e \in X!Domains : e = w \/ e = r
      BY OtherFacts
  <2>2. Exchanged(dom[w].at, dom[w].num, dom[w].msg, dom[w].tx, dom[w].rx, Pending(w),
                  dom[r].at, dom[r].tx, dom[r].rx, dom[r].expected, dom[r].msg,
                  One(ctrl[r].unseen), ctrl[r].num, Pending(r))
      BY <2>1 DEF XenInv, Exchange
  <2>3. /\ dom[w].at # "reply"
        /\ dom[w].at = "idle" => dom[w].tx = dom[w].rx
        /\ dom[r].at = "idle" => dom[r].tx = dom[r].rx
        /\ dom[r].at = "reply" => /\ dom[w].at = "await" /\ dom[r].expected = dom[w].num
                                  /\ Pending(r) = 0
      BY <2>2 DEF Exchanged
  <2>4. Pending(r) = 0 => incoming[r] = [c \in X!Channels |-> 0]
    <3>1. incoming[r] \in [X!Channels -> Nat]
        BY DEF XenInv, XenTypes
    <3> QED BY <3>1, SMTT(60) DEF Pending, X!Channels
  <2>5. CASE d = w
      BY <2>3, <2>5
  <2>6. CASE d = r
      BY <2>1, <2>3, <2>4, <2>6
  <2> QED BY <2>1, <2>5, <2>6
<1> QED BY <1>1, <1>2, XenNext, PTL DEF Spec

-----------------------------------------------------------------------------
(* The kernel sample: the counting, and the theorems *)

LOCAL INSTANCE FiniteSetTheorems

LEMMA CountsHold == Counts
<1>1. IsFiniteSet(Writers)
    BY MCSamplesAssumption DEF W!SampleWaitAssumption, W!IsFiniteSet, IsFiniteSet
<1>2. \A S : W!Cardinality(S) = Cardinality(S)
    BY DEF W!Cardinality, Cardinality
<1> SUFFICES ASSUME NEW S \in SUBSET Writers
    PROVE  /\ Cardinality(S) \in Nat
           /\ S = {} => Cardinality(S) = 0
           /\ \A w \in Writers \ S : Cardinality(S \cup {w}) = Cardinality(S) + 1
           /\ \A w \in S : Cardinality(S \ {w}) = Cardinality(S) - 1
    BY <1>2 DEF Counts
<1>3. IsFiniteSet(S)
    BY <1>1, FS_Subset
<1>4. Cardinality(S) \in Nat
    BY <1>3, FS_CardinalityType
<1>5. S = {} => Cardinality(S) = 0
    BY FS_EmptySet
<1>6. \A w \in Writers \ S : Cardinality(S \cup {w}) = Cardinality(S) + 1
    BY <1>3, FS_AddElement
<1>7. \A w \in S : Cardinality(S \ {w}) = Cardinality(S) - 1
    BY <1>3, FS_RemoveElement
<1> QED BY <1>4, <1>5, <1>6, <1>7

\* The kernel sample: what is signalled or under way is what is waited for, and
\* one for each interrupted wait; for any number of writers and messages.
THEOREM CompletionBalanceHolds == Spec => []CompletionBalance
<1>1. Init => WaitInv
    BY CountsHold, WaitInit DEF Init
<1>2. WaitInv => CompletionBalance
    BY DEF WaitInv, CompletionBalance
<1>3. WaitInv /\ [Next]_vars => WaitInv'
    BY CountsHold, WaitNext
<1> QED BY <1>1, <1>2, <1>3, PTL DEF Spec

\* The kernel sample: data_chan_rx_cb has stored the number run_demo compares.
THEOREM EchoMatchesHolds == Spec => []EchoMatches
<1>1. Init => WaitInv
    BY CountsHold, WaitInit DEF Init
<1>2. WaitInv => EchoMatches
    BY DEF WaitInv, OwnReply, EchoMatches, W!EchoMatches
<1>3. WaitInv /\ [Next]_vars => WaitInv'
    BY CountsHold, WaitNext
<1> QED BY <1>1, <1>2, <1>3, PTL DEF Spec

=============================================================================
