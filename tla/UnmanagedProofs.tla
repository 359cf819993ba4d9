--------------------------- MODULE UnmanagedProofs ---------------------------
(***************************************************************************)
(* Proofs about an unmanaged channel (UnmanagedChannel), for a counter of  *)
(* any width and any number of crashes and releases of either side, when a *)
(* restart may meet a transmission of the peer but neither its reception   *)
(* nor its initialisation.                                                 *)
(***************************************************************************)
EXTENDS UnmanagedChannel, Integers, TLAPS

\* Leaves are for Zenon unless they name another prover.
USE ZenonT(120)

\* Side s has marked its memory and not yet ended its initialisation.
Marked(s) == initPc[s] \in {"probe", "zeroTx", "zeroRx", "syncTx", "syncRx", "done"}

BothUp == \A s \in Side : initPc[s] = "up"

\* The counters tell what the peer of s has not seen of s.
Told(s) == tx_count[s] = (LastSeen(Peer(s)) + unseen[s]) % CountMod

\* A side writes its own sentinel only.
SentinelInv ==
    \A s \in Side : /\ initPc[s] = "up" => sentinel[s] = "DONE"
                    /\ Marked(s) => sentinel[s] = "IN_PROGRESS"

\* Only a side that is up has a call under way, and ipc_channel_rx never meets an
\* initialisation of the peer.
CallInv ==
    \A s \in Side : /\ initPc[s] # "up" => txPc[s] = "idle" /\ rxPc[s] = "idle"
                    /\ Marked(s) => rxPc[Peer(s)] = "idle"
                    /\ txPc[s] = "checked" => unseen[s] < CountMod - 1

\* Until both sides have come up for the first time nothing has been sent.
ColdInv ==
    restarts = 0 /\ ~BothUp =>
        \A s \in Side : /\ sentinel[s] = "DONE" => initPc[s] = "up"
                        /\ txPc[s] = "idle" /\ rxPc[s] = "idle"
                        /\ tx_count[s] = 0 /\ remote_tx_count[s] = 0 /\ unseen[s] = 0

\* After that a side initialises the channel while its peer does not.
AloneInv == restarts > 0 => \A s \in Side : Initialising(s) => ~Initialising(Peer(s))

\* A side that restarts beside a peer that is up takes the counters over, first
\* for what it sends and then for what it receives.
CountInv ==
    \A s \in Side :
        /\ restarts > 0 /\ initPc[Peer(s)] = "up" =>
              /\ initPc[s] \notin {"zeroTx", "zeroRx"}
              /\ initPc[s] \in {"syncRx", "done"} => Told(s)
              /\ initPc[s] = "done" => Told(Peer(s))
        /\ BothUp => Told(s)

IndInv == TypeOK /\ SentinelInv /\ CallInv /\ ColdInv /\ AloneInv /\ CountInv

-----------------------------------------------------------------------------
(* Arithmetic and sides *)

\* A number has one remainder.
LEMMA Remainder ==
    ASSUME NEW q \in Int, NEW r \in 0..(CountMod - 1)
    PROVE  (CountMod * q + r) % CountMod = r
<1> DEFINE M == CountMod
           y == M * q + r
           p == y \div M
           z == y % M
<1>1. M \in Nat /\ M > 1
    BY CountAssumption
<1>2. y \in Int /\ p \in Int /\ z \in 0..(M - 1) /\ y = M * p + z
    BY <1>1, SMTT(60)
<1>3. M * q + r = M * p + z
    BY <1>2
<1> HIDE DEF M, y, p, z
<1>4. M * (q - p) = z - r
  <2>1. M * (q - p) = M * q - M * p
      BY <1>1, <1>2, SMTT(60)
  <2>2. M * q \in Int /\ M * p \in Int
      BY <1>1, <1>2, SMTT(60)
  <2>3. QED
      BY <1>1, <1>2, <1>3, <2>1, <2>2, SMTT(60)
<1>5. z - r < M /\ r - z < M
    BY <1>1, <1>2, SMTT(60) DEF M
<1>6. q = p
  <2>1. ASSUME q - p >= 1 PROVE FALSE
    <3>1. M * (q - p) >= M
        BY <1>1, <1>2, <2>1, SMTT(60)
    <3>2. QED
        BY <1>1, <1>2, <1>4, <1>5, <3>1, SMTT(60)
  <2>2. ASSUME p - q >= 1 PROVE FALSE
    <3>1. M * (p - q) >= M
        BY <1>1, <1>2, <2>2, SMTT(60)
    <3>2. M * (p - q) = r - z
        BY <1>1, <1>2, <1>4, SMTT(60)
    <3>3. QED
        BY <1>1, <1>2, <1>5, <3>1, <3>2, SMTT(60)
  <2>3. QED
      BY <1>2, <2>1, <2>2, SMTT(60)
<1>7. z = r
  <2>1. q - p = 0 /\ M * 0 = 0
      BY <1>1, <1>2, <1>6, SMTT(60)
  <2>2. QED
      BY <1>1, <1>2, <1>4, <2>1, SMTT(60)
<1>8. QED
    BY <1>7 DEF z, y, M

\* Nothing unseen: the counters agree.
LEMMA NoneUnseen ==
    ASSUME NEW x \in 0..(CountMod - 1)
    PROVE  (x + 0) % CountMod = x
<1>1. CountMod * 0 + x = x + 0
    BY CountAssumption, SMTT(60)
<1>2. (CountMod * 0 + x) % CountMod = x
    BY Remainder, SMTT(60)
<1>3. QED
    BY <1>1, <1>2

\* One more transmission, also where the counter wraps around.
LEMMA OneMore ==
    ASSUME NEW x \in Nat
    PROVE  ((x % CountMod) + 1) % CountMod = (x + 1) % CountMod
<1> DEFINE M == CountMod
           q == x \div M
           r == x % M
<1>1. M \in Nat /\ M > 1 /\ q \in Int /\ r \in 0..(M - 1) /\ x = M * q + r
    BY CountAssumption, SMTT(60)
<1>2. M * q \in Int
    BY <1>1, SMTT(60)
<1> HIDE DEF M, q, r
<1>3. CASE r + 1 < M
  <2>1. r + 1 \in 0..(M - 1) /\ x + 1 = M * q + (r + 1) /\ r + 1 = M * 0 + (r + 1)
      BY <1>1, <1>2, <1>3, SMTT(60)
  <2>2. (M * q + (r + 1)) % M = r + 1 /\ (M * 0 + (r + 1)) % M = r + 1
      BY <1>1, <2>1, Remainder, SMTT(60) DEF M
  <2>3. QED
      BY <2>1, <2>2 DEF r, M
<1>4. CASE r + 1 = M
  <2>1. 0 \in 0..(M - 1) /\ q + 1 \in Int /\ 1 \in Int
      BY <1>1, SMTT(60)
  <2>2. x + 1 = M * (q + 1) + 0 /\ r + 1 = M * 1 + 0
    <3>1. M * (q + 1) = M * q + M
        BY <1>1, SMTT(60)
    <3>2. QED
        BY <1>1, <1>2, <1>4, <3>1, SMTT(60)
  <2>3. (M * (q + 1) + 0) % M = 0 /\ (M * 1 + 0) % M = 0
      BY <2>1, Remainder DEF M
  <2>4. QED
      BY <2>2, <2>3 DEF r, M
<1>5. QED
    BY <1>1, <1>3, <1>4, SMTT(60)

LEMMA Sides ==
    ASSUME NEW s \in Side
    PROVE  /\ Peer(s) \in Side /\ Peer(s) # s /\ Peer(Peer(s)) = s
           /\ \A u \in Side : u = s \/ u = Peer(s)
    BY SMTT(60) DEF Side, Peer

-----------------------------------------------------------------------------
(* The steps *)

Step(s) ==
    \/ InitStep(s) \/ CallStep(s)
    \/ FreeBegin(s) \/ Crash(s)
    \/ TxCheck(s) \/ RxCheck(s)

\* The types.
LEMMA TypeStep ==
    ASSUME IndInv, NEW s \in Side, Step(s)
    PROVE  TypeOK'
<1>0. /\ Peer(s) \in Side /\ Peer(s) # s /\ Peer(Peer(s)) = s
      /\ \A u \in Side : u = s \/ u = Peer(s)
    BY Sides
<1> USE DEF IndInv, CallInv, TypeOK, umem, calls
<1>1. CASE InitCheck(s)
    BY <1>0, <1>1, CountAssumption, RestartAssumption DEF InitCheck, Goto
<1>2. CASE InitMark(s)
    BY <1>0, <1>2, CountAssumption, RestartAssumption DEF InitMark, Goto
<1>3. CASE InitProbe(s)
    BY <1>0, <1>3, CountAssumption, RestartAssumption DEF InitProbe, Goto
<1>4. CASE InitZeroTx(s)
    BY <1>0, <1>4, CountAssumption, RestartAssumption, SMTT(60) DEF InitZeroTx, Goto
<1>5. CASE InitZeroRx(s)
    BY <1>0, <1>5, CountAssumption, RestartAssumption, SMTT(60) DEF InitZeroRx, Goto
<1>6. CASE InitSyncTx(s)
    BY <1>0, <1>6, CountAssumption, RestartAssumption, SMTT(60) DEF InitSyncTx, Goto
<1>7. CASE InitSyncRx(s)
    BY <1>0, <1>7, CountAssumption, RestartAssumption, SMTT(60) DEF InitSyncRx, Goto
<1>8. CASE InitDone(s)
    BY <1>0, <1>8, CountAssumption, RestartAssumption DEF InitDone, Goto
<1>9. CASE FreeSentinel(s)
    BY <1>0, <1>9, CountAssumption, RestartAssumption DEF FreeSentinel, Goto
<1>10. CASE FreeTx(s)
    BY <1>0, <1>10, CountAssumption, RestartAssumption, SMTT(60) DEF FreeTx, Goto
<1>11. CASE FreeRx(s)
    BY <1>0, <1>11, CountAssumption, RestartAssumption, SMTT(60) DEF FreeRx, Goto
<1>12. CASE TxBump(s)
    BY <1>0, <1>12, CountAssumption, RestartAssumption, SMTT(60) DEF TxBump
<1>13. CASE RxRead(s)
    BY <1>0, <1>13, CountAssumption, RestartAssumption, SMTT(60) DEF RxRead
<1>14. CASE RxSave(s)
    BY <1>0, <1>14, CountAssumption, RestartAssumption DEF RxSave
<1>15. CASE FreeBegin(s)
    BY <1>0, <1>15, CountAssumption, RestartAssumption, SMTT(60) DEF FreeBegin, Goto
<1>16. CASE Crash(s)
    BY <1>0, <1>16, CountAssumption, RestartAssumption, SMTT(60) DEF Crash
<1>17. CASE TxCheck(s)
    BY <1>0, <1>17, CountAssumption, RestartAssumption DEF TxCheck
<1>18. CASE RxCheck(s)
    BY <1>0, <1>18, CountAssumption, RestartAssumption DEF RxCheck
<1>19. QED
    BY <1>1, <1>2, <1>3, <1>4, <1>5, <1>6, <1>7, <1>8, <1>9, <1>10, <1>11, <1>12, <1>13,
       <1>14, <1>15, <1>16, <1>17, <1>18 DEF Step, InitStep, CallStep

\* A side writes its own sentinel only.
LEMMA SentinelStep ==
    ASSUME IndInv, NEW s \in Side, Step(s)
    PROVE  SentinelInv'
<1>0. /\ Peer(s) \in Side /\ Peer(s) # s /\ Peer(Peer(s)) = s
      /\ \A u \in Side : u = s \/ u = Peer(s)
    BY Sides
<1> USE DEF IndInv, TypeOK, SentinelInv, Marked, umem
<1>1. CASE InitCheck(s)
    BY <1>0, <1>1, SMTT(60) DEF InitCheck, Goto
<1>2. CASE InitMark(s)
    BY <1>0, <1>2 DEF InitMark, Goto
<1>3. CASE InitProbe(s)
    BY <1>0, <1>3 DEF InitProbe, Goto
<1>4. CASE InitZeroTx(s)
    BY <1>0, <1>4 DEF InitZeroTx, Goto
<1>5. CASE InitZeroRx(s)
    BY <1>0, <1>5 DEF InitZeroRx, Goto
<1>6. CASE InitSyncTx(s)
    BY <1>0, <1>6 DEF InitSyncTx, Goto
<1>7. CASE InitSyncRx(s)
    BY <1>0, <1>7 DEF InitSyncRx, Goto
<1>8. CASE InitDone(s)
    BY <1>0, <1>8 DEF InitDone, Goto
<1>9. CASE FreeSentinel(s)
    BY <1>0, <1>9 DEF FreeSentinel, Goto
<1>10. CASE FreeTx(s)
    BY <1>0, <1>10 DEF FreeTx, Goto
<1>11. CASE FreeRx(s)
    BY <1>0, <1>11 DEF FreeRx, Goto
<1>12. CASE TxBump(s)
    BY <1>0, <1>12 DEF TxBump
<1>13. CASE RxRead(s)
    BY <1>0, <1>13 DEF RxRead
<1>14. CASE RxSave(s)
    BY <1>0, <1>14 DEF RxSave
<1>15. CASE FreeBegin(s)
    BY <1>0, <1>15 DEF FreeBegin, Goto
<1>16. CASE Crash(s)
    BY <1>0, <1>16 DEF Crash
<1>17. CASE TxCheck(s)
    BY <1>0, <1>17 DEF TxCheck
<1>18. CASE RxCheck(s)
    BY <1>0, <1>18 DEF RxCheck
<1>19. QED
    BY <1>1, <1>2, <1>3, <1>4, <1>5, <1>6, <1>7, <1>8, <1>9, <1>10, <1>11, <1>12, <1>13,
       <1>14, <1>15, <1>16, <1>17, <1>18 DEF Step, InitStep, CallStep

\* The second side waits.
LEMMA AloneStep ==
    ASSUME IndInv, Overlap \subseteq {"tx"}, NEW s \in Side, Step(s)
    PROVE  AloneInv'
<1>0. /\ Peer(s) \in Side /\ Peer(s) # s /\ Peer(Peer(s)) = s
      /\ \A u \in Side : u = s \/ u = Peer(s)
    BY Sides
<1> USE DEF IndInv, TypeOK, AloneInv, Initialising, umem
<1>1. CASE InitCheck(s)
    BY <1>0, <1>1, SMTT(60) DEF InitCheck, Goto
<1>2. CASE InitMark(s)
    BY <1>0, <1>2 DEF InitMark, Goto
<1>3. CASE InitProbe(s)
    BY <1>0, <1>3, SMTT(60) DEF InitProbe, Goto
<1>4. CASE InitZeroTx(s)
    BY <1>0, <1>4 DEF InitZeroTx, Goto
<1>5. CASE InitZeroRx(s)
    BY <1>0, <1>5 DEF InitZeroRx, Goto
<1>6. CASE InitSyncTx(s)
    BY <1>0, <1>6 DEF InitSyncTx, Goto
<1>7. CASE InitSyncRx(s)
    BY <1>0, <1>7 DEF InitSyncRx, Goto
<1>8. CASE InitDone(s)
    BY <1>0, <1>8 DEF InitDone, Goto
<1>9. CASE FreeSentinel(s)
    BY <1>0, <1>9, SMTT(60) DEF FreeSentinel, Goto
<1>10. CASE FreeTx(s)
    BY <1>0, <1>10, SMTT(60) DEF FreeTx, Goto
<1>11. CASE FreeRx(s)
    BY <1>0, <1>11, SMTT(60) DEF FreeRx, Goto
<1>12. CASE TxBump(s)
    BY <1>0, <1>12 DEF TxBump
<1>13. CASE RxRead(s)
    BY <1>0, <1>13 DEF RxRead
<1>14. CASE RxSave(s)
    BY <1>0, <1>14 DEF RxSave
<1>15. CASE FreeBegin(s)
    BY <1>0, <1>15, SMTT(60) DEF FreeBegin, Goto
<1>16. CASE Crash(s)
    BY <1>0, <1>16 DEF Crash
<1>17. CASE TxCheck(s)
    BY <1>0, <1>17 DEF TxCheck
<1>18. CASE RxCheck(s)
    BY <1>0, <1>18 DEF RxCheck
<1>19. QED
    BY <1>1, <1>2, <1>3, <1>4, <1>5, <1>6, <1>7, <1>8, <1>9, <1>10, <1>11, <1>12, <1>13,
       <1>14, <1>15, <1>16, <1>17, <1>18 DEF Step, InitStep, CallStep

\* Calls and initialisations.
LEMMA CallStepInv ==
    ASSUME IndInv, Overlap \subseteq {"tx"}, NEW s \in Side, Step(s)
    PROVE  CallInv'
<1>0. /\ Peer(s) \in Side /\ Peer(s) # s /\ Peer(Peer(s)) = s
      /\ \A u \in Side : u = s \/ u = Peer(s)
    BY Sides
<1> USE DEF IndInv, TypeOK, SentinelInv, CallInv, ColdInv, BothUp, Marked, MayCall, Integrity,
        PeerQuiet, umem, calls
<1>1. CASE InitCheck(s)
    BY <1>0, <1>1, CountAssumption, SMTT(60) DEF InitCheck, Goto
<1>2. CASE InitMark(s)
    BY <1>0, <1>2, CountAssumption, SMTT(60) DEF InitMark, Goto
<1>3. CASE InitProbe(s)
    BY <1>0, <1>3, CountAssumption, SMTT(60) DEF InitProbe, Goto
<1>4. CASE InitZeroTx(s)
    BY <1>0, <1>4, CountAssumption, SMTT(60) DEF InitZeroTx, Goto
<1>5. CASE InitZeroRx(s)
    BY <1>0, <1>5, CountAssumption, SMTT(60) DEF InitZeroRx, Goto
<1>6. CASE InitSyncTx(s)
    BY <1>0, <1>6, CountAssumption, SMTT(60) DEF InitSyncTx, Goto
<1>7. CASE InitSyncRx(s)
    BY <1>0, <1>7, CountAssumption, SMTT(60) DEF InitSyncRx, Goto
<1>8. CASE InitDone(s)
    BY <1>0, <1>8, CountAssumption, SMTT(60) DEF InitDone, Goto
<1>9. CASE FreeSentinel(s)
    BY <1>0, <1>9, CountAssumption, SMTT(60) DEF FreeSentinel, Goto
<1>10. CASE FreeTx(s)
    BY <1>0, <1>10, CountAssumption DEF FreeTx, Goto
<1>11. CASE FreeRx(s)
    BY <1>0, <1>11, CountAssumption DEF FreeRx, Goto
<1>12. CASE TxBump(s)
    BY <1>0, <1>12, CountAssumption, SMTT(60) DEF TxBump
<1>13. CASE RxRead(s)
    BY <1>0, <1>13, CountAssumption, SMTT(60) DEF RxRead
<1>14. CASE RxSave(s)
    BY <1>0, <1>14, CountAssumption DEF RxSave
<1>15. CASE FreeBegin(s)
    BY <1>0, <1>15, CountAssumption DEF FreeBegin, Goto
<1>16. CASE Crash(s)
    BY <1>0, <1>16, CountAssumption, SMTT(60) DEF Crash
<1>17. CASE TxCheck(s)
    BY <1>0, <1>17, CountAssumption, SMTT(60) DEF TxCheck
<1>18. CASE RxCheck(s)
    BY <1>0, <1>18, CountAssumption, SMTT(60) DEF RxCheck
<1>19. QED
    BY <1>1, <1>2, <1>3, <1>4, <1>5, <1>6, <1>7, <1>8, <1>9, <1>10, <1>11, <1>12, <1>13,
       <1>14, <1>15, <1>16, <1>17, <1>18 DEF Step, InitStep, CallStep

\* Before both sides are up.
LEMMA ColdStep ==
    ASSUME IndInv, NEW s \in Side, Step(s)
    PROVE  ColdInv'
<1>0. /\ Peer(s) \in Side /\ Peer(s) # s /\ Peer(Peer(s)) = s
      /\ \A u \in Side : u = s \/ u = Peer(s)
    BY Sides
<1> USE DEF IndInv, TypeOK, SentinelInv, CallInv, ColdInv, BothUp, Marked, MayCall, Integrity,
        umem, calls
<1>1. CASE InitCheck(s)
    BY <1>0, <1>1, CountAssumption, SMTT(60) DEF InitCheck, Goto
<1>2. CASE InitMark(s)
    BY <1>0, <1>2, CountAssumption, SMTT(60) DEF InitMark, Goto
<1>3. CASE InitProbe(s)
    BY <1>0, <1>3, CountAssumption, SMTT(60) DEF InitProbe, Goto
<1>4. CASE InitZeroTx(s)
    BY <1>0, <1>4, CountAssumption, SMTT(60) DEF InitZeroTx, Goto
<1>5. CASE InitZeroRx(s)
    BY <1>0, <1>5, CountAssumption, SMTT(60) DEF InitZeroRx, Goto
<1>6. CASE InitSyncTx(s)
    BY <1>0, <1>6, CountAssumption, SMTT(60) DEF InitSyncTx, Goto
<1>7. CASE InitSyncRx(s)
    BY <1>0, <1>7, CountAssumption, SMTT(60) DEF InitSyncRx, Goto
<1>8. CASE InitDone(s)
    BY <1>0, <1>8, CountAssumption, SMTT(60) DEF InitDone, Goto
<1>9. CASE FreeSentinel(s)
    BY <1>0, <1>9, CountAssumption, SMTT(60) DEF FreeSentinel, Goto
<1>10. CASE FreeTx(s)
    BY <1>0, <1>10, CountAssumption, SMTT(60) DEF FreeTx, Goto
<1>11. CASE FreeRx(s)
    BY <1>0, <1>11, CountAssumption, SMTT(60) DEF FreeRx, Goto
<1>12. CASE TxBump(s)
    BY <1>0, <1>12, CountAssumption DEF TxBump
<1>13. CASE RxRead(s)
    BY <1>0, <1>13, CountAssumption DEF RxRead
<1>14. CASE RxSave(s)
    BY <1>0, <1>14, CountAssumption DEF RxSave
<1>15. CASE FreeBegin(s)
    BY <1>0, <1>15, CountAssumption, SMTT(60) DEF FreeBegin, Goto
<1>16. CASE Crash(s)
    BY <1>0, <1>16, CountAssumption, SMTT(60) DEF Crash
<1>17. CASE TxCheck(s)
    BY <1>0, <1>17, CountAssumption DEF TxCheck
<1>18. CASE RxCheck(s)
    BY <1>0, <1>18, CountAssumption DEF RxCheck
<1>19. QED
    BY <1>1, <1>2, <1>3, <1>4, <1>5, <1>6, <1>7, <1>8, <1>9, <1>10, <1>11, <1>12, <1>13,
       <1>14, <1>15, <1>16, <1>17, <1>18 DEF Step, InitStep, CallStep

\* The counters.
LEMMA CountStep ==
    ASSUME IndInv, NEW s \in Side, Step(s)
    PROVE  CountInv'
<1>0. /\ Peer(s) \in Side /\ Peer(s) # s /\ Peer(Peer(s)) = s
      /\ \A u \in Side : u = s \/ u = Peer(s)
    BY Sides
<1>1. CASE InitCheck(s)
    BY <1>0, <1>1, SMTT(60) DEF IndInv, TypeOK, CountInv, BothUp, InitCheck, Goto
<1>2. CASE InitMark(s)
    BY <1>0, <1>2, SMTT(60) DEF IndInv, TypeOK, CountInv, BothUp, InitMark, Goto
<1>3. CASE InitProbe(s)
    BY <1>0, <1>3, SMTT(60) DEF IndInv, TypeOK, SentinelInv, CountInv, BothUp, InitProbe,
       Goto
<1>4. CASE InitZeroTx(s)
    BY <1>0, <1>4, SMTT(60) DEF IndInv, TypeOK, CountInv, BothUp, InitZeroTx, Goto
<1>5. CASE InitZeroRx(s)
    BY <1>0, <1>5, SMTT(60) DEF IndInv, TypeOK, CountInv, BothUp, InitZeroRx, Goto
<1>6. CASE InitSyncTx(s)
  <2>1. initPc'[s] = "syncRx" /\ \A u \in Side \ {s} : initPc'[u] = initPc[u]
      BY <1>6 DEF InitSyncTx, Goto, IndInv, TypeOK
  <2>2. rxPc[Peer(s)] = "idle"
      BY <1>6 DEF InitSyncTx, Goto, IndInv, CallInv, Marked
  <2>3. Told(s)'
    <3>1. /\ tx_count'[s] = remote_tx_count[Peer(s)] /\ unseen'[s] = 0
          /\ remote_tx_count[Peer(s)] \in 0..(CountMod - 1)
          /\ LastSeen(Peer(s))' = remote_tx_count[Peer(s)]
        BY <1>0, <2>2, <1>6 DEF InitSyncTx, IndInv, TypeOK, LastSeen, calls
    <3>2. QED
        BY <3>1, NoneUnseen DEF Told
  <2>4. QED
      BY <1>0, <2>1, <2>3 DEF CountInv, BothUp
<1>7. CASE InitSyncRx(s)
  <2>1. initPc'[s] = "done" /\ \A u \in Side \ {s} : initPc'[u] = initPc[u]
      BY <1>7 DEF InitSyncRx, Goto, IndInv, TypeOK
  <2>2. rxPc[Peer(s)] = "idle" /\ rxPc[s] = "idle"
      BY <1>0, <1>7 DEF InitSyncRx, Goto, IndInv, CallInv, Marked
  <2>3. Told(Peer(s))'
    <3>1. /\ tx_count'[Peer(s)] = tx_count[Peer(s)] /\ unseen'[Peer(s)] = 0
          /\ tx_count[Peer(s)] \in 0..(CountMod - 1)
          /\ LastSeen(s)' = tx_count[Peer(s)]
        BY <1>0, <2>2, <1>7 DEF InitSyncRx, IndInv, TypeOK, LastSeen, calls
    <3>2. QED
        BY <1>0, <3>1, NoneUnseen DEF Told
  <2>4. Told(s)' <=> Told(s)
    <3>1. /\ tx_count'[s] = tx_count[s] /\ unseen'[s] = unseen[s]
          /\ LastSeen(Peer(s))' = LastSeen(Peer(s))
        BY <1>0, <2>2, <1>7 DEF InitSyncRx, IndInv, TypeOK, LastSeen, calls
    <3>2. QED
        BY <3>1 DEF Told
  <2>5. restarts > 0 /\ initPc[Peer(s)] = "up" => Told(s)
      BY <1>7 DEF InitSyncRx, Goto, IndInv, CountInv
  <2>6. restarts' = restarts
      BY <1>7 DEF InitSyncRx
  <2>7. QED
      BY <1>0, <2>1, <2>3, <2>4, <2>5, <2>6 DEF CountInv, BothUp
<1>8. CASE InitDone(s)
  <2>1. /\ initPc[s] = "done" /\ initPc'[s] = "up"
        /\ \A u \in Side \ {s} : initPc'[u] = initPc[u]
      BY <1>8 DEF InitDone, Goto, IndInv, TypeOK
  <2>2. \A u \in Side : Told(u)' <=> Told(u)
      BY <1>8 DEF InitDone, Told, LastSeen, calls
  <2>3. initPc[Peer(s)] = "up" => Told(s) /\ Told(Peer(s))
    <3>1. CASE restarts > 0
        BY <2>1, <3>1 DEF IndInv, CountInv
    <3>2. CASE restarts = 0
      <4>1. \A u \in Side : tx_count[u] = 0 /\ LastSeen(u) = 0 /\ unseen[u] = 0
          BY <2>1, <3>2 DEF IndInv, ColdInv, BothUp, LastSeen
      <4>2. (0 + 0) % CountMod = 0
          BY NoneUnseen, CountAssumption, SMTT(60)
      <4>3. QED
          BY <1>0, <4>1, <4>2 DEF Told
    <3>3. QED
        BY <3>1, <3>2, SMTT(60) DEF IndInv, TypeOK
  <2>4. restarts > 0 => initPc[Peer(s)] \notin {"zeroTx", "zeroRx", "syncRx", "done"}
      BY <1>0, <2>1 DEF IndInv, AloneInv, Initialising
  <2>5. restarts' = restarts
      BY <1>8 DEF InitDone
  <2>6. QED
      BY <1>0, <2>1, <2>2, <2>3, <2>4, <2>5 DEF CountInv, BothUp
<1>9. CASE FreeSentinel(s)
    BY <1>0, <1>9, SMTT(60) DEF IndInv, TypeOK, CountInv, BothUp, FreeSentinel, Goto
<1>10. CASE FreeTx(s)
    BY <1>0, <1>10, SMTT(60) DEF IndInv, TypeOK, CountInv, BothUp, FreeTx, Goto
<1>11. CASE FreeRx(s)
    BY <1>0, <1>11, SMTT(60) DEF IndInv, TypeOK, CountInv, BothUp, FreeRx, Goto
<1>12. CASE TxBump(s)
  <2>1. initPc[s] = "up" /\ UNCHANGED <<initPc, restarts>>
      BY <1>12 DEF TxBump, IndInv, CallInv
  <2>2. Told(s) => Told(s)'
    <3>1. /\ tx_count'[s] = (tx_count[s] + 1) % CountMod /\ unseen'[s] = unseen[s] + 1
          /\ LastSeen(Peer(s))' = LastSeen(Peer(s))
        BY <1>0, <1>12 DEF TxBump, IndInv, TypeOK, LastSeen
    <3>2. LastSeen(Peer(s)) \in Nat /\ unseen[s] \in Nat
        BY <1>0, CountAssumption, SMTT(60) DEF IndInv, TypeOK, LastSeen
    <3> DEFINE x == LastSeen(Peer(s)) + unseen[s]
    <3>3. x \in Nat /\ LastSeen(Peer(s)) + (unseen[s] + 1) = x + 1
        BY <3>2, SMTT(60)
    <3>4. ((x % CountMod) + 1) % CountMod = (x + 1) % CountMod
        BY <3>3, OneMore
    <3>5. QED
        BY <3>1, <3>3, <3>4 DEF Told
  <2>3. Told(Peer(s))' <=> Told(Peer(s))
      BY <1>0, <1>12 DEF TxBump, IndInv, TypeOK, Told, LastSeen
  <2>4. QED
      BY <1>0, <2>1, <2>2, <2>3 DEF IndInv, CountInv, BothUp
<1>13. CASE RxRead(s)
  <2>1. initPc[s] = "up" /\ ~Marked(Peer(s)) /\ UNCHANGED <<initPc, restarts>>
      BY <1>0, <1>13 DEF RxRead, IndInv, CallInv
  <2>2. Told(s)' <=> Told(s)
      BY <1>0, <1>13 DEF RxRead, IndInv, TypeOK, Told, LastSeen, umem
  <2>3. Told(Peer(s)) => Told(Peer(s))'
    <3>1. CASE tx_count[Peer(s)] # remote_tx_count[s]
      <4>1. /\ tx_count'[Peer(s)] = tx_count[Peer(s)] /\ unseen'[Peer(s)] = 0
            /\ tx_count[Peer(s)] \in 0..(CountMod - 1)
            /\ LastSeen(s)' = tx_count[Peer(s)]
          BY <1>0, <3>1, <1>13 DEF RxRead, IndInv, TypeOK, LastSeen, umem
      <4>2. QED
          BY <1>0, <4>1, NoneUnseen DEF Told
    <3>2. CASE tx_count[Peer(s)] = remote_tx_count[s]
        BY <1>0, <3>2, <1>13 DEF RxRead, IndInv, TypeOK, Told, LastSeen, umem
    <3>3. QED
        BY <3>1, <3>2
  <2>4. QED
      BY <1>0, <2>1, <2>2, <2>3 DEF IndInv, CountInv, BothUp, Marked
<1>14. CASE RxSave(s)
  <2>1. initPc[s] = "up" /\ ~Marked(Peer(s)) /\ UNCHANGED <<initPc, restarts>>
      BY <1>0, <1>14 DEF RxSave, IndInv, CallInv
  <2>2. Told(s)' <=> Told(s)
      BY <1>0, <1>14 DEF RxSave, IndInv, TypeOK, Told, LastSeen
  <2>3. Told(Peer(s))' <=> Told(Peer(s))
      BY <1>0, <1>14 DEF RxSave, IndInv, TypeOK, Told, LastSeen
  <2>4. QED
      BY <1>0, <2>1, <2>2, <2>3 DEF IndInv, CountInv, BothUp, Marked
<1>15. CASE FreeBegin(s)
    BY <1>0, <1>15, SMTT(60) DEF IndInv, TypeOK, CountInv, BothUp, FreeBegin, Goto
<1>16. CASE Crash(s)
    BY <1>0, <1>16, SMTT(60) DEF IndInv, TypeOK, CountInv, BothUp, Crash
<1>17. CASE TxCheck(s)
  <2>1. UNCHANGED <<initPc, restarts>> /\ \A u \in Side : Told(u)' <=> Told(u)
      BY <1>17 DEF TxCheck, Told, LastSeen, umem
  <2>2. QED
      BY <1>0, <2>1 DEF IndInv, CountInv, BothUp
<1>18. CASE RxCheck(s)
  <2>1. UNCHANGED <<initPc, restarts>>
      BY <1>18 DEF RxCheck
  <2>2. Told(s)' <=> Told(s)
      BY <1>0, <1>18 DEF RxCheck, IndInv, TypeOK, Told, LastSeen, umem
  <2>3. Told(Peer(s))' <=> Told(Peer(s))
      BY <1>0, <1>18 DEF RxCheck, IndInv, TypeOK, Told, LastSeen, umem
  <2>4. QED
      BY <1>0, <2>1, <2>2, <2>3 DEF IndInv, CountInv, BothUp
<1>19. QED
    BY <1>1, <1>2, <1>3, <1>4, <1>5, <1>6, <1>7, <1>8, <1>9, <1>10, <1>11, <1>12, <1>13,
       <1>14, <1>15, <1>16, <1>17, <1>18 DEF Step, InitStep, CallStep

-----------------------------------------------------------------------------
(* The theorem *)

LEMMA Starts == Init => IndInv
<1> SUFFICES ASSUME Init PROVE IndInv
    OBVIOUS
<1>1. TypeOK
    BY CountAssumption, RestartAssumption, SMTT(60) DEF Init, TypeOK
<1>2. SentinelInv /\ CallInv /\ ColdInv /\ AloneInv
    BY CountAssumption, Sides DEF Init, SentinelInv, CallInv, ColdInv, AloneInv, Marked,
       Initialising
<1>3. CountInv
    BY Sides DEF Init, CountInv, BothUp, Side
<1>4. QED
    BY <1>1, <1>2, <1>3 DEF IndInv

LEMMA Steps ==
    ASSUME Overlap \subseteq {"tx"}
    PROVE  IndInv /\ [Next]_vars => IndInv'
<1> SUFFICES ASSUME IndInv, [Next]_vars PROVE IndInv'
    OBVIOUS
<1>1. CASE UNCHANGED vars
    BY <1>1, SMTT(60) DEF vars, umem, calls, IndInv, TypeOK, SentinelInv, CallInv,
       ColdInv, AloneInv,
       CountInv, Marked, Initialising, BothUp, Told, LastSeen
<1>2. CASE Next
  <2>1. PICK s \in Side : Step(s)
      BY <1>2 DEF Next, Step
  <2>2. QED
      BY <2>1, TypeStep, SentinelStep, CallStepInv, ColdStep, AloneStep,
         CountStep DEF IndInv
<1>3. QED
    BY <1>1, <1>2

\* Between two sides that are up the counters of ipc_shm_unmanaged_tx and
\* ipc_channel_rx are as far apart as there were transmissions the receiver has
\* not seen, whatever the width of the counters, however often either side was
\* freed or crashed, and wherever a crash came, when unmanaged_channel_init meets
\* no reception and no initialisation of the peer.
THEOREM Counts ==
    ASSUME Overlap \subseteq {"tx"}
    PROVE  Spec => []CountsUnseen
<1>1. Init => IndInv
    BY Starts
<1>2. IndInv /\ [Next]_vars => IndInv'
    BY Steps
<1>3. IndInv => CountsUnseen
    BY DEF IndInv, CountInv, BothUp, CountsUnseen, Told
<1>4. QED
    BY <1>1, <1>2, <1>3, PTL DEF Spec
=============================================================================
