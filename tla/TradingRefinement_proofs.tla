----------------------- MODULE TradingRefinement_proofs -----------------------
(* TradingService implements OrderAuthority, for every value of the          *)
(* constants that requires confirmation tokens.                              *)
EXTENDS TradingService_proofs, SequenceTheorems

\* A token that can still lead to an order: in the store, or with a thread.
Live(t) == store[t] # None \/ \E r \in Request : Holding(r, t)

(* While nothing is minted and nothing sent, the status of a token changes   *)
(* only with its life, and then from live to withdrawn.                      *)
LEMMA StatusFrame ==
    ASSUME NEW t \in Token, UNCHANGED <<minted, sent>>
    PROVE  /\ (Live(t)' <=> Live(t)) => StatusOf(t)' = StatusOf(t)
           /\ Live(t) /\ ~Live(t)' /\ StatusOf(t)' # StatusOf(t) =>
                StatusOf(t) = "live" /\ StatusOf(t)' = "withdrawn"
BY DEF StatusOf, PlacedBy, Live

(* A step that mints nothing, sends nothing and gives no token new life is a *)
(* withdrawal, of no token at all perhaps.                                   *)
LEMMA WithdrawStep ==
    ASSUME UNCHANGED <<minted, sent>>, \A t \in Token : Live(t)' => Live(t)
    PROVE  Authority!Withdraw
<1>. DEFINE gone == {t \in Token : StatusOf(t)' # StatusOf(t)}
<1>1. \A t \in gone : StatusOf(t) = "live" /\ StatusOf(t)' = "withdrawn"
  BY StatusFrame
<1>2. gone \in SUBSET {u \in Token : [t \in Token |-> StatusOf(t)][u] = "live"}
  BY <1>1
<1>3. [t \in Token |-> StatusOf(t)]' =
        [u \in Token |-> IF u \in gone THEN "withdrawn"
                         ELSE [t \in Token |-> StatusOf(t)][u]]
  BY <1>1
<1>. HIDE DEF gone
<1>. QED
  BY <1>2, <1>3 DEF Authority!Withdraw

LEMMA QuietStep ==
    ASSUME TypeOK, NEW r \in Request, NEW q, Quiet(r, q)
    PROVE  Authority!Withdraw
<1>1. \A s \in Request, t \in Token : Holding(s, t)' => Holding(s, t)
  BY DEF Quiet, Becomes, Holding, TypeOK
<1>. QED
  BY <1>1, WithdrawStep DEF Quiet, Live

LEMMA RedeemStep ==
    ASSUME TypeOK, ThreadInv, NEW r \in Request, RedeemPop(r)
    PROVE  Authority!Withdraw
<1>1. /\ req \in [Request -> RequestState] /\ req[r].pc = "redeem"
      /\ UNCHANGED <<minted, sent>>
  BY DEF TypeOK, RedeemPop
<1>2. /\ req'[r].token = req[r].token
      /\ req'[r].held = Popped(req[r].token)
      /\ \A s \in Request : s # r => req'[s] = req[s]
  BY <1>1 DEF RedeemPop, Becomes, RequestState
<1>3. \A t \in Token : store'[t] # None => store[t] # None
  BY DEF RedeemPop, Pop
<1>4. \A t \in Token : Holding(r, t)' => store[t] # None
  BY <1>2 DEF Holding, Holds, Popped
<1>5. \A s \in Request, t \in Token : s # r => (Holding(s, t)' => Holding(s, t))
  BY <1>2 DEF Holding
<1>6. \A t \in Token : Live(t)' => Live(t)
  BY <1>3, <1>4, <1>5 DEF Live
<1>. QED
  BY <1>1, <1>6, WithdrawStep

LEMMA LimiterStep ==
    ASSUME TypeOK, ThreadInv, NEW r \in Request, TakeQuota(r)
    PROVE  Authority!Withdraw
<1>1. /\ req \in [Request -> RequestState] /\ req[r].pc = "limit"
      /\ UNCHANGED <<minted, sent, store>>
  BY DEF TypeOK, TakeQuota
<1>2. \A t \in Token : Holding(r, t)' => Holding(r, t)
  <2>1. CASE Becomes(r, [req[r] EXCEPT !.pc = "send", !.unit = NextUnit])
    BY <1>1, <2>1 DEF Becomes, Holding, Holds, RequestState
  <2>2. CASE Answer(r, "limit")
    <3>1. req'[r].pc = "answered"
      BY <1>1, <2>2 DEF Answer, Becomes, Idle
    <3>. QED
      BY <3>1 DEF Holding, Holds
  <2>. QED
    BY <2>1, <2>2 DEF TakeQuota
<1>3. \A s \in Request : s # r => req'[s] = req[s]
  BY <1>1 DEF TakeQuota, Answer, Becomes
<1>4. \A t \in Token : Live(t)' => Live(t)
  BY <1>1, <1>2, <1>3 DEF Live, Holding
<1>. QED
  BY <1>1, <1>4, WithdrawStep

LEMMA EnvironmentStep ==
    ASSUME Restart \/ TimePasses \/ PositionCloses
    PROVE  Authority!Withdraw
<1>1. CASE Restart
  <2>1. /\ \A t \in Token : store'[t] = None
        /\ \A s \in Request, t \in Token : ~Holding(s, t)'
        /\ UNCHANGED <<minted, sent>>
    BY <1>1 DEF Restart, EmptyStore, Holding, Holds, Idle
  <2>. QED
    BY <2>1, WithdrawStep DEF Live
<1>2. CASE TimePasses \/ PositionCloses
  <2>1. UNCHANGED <<minted, sent, store, req>>
    BY <1>2 DEF TimePasses, PositionCloses, serviceVars
  <2>. QED
    BY <2>1, WithdrawStep DEF Live, Holding
<1>. QED
  BY <1>1, <1>2

(* A preview grants a fresh token for what it describes, and its sweep may   *)
(* withdraw tokens that have run out.                                        *)
LEMMA IssueStep ==
    ASSUME RequireToken, TypeOK, ThreadInv, TokenInv,
           NEW r \in Request, NEW token \in Token, IssueToken(r, token)
    PROVE  Authority!Grant(token)
<1>1. /\ req \in [Request -> RequestState] /\ StoreTypeOK /\ ClocksTypeOK
      /\ minted \in [Token -> Minted \cup {None}]
      /\ req[r].pc = "issue" /\ minted[token] = None /\ req[r].held = None
      /\ UNCHANGED <<boot, sent>>
  BY DEF TypeOK, IssueToken, ThreadInv, ThreadOK, BeforeRedeem
<1>2. req[r].want \in TokenPayload /\ req[r].want # None
  BY <1>1 DEF ThreadInv, ThreadOK, RequestState
<1>3. \A t \in Token : ~Holding(r, t)'
  <2>1. CASE Becomes(r, [req[r] EXCEPT !.token = token, !.pc = "preview_row"])
    BY <1>1, <2>1 DEF Becomes, Holding, Holds, RequestState
  <2>2. CASE Answer(r, "ok")
    <3>1. req'[r].pc = "answered"
      BY <1>1, <2>2 DEF Answer, Becomes, Idle
    <3>. QED
      BY <3>1 DEF Holding, Holds
  <2>. QED
    BY <2>1, <2>2 DEF IssueToken
<1>4. \A s \in Request : s # r => req'[s] = req[s]
  BY <1>1 DEF IssueToken, Answer, Becomes
<1>5. /\ \A t \in Token : t # token => store'[t] \in {store[t], None}
      /\ store'[token] = [payload |-> req[r].want, issued |-> now]
      /\ store'[token] # None
  <2>1. [payload |-> req[r].want, issued |-> now] \in Entry
    BY <1>1, <1>2 DEF Entry, ClocksTypeOK
  <2>. QED
    BY <1>1, <2>1, EntryAssumption DEF IssueToken, Issue, Swept, StoreTypeOK
<1>6. /\ \A t \in Token : t # token => minted'[t] = minted[t]
      /\ minted'[token] = [payload |-> req[r].want, boot |-> boot]
      /\ minted'[token] # None
  <2>1. [payload |-> req[r].want, boot |-> boot] \in Minted
    BY <1>1, <1>2, ServiceAssumption DEF TypeOK, Minted, RequestState
  <2>. QED
    BY <1>1, <2>1, ServiceAssumption DEF IssueToken
<1>7. \A t \in Token \ {token} : Live(t)' => Live(t)
  BY <1>3, <1>4, <1>5 DEF Live, Holding
<1>8. StatusOf(token) = "unused" /\ StatusOf(token)' = "live"
  <2>1. PlacedBy(token)' = {}
    BY <1>1 DEF TokenInv, OrderMatchesToken, PlacedBy
  <2>. QED
    BY <1>1, <1>5, <1>6, <2>1 DEF StatusOf
<1>9. \A t \in Token \ {token} :
        \/ StatusOf(t)' = StatusOf(t)
        \/ StatusOf(t) = "live" /\ StatusOf(t)' = "withdrawn"
  BY <1>1, <1>6, <1>7 DEF StatusOf, PlacedBy, Live
<1>. DEFINE status == [t \in Token |-> StatusOf(t)]
            runOut == {t \in Token \ {token} : StatusOf(t)' # StatusOf(t)}
<1>10. runOut \in SUBSET {u \in Token : status[u] = "live"}
  BY <1>9
<1>11. status' = [u \in Token |-> IF u = token THEN "live"
                                  ELSE IF u \in runOut THEN "withdrawn"
                                  ELSE status[u]]
  BY <1>8, <1>9
<1>. DEFINE action == [t \in Token |->
                         IF minted[t] = None THEN None ELSE minted[t].payload]
<1>12. action'[token] = req[r].want
  BY <1>6
<1>13. action' = [action EXCEPT ![token] = action'[token]]
  BY <1>6, <1>12
<1>. HIDE DEF runOut
<1>. QED
  BY <1>1, <1>2, <1>8, <1>10, <1>11, <1>12, <1>13 DEF Authority!Grant

(* A function on 1..n is a sequence of length n.                             *)
LEMMA FunctionIsSeq ==
    ASSUME NEW S, NEW n \in Nat, NEW f \in [1..n -> S]
    PROVE  f \in Seq(S) /\ Len(f) = n
OBVIOUS

(* A sequence that is one longer and agrees with s up to there.              *)
LEMMA AppendShape ==
    ASSUME NEW S, NEW s \in Seq(S), NEW e \in S, NEW f \in Seq(S),
           Len(f) = Len(s) + 1, f[Len(s) + 1] = e,
           \A i \in 1..Len(s) : f[i] = s[i]
    PROVE  f = Append(s, e)
<1>1. /\ Append(s, e) \in Seq(S) /\ Len(Append(s, e)) = Len(s) + 1
      /\ \A i \in 1..Len(s) : Append(s, e)[i] = s[i]
      /\ Append(s, e)[Len(s) + 1] = e
  BY AppendProperties
<1>2. \A i \in 1..Len(f) : f[i] = Append(s, e)[i]
  BY <1>1
<1>. QED
  BY <1>1, <1>2, SeqEqual

(* An order places the action its token was granted for: the sender holds    *)
(* the token alone, and it was live until now.                               *)
LEMMA SendStep ==
    ASSUME RequireToken, TypeOK, ThreadInv, TokenInv,
           NEW r \in Request, SendOrder(r)
    PROVE  \E token \in Token : Authority!Place(token)
<1>1. PICK outcome \in Outcome, q \in RequestState :
        /\ sent' = Append(sent, SentBy(r, outcome))
        /\ SentBy(r, outcome) \in Sent
        /\ Becomes(r, q) /\ ThreadOK(q)
        /\ q.order # 0
        /\ BrokerTypeOK' /\ UNCHANGED tradeMode
  BY SendShape
<1>. DEFINE new == SentBy(r, outcome)
            n == Len(sent) + 1
<1>2. /\ req \in [Request -> RequestState] /\ sent \in Seq(Sent)
      /\ req[r].pc = "send" /\ ThreadOK(req[r])
      /\ UNCHANGED <<store, minted>>
  BY DEF TypeOK, SendOrder, ThreadInv
<1>0. PICK token \in Token : token = req[r].token
  BY <1>2 DEF ThreadOK, PastRedeem
<1>3. new.token = token /\ new.payload = req[r].want
  BY <1>0 DEF SentBy
<1>4. /\ DOMAIN sent = 1..Len(sent) /\ Len(sent) \in Nat /\ n = Len(sent) + 1
      /\ DOMAIN sent' = 1..n
      /\ \A i \in DOMAIN sent : sent'[i] = sent[i]
      /\ sent'[n] = new
  <2>. HIDE DEF new
  <2>. QED
    BY <1>1, <1>2 DEF new
<1>5. /\ Holding(r, token)
      /\ req[r].held.payload = req[r].want
  BY <1>0, <1>2 DEF ThreadOK, PastRedeem, Holding, Holds
<1>6. /\ minted[token] # None /\ minted[token].payload = req[r].want
      /\ store[token] = None
      /\ PlacedBy(token) = {}
  BY <1>5 DEF TokenInv, HeldMinted, SentSpent, PlacedBy
<1>7. /\ \A s \in Request : s # r => req'[s] = req[s]
      /\ \A t \in Token : ~Holding(r, t)'
      /\ \A t \in Token : Holding(r, t) => t = token
  BY <1>0, <1>1, <1>2 DEF Becomes, Holding, Holds
<1>. HIDE DEF new, n
<1>8. StatusOf(token) = "live" /\ StatusOf(token)' = "placed"
  <2>1. n \in PlacedBy(token)'
    BY <1>3, <1>4 DEF PlacedBy
  <2>. QED
    BY <1>2, <1>5, <1>6, <2>1 DEF StatusOf
<1>9. \A t \in Token \ {token} : StatusOf(t)' = StatusOf(t)
  <2>1. \A t \in Token \ {token} : PlacedBy(t)' = PlacedBy(t)
    BY <1>3, <1>4 DEF PlacedBy
  <2>2. \A t \in Token \ {token} :
          (\E s \in Request : Holding(s, t)') <=> (\E s \in Request : Holding(s, t))
    BY <1>7 DEF Holding
  <2>. QED
    BY <1>2, <2>1, <2>2 DEF StatusOf
<1>. DEFINE status == [t \in Token |-> StatusOf(t)]
            action == [t \in Token |->
                         IF minted[t] = None THEN None ELSE minted[t].payload]
            placed == [i \in DOMAIN sent |->
                         [token |-> sent[i].token, action |-> sent[i].payload]]
<1>10. status[token] = "live" /\ status' = [status EXCEPT ![token] = "placed"]
  BY <1>5, <1>8, <1>9
<1>11. UNCHANGED action /\ action[token] = req[r].want
  BY <1>2, <1>5, <1>6
<1>12. placed' = Append(placed, [token |-> token, action |-> action[token]])
  <2>. DEFINE last == [token |-> token, action |-> action[token]]
  <2>. DEFINE Placing == [token : Token \cup {None}, action : TokenPayload]
  <2>1. sent' \in Seq(Sent)
    BY <1>1, <1>2
  <2>2. placed \in [1..Len(sent) -> Placing] /\ placed' \in [1..n -> Placing]
    <3>1. /\ \A i \in DOMAIN sent : sent[i] \in Sent
          /\ \A i \in DOMAIN sent' : sent'[i] \in Sent
      BY <1>2, <2>1
    <3>. QED
      BY <1>4, <3>1 DEF Sent
  <2>3. last \in Placing /\ placed'[n] = last
    BY <1>2, <1>3, <1>4, <1>11 DEF ThreadOK, Ordering, RequestState
  <2>4. \A i \in 1..Len(sent) : placed'[i] = placed[i]
    BY <1>4
  <2>. HIDE DEF placed, last, Placing
  <2>5. /\ placed \in Seq(Placing) /\ Len(placed) = Len(sent)
        /\ placed' \in Seq(Placing) /\ Len(placed') = n
    BY <1>4, <2>2, FunctionIsSeq
  <2>6. placed' = Append(placed, last)
    BY <1>4, <2>3, <2>4, <2>5, AppendShape
  <2>. QED
    BY <2>6 DEF last
<1>. HIDE DEF status, action, placed
<1>13. Authority!Place(token)
  BY <1>10, <1>11, <1>12 DEF Authority!Place, status, action, placed
<1>. QED
  BY <1>5, <1>13

LEMMA StepRefines ==
    ASSUME RequireToken, TypeOK, ThreadInv, TokenInv, [Next]_vars
    PROVE  [Authority!Next]_Authority!authorityVars
<1>1. CASE UNCHANGED vars
  <2>1. UNCHANGED <<minted, sent, store, req>>
    BY <1>1 DEF vars, serviceVars
  <2>2. Authority!Withdraw
    BY <2>1, WithdrawStep DEF Live, Holding
  <2>. QED
    BY <2>2 DEF Authority!Next
<1>2. CASE Next
  BY <1>2, StepCases, QuietStep, RedeemStep, LimiterStep, EnvironmentStep,
     IssueStep, SendStep DEF Authority!Next
<1>. QED
  BY <1>1, <1>2

LEMMA InitRefines == Init => Authority!Init
BY DEF Init, Authority!Init, StatusOf

(* With tokens required, every behaviour of the bridge is one of the         *)
(* authority: previews grant, expiry and failed calls and restarts withdraw, *)
(* and an order is placed only on a live token, as granted.                  *)
THEOREM BridgeImplementsAuthority ==
    RequireToken => (Spec => ImplementsOrderAuthority)
<1>. SUFFICES ASSUME RequireToken
              PROVE  Spec => ImplementsOrderAuthority
  OBVIOUS
<1>1. TypeOK /\ ThreadInv /\ TokenInv /\ [Next]_vars
        => [Authority!Next]_Authority!authorityVars
  BY StepRefines
<1>. QED
  BY <1>1, InitRefines, TypeCorrect, TokenInvariant, PTL
  DEF Spec, Authority!Spec, ImplementsOrderAuthority
=============================================================================
