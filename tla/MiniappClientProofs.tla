------------------------- MODULE MiniappClientProofs -------------------------
(***************************************************************************)
(* Proofs about MiniappClient: its type invariant, and that a token the    *)
(* server has refused is not sent again, for any number of calls.          *)
(*                                                                         *)
(* The argument rests on the numbering of tokens: a call carries, and has  *)
(* seen refused, only tokens that were issued, and the storage holds none  *)
(* that any call has seen refused, since a refusal empties it and what is  *)
(* written to it afterwards is newer than every refusal.                   *)
(***************************************************************************)
EXTENDS MiniappClient, TLAPS

Row == [pc : {"idle", "initdata", "waiting", "sent", "answered"} \cup Settled,
        waits : Calls \cup {None}, auth : Tokens \cup {None}, tries : 0 .. 2,
        refused : SUBSET Tokens, aborted : BOOLEAN, list : SUBSET Workspaces]

\* Before its request is out a call has been refused once at most.
Unsent == {"idle", "initdata", "waiting"}

\* A call that knows issued tokens only, when n tokens are issued.
Fine(r, n) ==
  /\ r \in Row
  /\ r.pc \in Unsent => r.tries < 2
  /\ r.refused \subseteq 1 .. n
  /\ r.auth \in 1 .. n \cup {None}

Others ==
  /\ promise \in Calls \cup {None}
  /\ initData \in BOOLEAN
  /\ context \in Workspaces \cup {None} /\ active \in Workspaces \cup {None}
  /\ listed \subseteq Workspaces
  /\ member \subseteq Workspaces

\* No call has seen the token in the storage refused.
StoredIsGood == \A c \in Calls : stored \notin call[c].refused

IInv ==
  /\ issued \in 0 .. MaxTokens
  /\ stored \in 1 .. issued \cup {None}
  /\ call \in [Calls -> Row]
  /\ \A c \in Calls : Fine(call[c], issued)
  /\ StoredIsGood
  /\ Others

NotResent ==
  \A c, d \in Calls : call'[c].tries > call[c].tries
                        => call'[c].auth \notin call'[d].refused

-----------------------------------------------------------------------------
(* The parts of a call *)

\* A call that ends keeps what it has seen refused.
LEMMA EndedFine ==
  ASSUME NEW n \in 0 .. MaxTokens, NEW r, Fine(r, n), NEW pc \in Settled
  PROVE  /\ Fine(Ended(r, pc), n)
         /\ Ended(r, pc).refused = r.refused
         /\ Ended(r, pc).tries = r.tries
PROOF
<1> DEFINE y == Ended(r, pc)
<1>1. /\ r \in Row
      /\ y = [r EXCEPT !.pc = pc, !.waits = None, !.auth = None, !.aborted = FALSE, !.list = {}]
  BY DEF Fine, Ended
<1>2. y \in Row
  BY <1>1 DEF Row
<1>3. /\ y.pc = pc /\ y.refused = r.refused /\ y.tries = r.tries /\ y.auth = None
  BY <1>1 DEF Row
<1>4. pc \notin Unsent
  BY DEF Settled, Unsent
<1> HIDE DEF y
<1>5. Fine(y, n)
  BY <1>2, <1>3, <1>4 DEF Fine
<1> QED BY <1>3, <1>5 DEF y

\* A call that goes out carries the token it was given; one that was aborted
\* does not go out.
LEMMA SentFine ==
  ASSUME NEW n \in 0 .. MaxTokens, NEW r, Fine(r, n), r.tries < 2,
         NEW auth \in 1 .. n \cup {None}
  PROVE  /\ Fine(Sent(r, auth), n)
         /\ Sent(r, auth).refused = r.refused
         /\ Sent(r, auth).tries > r.tries => Sent(r, auth).auth = auth
PROOF
<1>0. r \in Row /\ r.tries \in 0 .. 2
  BY DEF Fine, Row
<1>1. CASE r.aborted
  <2>1. Sent(r, auth) = Ended(r, "failed") /\ "failed" \in Settled
    BY <1>1 DEF Sent, Settled
  <2>2. /\ Fine(Ended(r, "failed"), n)
        /\ Ended(r, "failed").refused = r.refused
        /\ Ended(r, "failed").tries = r.tries
    BY <2>1, EndedFine
  <2> QED BY <1>0, <2>1, <2>2
<1>2. CASE ~r.aborted
  <2> DEFINE y == [r EXCEPT !.pc = "sent", !.waits = None, !.auth = auth, !.tries = @ + 1]
  <2>1. Sent(r, auth) = y
    BY <1>2 DEF Sent
  <2>2. auth \in Tokens \cup {None}
    BY ClientAssumption DEF Tokens
  <2>3. r.tries + 1 \in 0 .. 2
    BY <1>0
  <2>4. y \in Row
    BY <1>0, <2>2, <2>3 DEF Row
  <2>5. y.pc = "sent" /\ y.refused = r.refused /\ y.auth = auth
    BY <1>0 DEF Row
  <2> HIDE DEF y
  <2>6. Fine(y, n)
    BY <2>4, <2>5 DEF Fine, Unsent
  <2> QED BY <2>1, <2>5, <2>6
<1> QED BY <1>1, <1>2

\* A call that looks for a token goes out with the one it found, or waits.
LEMMA EnsuredFine ==
  ASSUME NEW n \in 0 .. MaxTokens, NEW r, Fine(r, n), r.tries < 2,
         NEW token \in 1 .. n \cup {None}, promise \in Calls \cup {None}
  PROVE  /\ Fine(EnsureToken(r, token), n)
         /\ EnsureToken(r, token).refused = r.refused
         /\ EnsureToken(r, token).tries > r.tries =>
              token # None /\ EnsureToken(r, token).auth = token
PROOF
<1>0. r \in Row /\ r.tries \in 0 .. 2
  BY DEF Fine, Row
<1>1. CASE token # None
  <2>1. EnsureToken(r, token) = Sent(r, token)
    BY <1>1 DEF EnsureToken
  <2> QED BY <1>1, <2>1, SentFine
<1>2. CASE token = None /\ promise # None
  <2> DEFINE y == [r EXCEPT !.pc = "waiting", !.waits = promise]
  <2>1. EnsureToken(r, token) = y
    BY <1>2 DEF EnsureToken
  <2>2. y \in Row
    BY <1>0 DEF Row
  <2>3. y.refused = r.refused /\ y.auth = r.auth /\ y.tries = r.tries
    BY <1>0 DEF Row
  <2> HIDE DEF y
  <2>4. Fine(y, n)
    BY <2>2, <2>3 DEF Fine
  <2> QED BY <1>0, <2>1, <2>3, <2>4
<1>3. CASE token = None /\ promise = None
  <2> DEFINE y == [r EXCEPT !.pc = "initdata"]
  <2>1. EnsureToken(r, token) = y
    BY <1>3 DEF EnsureToken
  <2>2. y \in Row
    BY <1>0 DEF Row
  <2>3. y.refused = r.refused /\ y.auth = r.auth /\ y.tries = r.tries
    BY <1>0 DEF Row
  <2> HIDE DEF y
  <2>4. Fine(y, n)
    BY <2>2, <2>3 DEF Fine
  <2> QED BY <1>0, <2>1, <2>3, <2>4
<1> QED BY <1>1, <1>2, <1>3

\* What a refusal adds to a call is the token that it carried.
LEMMA SawFine ==
  ASSUME NEW n \in 0 .. MaxTokens, NEW r, Fine(r, n)
  PROVE  /\ Fine(SawRefusal(r), n)
         /\ SawRefusal(r).tries = r.tries
         /\ SawRefusal(r).refused \subseteq Tokens
PROOF
<1> DEFINE seen == r.refused \cup ({r.auth} \ {None})
           y == [r EXCEPT !.refused = seen]
<1>1. SawRefusal(r) = y
  BY DEF SawRefusal
<1>2. r \in Row /\ seen \subseteq 1 .. n
  BY DEF Fine
<1>3. seen \subseteq Tokens
  BY <1>2, ClientAssumption DEF Tokens
<1> HIDE DEF seen
<1>4. y \in Row
  BY <1>2, <1>3 DEF Row
<1>5. y.refused = seen /\ y.auth = r.auth /\ y.tries = r.tries /\ y.pc = r.pc
  BY <1>2 DEF Row
<1> HIDE DEF y
<1>6. Fine(y, n)
  BY <1>2, <1>4, <1>5 DEF Fine
<1> QED BY <1>1, <1>3, <1>5, <1>6

\* One more token leaves a call fine.
LEMMA FineGrows ==
  ASSUME NEW n \in 0 .. MaxTokens, NEW r, Fine(r, n)
  PROVE  Fine(r, n + 1)
BY DEF Fine

-----------------------------------------------------------------------------
(* Steps *)

\* The two facts every step keeps; the invariant's part about the calls follows.
LEMMA CallsFine ==
  ASSUME IInv, call' \in [Calls -> Row], \A c \in Calls : Fine(call'[c], issued'),
         issued' \in 0 .. MaxTokens, stored' \in 1 .. issued' \cup {None},
         \A c \in Calls : stored' \notin call'[c].refused, Others'
  PROVE  IInv'
BY DEF IInv, StoredIsGood

\* A step of one call that leaves the storage alone or empties it, issues no
\* token, and sends at most the token that was stored.
LEMMA OneCall ==
  ASSUME IInv, NEW c \in Calls, NEW r,
         call' = [call EXCEPT ![c] = r], Fine(r, issued),
         r.refused = call[c].refused \/ stored' = None,
         r.tries > call[c].tries => r.auth = None \/ (r.auth = stored /\ r.refused = call[c].refused),
         stored' \in {stored, None}, issued' = issued, Others'
  PROVE  IInv' /\ NotResent
PROOF
<1>1. r \in Row /\ call \in [Calls -> Row] /\ issued \in 0 .. MaxTokens
  BY DEF IInv, Fine
<1>2. call' \in [Calls -> Row]
  BY <1>1
<1>3. /\ call'[c] = r
      /\ \A d \in Calls \ {c} : call'[d] = call[d]
  BY <1>1
<1>4. \A d \in Calls : Fine(call'[d], issued')
  BY <1>3 DEF IInv
<1>5. \A d \in Calls : None \notin call'[d].refused
  BY <1>4, <1>1, ClientAssumption DEF Fine
<1>6. \A d \in Calls : stored' \notin call'[d].refused
  BY <1>3, <1>5 DEF IInv, StoredIsGood
<1>7. IInv'
  BY <1>1, <1>2, <1>4, <1>6, CallsFine DEF IInv
<1>8. NotResent
  <2> SUFFICES ASSUME NEW e \in Calls, NEW d \in Calls, call'[e].tries > call[e].tries
               PROVE  call'[e].auth \notin call'[d].refused
    BY DEF NotResent
  <2>1. \A x \in Calls : call[x].tries \in 0 .. 2
    BY <1>1 DEF Row
  <2>2. e = c
    BY <1>3, <2>1
  <2>3. CASE r.auth = None
    BY <1>3, <1>5, <2>2, <2>3
  <2>4. CASE r.auth = stored /\ r.refused = call[c].refused
    BY <1>3, <2>2, <2>4 DEF IInv, StoredIsGood
  <2> QED BY <1>3, <2>2, <2>3, <2>4
<1> QED BY <1>7, <1>8

\* A token request of c ends: everyone who waits for it goes on with the token
\* it brought, which is new, or with none.
LEMMA RequestEnds ==
  ASSUME IInv, NEW c \in Calls, NEW auth,
         \/ auth = None /\ issued' = issued
         \/ auth = issued + 1 /\ issued' = issued + 1,
         issued' \in 0 .. MaxTokens, stored' = auth, call' = Resume(c, auth), Others'
  PROVE  IInv' /\ NotResent
PROOF
<1>1. call \in [Calls -> Row] /\ issued \in 0 .. MaxTokens
  BY DEF IInv
<1>2. auth \in 1 .. issued' \cup {None}
  BY <1>1
<1>3. \A d \in Calls : Fine(call[d], issued')
  <2> SUFFICES ASSUME NEW d \in Calls PROVE Fine(call[d], issued')
    OBVIOUS
  <2>1. Fine(call[d], issued)
    BY DEF IInv
  <2> QED BY <1>1, <2>1, FineGrows
<1>4. \A d \in Calls :
        /\ Fine(call'[d], issued')
        /\ call'[d].refused = call[d].refused
        /\ call'[d].tries > call[d].tries => call'[d].auth = auth
  <2> SUFFICES ASSUME NEW d \in Calls
               PROVE  /\ Fine(call'[d], issued')
                      /\ call'[d].refused = call[d].refused
                      /\ call'[d].tries > call[d].tries => call'[d].auth = auth
    OBVIOUS
  <2>1. CASE call[d].pc = "waiting" /\ call[d].waits = c
    <3>1. call'[d] = Sent(call[d], auth)
      BY <2>1 DEF Resume
    <3>2. call[d].tries < 2
      BY <1>3, <2>1 DEF Fine, Unsent
    <3> QED BY <1>2, <1>3, <3>1, <3>2, SentFine
  <2>2. CASE ~(call[d].pc = "waiting" /\ call[d].waits = c)
    <3>1. call'[d] = call[d]
      BY <2>2 DEF Resume
    <3>2. call[d].tries \in 0 .. 2
      BY <1>1 DEF Row
    <3> QED BY <1>3, <3>1, <3>2
  <2> QED BY <2>1, <2>2
<1>5. call' \in [Calls -> Row]
  BY <1>4 DEF Resume, Fine
<1>6. \A d \in Calls : auth \notin call'[d].refused
  <2> SUFFICES ASSUME NEW d \in Calls PROVE auth \notin call[d].refused
    BY <1>4
  <2>1. call[d].refused \subseteq 1 .. issued
    BY DEF IInv, Fine
  <2> QED BY <1>1, <2>1, ClientAssumption
<1>7. IInv'
  BY <1>2, <1>4, <1>5, <1>6, CallsFine
<1>8. NotResent
  BY <1>4, <1>6 DEF NotResent
<1> QED BY <1>7, <1>8

LEMMA InitHolds == Init => IInv
PROOF
<1> SUFFICES ASSUME Init PROVE IInv
  OBVIOUS
<1> DEFINE r == [pc |-> "idle", waits |-> None, auth |-> None, tries |-> 0,
                 refused |-> {}, aborted |-> FALSE, list |-> {}]
<1>1. r \in Row /\ Fine(r, 0)
  BY DEF Row, Fine
<1>2. call = [c \in Calls |-> r] /\ issued = 0 /\ stored = None /\ r.refused = {}
  BY DEF Init
<1> HIDE DEF r
<1>3. call \in [Calls -> Row] /\ \A c \in Calls : Fine(call[c], issued)
  BY <1>1, <1>2
<1>4. StoredIsGood
  BY <1>2 DEF StoredIsGood
<1>5. Others
  BY DEF Init, Others
<1>6. 0 \in 0 .. MaxTokens
  BY ClientAssumption
<1> QED BY <1>2, <1>3, <1>4, <1>5, <1>6 DEF IInv

LEMMA StepHolds == IInv /\ [Next]_vars => IInv' /\ NotResent
PROOF
<1> SUFFICES ASSUME IInv, [Next]_vars PROVE IInv' /\ NotResent
  OBVIOUS
<1> USE DEF clientVars, sessionVars, serverVars
<1>0. /\ call \in [Calls -> Row] /\ issued \in 0 .. MaxTokens /\ Others
      /\ stored \in 1 .. issued \cup {None}
      /\ \A c \in Calls : Fine(call[c], issued) /\ call[c].tries \in 0 .. 2
  BY DEF IInv, Row
<1>1. ASSUME NEW c \in Calls, Start(c) PROVE IInv' /\ NotResent
  <2> DEFINE r == EnsureToken(call[c], stored)
  <2>1. /\ Fine(r, issued) /\ r.refused = call[c].refused
        /\ r.tries > call[c].tries => r.auth = stored
    <3>1. call[c].tries < 2
      BY <1>0, <1>1 DEF Start, Fine, Unsent
    <3> QED BY <1>0, <3>1, EnsuredFine DEF Others
  <2>2. /\ call' = [call EXCEPT ![c] = r] /\ stored' = stored /\ issued' = issued /\ Others'
    BY <1>0, <1>1 DEF Start, Others
  <2> HIDE DEF r
  <2> QED BY <2>1, <2>2, OneCall
<1>2. ASSUME NEW c \in Calls, AskForToken(c) PROVE IInv' /\ NotResent
  <2> DEFINE r == [call[c] EXCEPT !.pc = "waiting", !.waits = c]
  <2>1. call' = [call EXCEPT ![c] = r] /\ stored' = stored /\ issued' = issued /\ Others'
    BY <1>0, <1>2 DEF AskForToken, Others
  <2>2. r \in Row
    BY <1>0 DEF Row
  <2>3. r.refused = call[c].refused /\ r.tries = call[c].tries /\ r.auth = call[c].auth
    BY <1>0 DEF Row
  <2> HIDE DEF r
  <2>4. call[c].tries < 2
    BY <1>0, <1>2 DEF AskForToken, Fine, Unsent
  <2>5. Fine(r, issued)
    BY <1>0, <2>2, <2>3, <2>4 DEF Fine
  <2>6. ~(r.tries > call[c].tries)
    BY <1>0, <2>3
  <2> QED BY <2>1, <2>3, <2>5, <2>6, OneCall
<1>3. ASSUME NEW c \in Calls, NEW pc \in Settled, call' = [call EXCEPT ![c] = Ended(@, pc)],
             UNCHANGED <<stored, issued>>, Others'
      PROVE  IInv' /\ NotResent
  <2> DEFINE r == Ended(call[c], pc)
  <2>1. Fine(r, issued) /\ r.refused = call[c].refused /\ r.tries = call[c].tries
    BY <1>0, EndedFine
  <2>2. call' = [call EXCEPT ![c] = r] /\ stored' = stored /\ issued' = issued
    BY <1>3
  <2> HIDE DEF r
  <2>3. ~(r.tries > call[c].tries)
    BY <1>0, <2>1
  <2> QED BY <1>3, <2>1, <2>2, <2>3, OneCall
<1>4. ASSUME NEW c \in Calls, InitDataTimeout(c) PROVE IInv' /\ NotResent
  <2>1. "failed" \in Settled /\ Others'
    BY <1>0, <1>4 DEF InitDataTimeout, Settled, Others
  <2> QED BY <1>3, <1>4, <2>1 DEF InitDataTimeout
<1>5. ASSUME NEW c \in Calls, TokenIssued(c) PROVE IInv' /\ NotResent
  <2>1. /\ issued' = issued + 1 /\ issued' \in 0 .. MaxTokens /\ stored' = issued + 1
        /\ call' = Resume(c, issued + 1) /\ Others'
    BY <1>0, <1>5, ClientAssumption DEF TokenIssued, Others
  <2> QED BY <2>1, RequestEnds
<1>6. ASSUME NEW c \in Calls, TokenRefused(c) PROVE IInv' /\ NotResent
  <2>1. /\ issued' = issued /\ issued' \in 0 .. MaxTokens /\ stored' = None
        /\ call' = Resume(c, None) /\ Others'
    BY <1>0, <1>6 DEF TokenRefused, Others
  <2> QED BY <2>1, RequestEnds
<1>7. ASSUME NEW c \in Calls, Answered(c) PROVE IInv' /\ NotResent
  <2>0. stored' = stored /\ issued' = issued /\ Others'
    BY <1>0, <1>7 DEF Answered, Others
  <2>1. CASE call' = [call EXCEPT ![c].pc = "answered", ![c].list = member]
    <3> DEFINE r == [call[c] EXCEPT !.pc = "answered", !.list = member]
    <3>1. call' = [call EXCEPT ![c] = r]
      BY <1>0, <2>1
    <3>2. r \in Row
      BY <1>0 DEF Row, Others
    <3>3. /\ r.refused = call[c].refused /\ r.tries = call[c].tries
          /\ r.auth = call[c].auth /\ r.pc = "answered"
      BY <1>0 DEF Row
    <3> HIDE DEF r
    <3>4. Fine(r, issued)
      BY <1>0, <3>2, <3>3 DEF Fine, Unsent
    <3>5. ~(r.tries > call[c].tries)
      BY <1>0, <3>3
    <3> QED BY <2>0, <3>1, <3>3, <3>4, <3>5, OneCall
  <2>2. CASE \E pc \in Settled : call' = [call EXCEPT ![c] = Ended(@, pc)]
    BY <1>3, <2>0, <2>2
  <2> QED BY <1>7, <2>1, <2>2 DEF Answered
<1>8. ASSUME NEW c \in Calls, RefusedOnce(c) PROVE IInv' /\ NotResent
  <2> DEFINE s == SawRefusal(call[c])
             r == EnsureToken(s, None)
  <2>1. Fine(s, issued) /\ s.tries = 1
    BY <1>0, <1>8, SawFine DEF RefusedOnce
  <2>2. call' = [call EXCEPT ![c] = r] /\ stored' = None /\ issued' = issued /\ Others'
    BY <1>0, <1>8 DEF RefusedOnce, Others
  <2>3. call[c].tries = 1
    BY <1>8 DEF RefusedOnce
  <2> HIDE DEF s
  <2>4. Fine(r, issued) /\ ~(r.tries > s.tries)
    <3>1. s.tries < 2 /\ None \in 1 .. issued \cup {None} /\ promise \in Calls \cup {None}
      BY <1>0, <2>1 DEF Others
    <3>2. /\ Fine(EnsureToken(s, None), issued)
          /\ EnsureToken(s, None).tries > s.tries => None # None
      BY <1>0, <2>1, <3>1, EnsuredFine
    <3> QED BY <3>2
  <2> HIDE DEF r
  <2> QED BY <2>1, <2>2, <2>3, <2>4, OneCall
<1>9. ASSUME NEW c \in Calls, RefusedTwice(c) PROVE IInv' /\ NotResent
  <2> DEFINE s == SawRefusal(call[c])
             r == Ended(s, "failed")
  <2>1. Fine(s, issued) /\ s.tries = call[c].tries
    BY <1>0, SawFine
  <2>2. call' = [call EXCEPT ![c] = r] /\ stored' = None /\ issued' = issued /\ Others'
    BY <1>0, <1>9 DEF RefusedTwice, Others
  <2> HIDE DEF s
  <2>3. "failed" \in Settled
    BY DEF Settled
  <2>4. Fine(r, issued) /\ r.tries = s.tries
    BY <1>0, <2>1, <2>3, EndedFine
  <2> HIDE DEF r
  <2>5. ~(r.tries > call[c].tries)
    BY <1>0, <2>1, <2>4
  <2> QED BY <2>2, <2>4, <2>5, OneCall
<1>10. ASSUME NEW c \in Calls, Abort(c) PROVE IInv' /\ NotResent
  <2>0. stored' = stored /\ issued' = issued /\ Others' /\ "failed" \in Settled
    BY <1>0, <1>10 DEF Abort, Others, Settled
  <2>1. CASE call[c].pc = "sent"
    <3>1. call' = [call EXCEPT ![c] = Ended(@, "failed")]
      BY <1>10, <2>1 DEF Abort
    <3> QED BY <1>3, <2>0, <3>1
  <2>2. CASE call[c].pc # "sent"
    <3> DEFINE r == [call[c] EXCEPT !.aborted = TRUE]
    <3>1. call' = [call EXCEPT ![c] = r]
      BY <1>10, <2>2 DEF Abort
    <3>2. r \in Row
      BY <1>0 DEF Row
    <3>3. /\ r.refused = call[c].refused /\ r.tries = call[c].tries
          /\ r.auth = call[c].auth /\ r.pc = call[c].pc
      BY <1>0 DEF Row
    <3> HIDE DEF r
    <3>4. Fine(r, issued)
      BY <1>0, <3>2, <3>3 DEF Fine
    <3>5. ~(r.tries > call[c].tries)
      BY <1>0, <3>3
    <3> QED BY <2>0, <3>1, <3>3, <3>4, <3>5, OneCall
  <2> QED BY <2>1, <2>2
<1>11. ASSUME NEW c \in Calls, SessionArrives(c) PROVE IInv' /\ NotResent
  <2>1. listed' \subseteq Workspaces
    BY <1>0, <1>11 DEF SessionArrives, Row
  <2>2. listed' # {} => Home(listed') \in listed'
    BY DEF Home
  <2>3. Others'
    BY <1>0, <1>11, <2>1, <2>2 DEF SessionArrives, Activate, Others
  <2>4. "done" \in Settled
    BY DEF Settled
  <2> QED BY <1>3, <1>11, <2>3, <2>4 DEF SessionArrives
<1>12. ASSUME UNCHANGED <<stored, call, issued>>, Others' PROVE IInv' /\ NotResent
  <2>1. IInv'
    BY <1>12 DEF IInv, StoredIsGood
  <2>2. \A c \in Calls : ~(call'[c].tries > call[c].tries)
    BY <1>0, <1>12
  <2> QED BY <2>1, <2>2 DEF NotResent
<1>13. CASE InitDataArrives
  BY <1>0, <1>12, <1>13 DEF InitDataArrives, Others
<1>14. ASSUME NEW w \in Workspaces, SwitchWorkspace(w) PROVE IInv' /\ NotResent
  BY <1>0, <1>12, <1>14 DEF SwitchWorkspace, Activate, Others
<1>15. CASE MembershipEnds
  BY <1>0, <1>12, <1>15 DEF MembershipEnds, Others
<1>16. CASE UNCHANGED vars
  BY <1>0, <1>12, <1>16 DEF vars, Others
<1> QED
  BY <1>1, <1>2, <1>4, <1>5, <1>6, <1>7, <1>8, <1>9, <1>10, <1>11, <1>13, <1>14, <1>15, <1>16
     DEF Next

-----------------------------------------------------------------------------
(* Theorems *)

\* The variables keep their types, whatever the number of calls: a call is sent
\* twice at most, and every token it holds or saw refused is one of those issued.
THEOREM TypeCorrect == Spec => []TypeOK
PROOF
<1>1. IInv => TypeOK
  <2> SUFFICES ASSUME IInv PROVE TypeOK
    OBVIOUS
  <2>1. stored \in Tokens \cup {None}
    BY ClientAssumption DEF IInv, Tokens
  <2> QED BY <2>1 DEF IInv, Others, TypeOK, Row
<1> QED BY <1>1, InitHolds, StepHolds, PTL DEF Spec

\* A token that any call has seen refused is not sent again, whatever the number
\* of calls and in whichever order they ask for tokens, join each other's
\* requests and are refused (ensureMiniappToken, the retry of apiRequest).
THEOREM RefusedStaysUnsent == Spec => RefusedTokenNotSent
PROOF
<1>1. IInv /\ [Next]_vars =>
        [\A c, d \in Calls : call'[c].tries > call[c].tries
                                => call'[c].auth \notin call'[d].refused]_vars
  BY StepHolds DEF NotResent
<1> QED BY <1>1, InitHolds, StepHolds, PTL DEF Spec, RefusedTokenNotSent

\* The workspace of the headers and the active one of the session change
\* together.
SameWorkspace == context = active

LEMMA SameStep ==
  ASSUME SameWorkspace, [Next]_vars
  PROVE  /\ SameWorkspace'
         /\ active' # active => \/ \E w \in Workspaces : SwitchWorkspace(w)
                               \/ active \notin listed'
PROOF
<1> USE DEF SameWorkspace
<1>1. CASE UNCHANGED sessionVars
  BY <1>1 DEF sessionVars
<1>2. ASSUME NEW w \in Workspaces, SwitchWorkspace(w) PROVE SameWorkspace'
  BY <1>2 DEF SwitchWorkspace, Activate
<1>3. ASSUME NEW c \in Calls, SessionArrives(c)
      PROVE  SameWorkspace' /\ (active' # active => active \notin listed')
  BY <1>3 DEF SessionArrives, Activate
<1>4. \/ UNCHANGED sessionVars
      \/ \E w \in Workspaces : SwitchWorkspace(w)
      \/ \E c \in Calls : SessionArrives(c)
  BY DEF Next, vars, Start, AskForToken, InitDataTimeout, TokenIssued, TokenRefused,
         Answered, RefusedOnce, RefusedTwice, Abort, InitDataArrives, MembershipEnds
<1> QED BY <1>1, <1>2, <1>3, <1>4

\* An identity that arrives undoes no switch of the workspace, however long ago it
\* was asked for: the active workspace is left by the user, or when the identity no
\* longer lists it (refreshSession, switchWorkspace).
THEOREM SwitchStays == Spec => SwitchIsKept
PROOF
<1>1. Init => SameWorkspace
  BY DEF Init, SameWorkspace
<1>2. SameWorkspace /\ [Next]_vars => SameWorkspace'
  BY SameStep
<1>3. SameWorkspace /\ [Next]_vars =>
        [active' # active => \/ \E w \in Workspaces : SwitchWorkspace(w)
                             \/ active \notin listed']_vars
  BY SameStep
<1> QED BY <1>1, <1>2, <1>3, PTL DEF Spec, SwitchIsKept
=============================================================================
