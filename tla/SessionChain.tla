----------------------------- MODULE SessionChain -----------------------------
(****************************************************************************)
(* What the refresh-token store promises, without its table, transactions   *)
(* and clock: a session is a chain of tokens of which at most the last one, *)
(* its tip, is good.  A tip is replaced by a token never seen before or is  *)
(* closed; a session whose tip is closed never has one again.               *)
(****************************************************************************)
CONSTANTS Tokens, NoToken

ASSUME NoTokenAssumption == NoToken \notin Tokens

VARIABLES
  session,  \* the session each token belongs to, NoToken if never minted
  tip       \* the tokens that are good

vars == <<session, tip>>

Minted == {t \in Tokens : session[t] # NoToken}

Init ==
  /\ session = [t \in Tokens |-> NoToken]
  /\ tip = {}

\* A session is named after its first token.
Open(t) ==
  /\ t \in Tokens \ Minted
  /\ session' = [session EXCEPT ![t] = t]
  /\ tip' = tip \cup {t}

\* Mutation: any token of a session can be continued.
AdvanceFromAny(s, t) ==
  /\ s \in Minted
  /\ t \in Tokens \ Minted
  /\ session' = [session EXCEPT ![t] = session[s]]
  /\ tip' = (tip \ {s}) \cup {t}

Advance(s, t) ==
  /\ s \in tip
  /\ t \in Tokens \ Minted
  /\ session' = [session EXCEPT ![t] = session[s]]
  /\ tip' = (tip \ {s}) \cup {t}

Close(S) ==
  /\ S \subseteq tip
  /\ tip' = tip \ S
  /\ UNCHANGED session

Next ==
  \/ \E t \in Tokens : Open(t)
  \/ \E s, t \in Tokens : Advance(s, t)
  \/ \E S \in SUBSET Tokens : Close(S)

Spec == Init /\ [][Next]_vars

------------------------------------------------------------------------------
TypeOK ==
  /\ session \in [Tokens -> Tokens \cup {NoToken}]
  /\ tip \subseteq Minted

\* A session that lost its tip never gets one again.
ClosedForGood ==
  [][\A s \in Tokens :
       (s \in Minted /\ ~\E t \in tip : session[t] = s)
         => ~\E t \in tip' : session'[t] = s]_vars
==============================================================================
