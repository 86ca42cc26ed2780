-------------------------- MODULE AuthConsentProofs --------------------------
(***************************************************************************)
(* Theorems about AuthConsent: a grant is authorized only by an approval   *)
(* of its own overlay (by whom, the code does not know), no late approval  *)
(* counts, a closed window keeps no authorization and the GUI thread never *)
(* waits for itself, for any windows, domains, clients, requests, bound    *)
(* and whoever may answer an overlay.                                      *)
(***************************************************************************)
EXTENDS AuthConsent, SequenceTheorems, TLAPS

Others == <<open, grants, tokens, byTarget, overlay, click, approvals>>

\* The grants whose overlay was approved, by the user or by another.
Approved == {x.grant : x \in approvals}

(* What a thread holds, by the place it is at. *)

\* A window's own grant is shown in that window.
Fits(grant) == grant \in Grant /\ (grant.target \in Windows => grant.window = grant.target)

ClientHolds(s, toks) ==
  /\ s \in ActorState /\ s.pc \in ClientPcs
  /\ s.pc \in {"request", "lookup", "compare", "window", "store", "link", "show", "focus"}
       => Fits(s.grant)
  /\ s.pc \in {"present", "deny", "revoke"} => s.target \in Targets
  /\ s.pc \in {"remove", "unlink"} =>
       \/ s.then = "window" /\ Fits(s.grant)
       \/ s.then = "deny" /\ s.target \in Targets
  /\ s.pc \in {"link", "show", "focus"} =>
       s.token \in DOMAIN toks /\ toks[s.token].grant = s.grant

\* The answer to an overlay is being carried out.
Deciding(s) == s.pc = "decide" \/ (s.pc \in {"remove", "unlink"} /\ s.then = "decide")

\* A token of a closed window is being cancelled.
Cancelling(s) ==
  s.pc \in {"deny token", "dispose"} \/ (s.pc \in {"remove", "unlink"} /\ s.then = "deny token")

GuiHolds(s, toks, shown, approved) ==
  /\ s \in ActorState /\ s.pc \in GuiPcs \ {"stuck"}
  /\ s.pc # "idle" => s.window \in Windows
  /\ s.pc \in {"remove", "unlink"} => s.then \in {"decide", "deny token"}
  /\ Deciding(s) => /\ s.token \in DOMAIN toks
                    /\ toks[s.token].grant.window \in shown
                    /\ s.approve => toks[s.token].grant \in approved
  /\ s.pc = "cancel" \/ Cancelling(s) => s.todo \subseteq DOMAIN toks
  /\ Cancelling(s) => s.token \in DOMAIN toks
  /\ Cancelling(s) /\ s.pc # "remove" => ~toks[s.token].live

ActorsHold ==
  /\ DOMAIN actor = Actors /\ actor = [a \in Actors |-> actor[a]]
  /\ \A c \in Clients : ClientHolds(actor[c], tokens)
  /\ GuiHolds(actor[Gui], tokens, open, Approved)

\* What is authorized was approved in an overlay of its own.
AllApproved == \A t \in Targets : Decided(t, "authorized") => grants[t].grant \in Approved

GrantsHold ==
  /\ grants \in [Targets -> {None} \cup [grant: Grant, decision: Decision]]
  /\ \A t \in Targets : grants[t] # None => grants[t].grant.target = t /\ Fits(grants[t].grant)
  /\ AllApproved

TokensHold ==
  /\ tokens \in Seq([grant: Grant, live: BOOLEAN])
  /\ \A k \in DOMAIN tokens : Fits(tokens[k].grant)

LinksHold ==
  /\ byTarget \in [Targets -> 0..Len(tokens)]
  /\ \A t \in Targets : byTarget[t] # 0 => tokens[byTarget[t]].grant.target = t

OverlaysHold ==
  /\ overlay \in [Windows -> 0..Len(tokens)]
  /\ \A w \in Windows : overlay[w] # 0 => w \in open /\ tokens[overlay[w]].grant.window = w

ClicksHold ==
  /\ click \in [Windows -> {None} \cup [token: 1..Len(tokens), approve: BOOLEAN]]
  /\ \A w \in Windows : click[w] # None /\ click[w].approve
                          => tokens[click[w].token].grant \in Approved

\* A token keeps its grant, and once it is gone it stays gone.
Keeps == \A k \in DOMAIN tokens :
  /\ k \in DOMAIN tokens' /\ tokens'[k].grant = tokens[k].grant
  /\ ~tokens[k].live => ~tokens'[k].live

\* The inductive invariant.
ConsentInv ==
  /\ open \subseteq Windows /\ approvals \subseteq [grant: Grant, by: Approvers]
  /\ ActorsHold /\ GrantsHold /\ TokensHold /\ LinksHold /\ OverlaysHold /\ ClicksHold
  /\ ClosedIsNotAuthorized

USE ConsentAssumption

LEMMA ApprovedKept == UNCHANGED approvals => Approved' = Approved
  BY DEF Approved

LEMMA ApprovedGrows == approvals \subseteq approvals' => Approved \subseteq Approved'
  BY DEF Approved

USE ApprovedKept

-----------------------------------------------------------------------------
(* A client that only moves on. *)
LEMMA ClientMoves ==
  ASSUME ConsentInv, UNCHANGED Others,
         NEW c \in Clients, NEW s, ClientHolds(s, tokens), actor' = [actor EXCEPT ![c] = s]
  PROVE  ConsentInv'
<1>1. Gui \in Actors /\ c # Gui /\ actor'[Gui] = actor[Gui]
  BY DEF ConsentInv, ActorsHold, Actors
<1>2. ActorsHold'
  BY <1>1 DEF ConsentInv, ActorsHold, Actors, ClientHolds, GuiHolds, Deciding, Cancelling, Others
<1>3. ClosedIsNotAuthorized'
  BY <1>1 DEF ConsentInv, ClosedIsNotAuthorized, Decided, At, Others
<1> QED
  BY <1>2, <1>3 DEF ConsentInv, GrantsHold, AllApproved, Decided, TokensHold, LinksHold,
     OverlaysHold, ClicksHold, Others

LEMMA GuiMoves ==
  ASSUME ConsentInv, UNCHANGED Others,
         NEW s, GuiHolds(s, tokens, open, Approved), actor' = [actor EXCEPT ![Gui] = s],
         actor[Gui].pc # "revoke window"
  PROVE  ConsentInv'
<1>1. Gui \in Actors /\ actor'[Gui] = s /\ \A c \in Clients : actor'[c] = actor[c]
  BY DEF ConsentInv, ActorsHold, Actors
<1>2. ActorsHold'
  BY <1>1 DEF ConsentInv, ActorsHold, Actors, ClientHolds, GuiHolds, Deciding, Cancelling, Others
<1>3. ClosedIsNotAuthorized'
  BY <1>1 DEF ConsentInv, ClosedIsNotAuthorized, Decided, At, Others
<1> QED
  BY <1>2, <1>3 DEF ConsentInv, GrantsHold, AllApproved, Decided, TokensHold, LinksHold,
     OverlaysHold, ClicksHold, Others

LEMMA Initially == Init => ConsentInv
<1> SUFFICES ASSUME Init PROVE ConsentInv
  OBVIOUS
<1>1. Idle \in ActorState
  BY DEF Idle, ActorState, ClientPcs
<1>2. \A a \in Actors : actor[a] = Idle
  BY DEF Init
<1>3. ActorsHold
  BY <1>1, <1>2 DEF Init, ActorsHold, ClientHolds, GuiHolds, Deciding, Cancelling, Idle, Actors,
     ClientPcs, GuiPcs
<1>4. GrantsHold /\ LinksHold /\ OverlaysHold /\ ClicksHold
  BY DEF Init, GrantsHold, AllApproved, Decided, LinksHold, OverlaysHold, ClicksHold
<1>5. TokensHold
  BY DEF Init, TokensHold
<1> QED
  BY <1>3, <1>4, <1>5 DEF Init, ConsentInv, ClosedIsNotAuthorized

-----------------------------------------------------------------------------
(* Steps that only move a client *)

\* The states a client goes on to, by what they hold.
LEMMA ClientStates ==
  /\ ClientHolds(Idle, tokens)
  /\ \A pc \in {"request", "lookup"}, grant \in Grant :
       Fits(grant) => ClientHolds([Idle EXCEPT !.pc = pc, !.grant = grant], tokens)
  /\ \A pc \in {"present", "deny", "revoke"}, target \in Targets :
       ClientHolds([Idle EXCEPT !.pc = pc, !.target = target], tokens)
<1>1. Idle \in ActorState /\ Idle.pc = "idle"
  BY DEF Idle, ActorState, ClientPcs
<1>2. ClientHolds(Idle, tokens)
  BY <1>1 DEF ClientHolds, ClientPcs
<1>3. ASSUME NEW pc \in {"request", "lookup"}, NEW grant \in Grant, Fits(grant)
      PROVE  ClientHolds([Idle EXCEPT !.pc = pc, !.grant = grant], tokens)
  BY <1>1, <1>3 DEF ClientHolds, ActorState, ClientPcs
<1>4. ASSUME NEW pc \in {"present", "deny", "revoke"}, NEW target \in Targets
      PROVE  ClientHolds([Idle EXCEPT !.pc = pc, !.target = target], tokens)
  BY <1>1 DEF ClientHolds, ActorState, ClientPcs
<1> QED
  BY <1>2, <1>3, <1>4

LEMMA BeginRequestStep ==
  ASSUME ConsentInv, NEW c \in Clients, BeginRequest(c) PROVE ConsentInv'
<1>1. PICK grant \in Requests :
        actor' = [actor EXCEPT ![c] = [Idle EXCEPT !.pc = "request", !.grant = grant]]
  BY DEF BeginRequest
<1>2. grant \in Grant /\ Fits(grant)
  BY DEF Fits
<1> QED
  BY <1>1, <1>2, ClientStates, ClientMoves DEF BeginRequest, Others

LEMMA PresentStep ==
  ASSUME ConsentInv, NEW c \in Clients, Present(c) PROVE ConsentInv'
<1>1. ClientHolds(actor[c], tokens) /\ actor[c].pc = "present" /\ actor[c].target \in Targets
  BY DEF Present, At, ConsentInv, ActorsHold, ClientHolds
<1>2. CASE Decided(actor[c].target, "pending")
  <2>1. grants[actor[c].target].grant \in Grant /\ Fits(grants[actor[c].target].grant)
    BY <1>1, <1>2 DEF ConsentInv, GrantsHold, Decided, Fits
  <2> QED
    BY <1>2, <2>1, ClientStates, ClientMoves DEF Present, Others
<1>3. CASE ~Decided(actor[c].target, "pending")
  <2>1. ClientHolds([actor[c] EXCEPT !.pc = "deny"], tokens)
    BY <1>1 DEF ClientHolds, ActorState, ClientPcs
  <2> QED
    BY <1>3, <2>1, ClientMoves DEF Present, Goto, Others
<1> QED
  BY <1>2, <1>3

LEMMA LookupStep ==
  ASSUME ConsentInv, NEW c \in Clients, Lookup(c) PROVE ConsentInv'
<1> DEFINE token == byTarget[actor[c].grant.target]
           s == [actor[c] EXCEPT !.pc = IF token = 0 THEN "window" ELSE "compare",
                                 !.token = token]
<1>1. ClientHolds(actor[c], tokens) /\ actor[c].pc = "lookup" /\ Fits(actor[c].grant)
  BY DEF Lookup, At, ConsentInv, ActorsHold, ClientHolds
<1>2. token \in Nat
  BY <1>1 DEF ConsentInv, LinksHold, TokensHold, Fits, Grant
<1>3. ClientHolds(s, tokens)
  BY <1>1, <1>2 DEF ClientHolds, ActorState, ClientPcs
<1>4. actor' = [actor EXCEPT ![c] = s]
  BY DEF Lookup, ConsentInv, ActorsHold, Actors
<1> QED
  BY <1>3, <1>4, ClientMoves DEF Lookup, Others

LEMMA CompareStep ==
  ASSUME ConsentInv, NEW c \in Clients, Compare(c) PROVE ConsentInv'
<1> DEFINE s == [actor[c] EXCEPT !.pc = "remove", !.then = "window"]
<1>1. ClientHolds(actor[c], tokens) /\ actor[c].pc = "compare"
  BY DEF Compare, At, ConsentInv, ActorsHold
<1>2. ClientHolds(s, tokens)
  BY <1>1 DEF ClientHolds, ActorState, ClientPcs
<1>3. actor' = [actor EXCEPT ![c] = Idle] \/ actor' = [actor EXCEPT ![c] = s]
  BY DEF Compare, Return, ConsentInv, ActorsHold, Actors
<1> QED
  BY <1>2, <1>3, ClientStates, ClientMoves DEF Compare, Others

LEMMA FindWindowStep ==
  ASSUME ConsentInv, NEW c \in Clients, FindWindow(c) PROVE ConsentInv'
<1> DEFINE s == [actor[c] EXCEPT !.pc = "store"]
<1>1. ClientHolds(actor[c], tokens) /\ actor[c].pc = "window" /\ Fits(actor[c].grant)
  BY DEF FindWindow, At, ConsentInv, ActorsHold, ClientHolds
<1>2. ClientHolds(s, tokens) /\ actor[c].grant.target \in Targets
  BY <1>1 DEF ClientHolds, ActorState, ClientPcs, Fits, Grant
<1>3. \/ actor' = [actor EXCEPT ![c] = s]
      \/ actor' = [actor EXCEPT ![c] =
                     [Idle EXCEPT !.pc = "deny", !.target = actor[c].grant.target]]
  BY DEF FindWindow, Goto
<1> QED
  BY <1>2, <1>3, ClientStates, ClientMoves DEF FindWindow, Others

LEMMA BeginRevokeStep ==
  ASSUME ConsentInv, NEW c \in Clients, BeginRevoke(c) PROVE ConsentInv'
  BY ClientStates, ClientMoves DEF BeginRevoke, Others
-----------------------------------------------------------------------------
(* Steps of a client that change the authority *)

\* Changing grants disturbs only what is said of grants.
LEMMA GrantsChange ==
  ASSUME ConsentInv, UNCHANGED <<open, tokens, byTarget, overlay, click, approvals>>,
         ActorsHold', GrantsHold', ClosedIsNotAuthorized'
  PROVE  ConsentInv'
  BY DEF ConsentInv, TokensHold, LinksHold, OverlaysHold, ClicksHold

\* A client's move leaves the other threads as they are.
LEMMA ClientActors ==
  ASSUME ConsentInv, UNCHANGED <<tokens, open, approvals>>,
         NEW c \in Clients, NEW s, ClientHolds(s, tokens), actor' = [actor EXCEPT ![c] = s]
  PROVE  ActorsHold' /\ actor'[Gui] = actor[Gui]
<1>1. Gui \in Actors /\ c # Gui /\ actor'[Gui] = actor[Gui]
  BY DEF ConsentInv, ActorsHold, Actors
<1> QED
  BY <1>1 DEF ConsentInv, ActorsHold, Actors, ClientHolds, GuiHolds, Deciding, Cancelling

\* Deciding a grant other than in the user's favour is always safe.
LEMMA AgainstGrants ==
  ASSUME ConsentInv, NEW t \in Targets, grants[t] # None,
         NEW decision \in Decision \ {"authorized"}, grants' = Decide(t, decision),
         UNCHANGED approvals
  PROVE  GrantsHold' /\ \A u \in Targets : (Decided(u, "authorized"))' => Decided(u, "authorized")
<1> DEFINE Filed == {None} \cup [grant: Grant, decision: Decision]
<1>1. grants \in [Targets -> Filed] /\ grants[t] \in [grant: Grant, decision: Decision]
  BY DEF ConsentInv, GrantsHold
<1>2. [grants[t] EXCEPT !.decision = decision] \in [grant: Grant, decision: Decision]
  BY <1>1
<1>3. /\ grants'[t] = [grants[t] EXCEPT !.decision = decision]
      /\ \A u \in Targets \ {t} : grants'[u] = grants[u]
      /\ grants' \in [Targets -> Filed]
  BY <1>1, <1>2 DEF Decide
<1>4. grants'[t].grant = grants[t].grant /\ grants'[t].decision # "authorized"
  BY <1>1, <1>3
<1>5. GrantsHold'
  <2>1. \A u \in Targets : grants[u] # None =>
          grants[u].grant.target = u /\ Fits(grants[u].grant)
    BY DEF ConsentInv, GrantsHold
  <2>2. \A u \in Targets : grants'[u] # None =>
          grants'[u].grant.target = u /\ Fits(grants'[u].grant)
    <3>1. ASSUME NEW u \in Targets, grants'[u] # None PROVE grants'[u].grant = grants[u].grant /\ grants[u] # None
      BY <1>3, <1>4, <3>1
    <3> QED
      BY <2>1, <3>1
  <2>3. AllApproved'
    BY <1>3, <1>4 DEF ConsentInv, GrantsHold, AllApproved, Decided
  <2> QED
    BY <1>3, <2>2, <2>3 DEF GrantsHold
<1>6. \A u \in Targets : (Decided(u, "authorized"))' => Decided(u, "authorized")
  BY <1>3, <1>4 DEF Decided
<1> QED
  BY <1>5, <1>6

LEMMA DecideAgainst ==
  ASSUME ConsentInv, NEW t \in Targets, grants[t] # None,
         NEW decision \in Decision \ {"authorized"}, grants' = Decide(t, decision),
         UNCHANGED <<open, approvals>>,
         actor'[Gui] = actor[Gui] \/ actor[Gui].pc # "revoke window"
  PROVE  GrantsHold' /\ ClosedIsNotAuthorized'
<1>1. GrantsHold' /\ \A u \in Targets : (Decided(u, "authorized"))' => Decided(u, "authorized")
  BY AgainstGrants
<1>2. ClosedIsNotAuthorized'
  BY <1>1 DEF ConsentInv, ClosedIsNotAuthorized, At, Targets
<1> QED
  BY <1>1, <1>2

LEMMA NothingDecided ==
  ASSUME ConsentInv, UNCHANGED <<open, grants, approvals>>,
         actor'[Gui] = actor[Gui] \/ actor[Gui].pc # "revoke window"
  PROVE  GrantsHold' /\ ClosedIsNotAuthorized'
  BY DEF ConsentInv, GrantsHold, AllApproved, ClosedIsNotAuthorized, Decided, At

\* What a step leaves alone still holds.
LEMMA Rest ==
  ASSUME ConsentInv, UNCHANGED <<open, tokens, approvals>>
  PROVE  /\ TokensHold' /\ Keeps
         /\ UNCHANGED byTarget => LinksHold'
         /\ UNCHANGED overlay => OverlaysHold'
         /\ UNCHANGED click => ClicksHold'
  BY DEF ConsentInv, TokensHold, Keeps, LinksHold, OverlaysHold, ClicksHold

LEMMA RequestStep ==
  ASSUME ConsentInv, NEW c \in Clients, Request(c) PROVE ConsentInv'
<1> DEFINE grant == actor[c].grant
           target == grant.target
<1>1. Fits(grant) /\ grant \in Grant /\ target \in Targets
  BY DEF Request, At, ConsentInv, ActorsHold, ClientHolds, Fits, Grant
<1>2. CASE actor' = [actor EXCEPT ![c] = Idle] /\ UNCHANGED grants
  BY <1>2, ClientStates, ClientMoves DEF Request, Others
<1>3. CASE /\ grants' = [grants EXCEPT ![target] = [grant |-> grant, decision |-> "pending"]]
           /\ actor' = [actor EXCEPT ![c] = [Idle EXCEPT !.pc = "present", !.target = target]]
  <2>1. ActorsHold' /\ actor'[Gui] = actor[Gui]
    BY <1>1, <1>3, ClientStates, ClientActors DEF Request
  <2>2. /\ [grant |-> grant, decision |-> "pending"] \in [grant: Grant, decision: Decision]
        /\ grants' \in [Targets -> {None} \cup [grant: Grant, decision: Decision]]
        /\ grants'[target] = [grant |-> grant, decision |-> "pending"]
        /\ \A u \in Targets \ {target} : grants'[u] = grants[u]
    BY <1>1, <1>3 DEF ConsentInv, GrantsHold, Decision
  <2>3. GrantsHold'
    BY <1>1, <2>2 DEF ConsentInv, GrantsHold, AllApproved, Decided, Request, Fits
  <2>4. ClosedIsNotAuthorized'
    <3>1. open' = open
      BY DEF Request
    <3>2. \A w \in Windows : (Decided(w, "authorized"))' => Decided(w, "authorized")
      BY <2>2 DEF Decided, Targets
    <3> QED
      BY <2>1, <3>1, <3>2 DEF ConsentInv, ClosedIsNotAuthorized, At
  <2> QED
    BY <2>1, <2>3, <2>4, GrantsChange DEF Request
<1> QED
  BY <1>2, <1>3 DEF Request, Return

LEMMA DenyTargetStep ==
  ASSUME ConsentInv, NEW c \in Clients, DenyTarget(c) PROVE ConsentInv'
<1>1. actor[c].target \in Targets
  BY DEF DenyTarget, At, ConsentInv, ActorsHold, ClientHolds
<1>2. ActorsHold' /\ actor'[Gui] = actor[Gui]
  BY ClientStates, ClientActors DEF DenyTarget, Return
<1>3. GrantsHold' /\ ClosedIsNotAuthorized'
  BY <1>1, <1>2, DecideAgainst, NothingDecided DEF DenyTarget, Decided, Decision
<1> QED
  BY <1>2, <1>3, GrantsChange DEF DenyTarget

LEMMA RevokeStep ==
  ASSUME ConsentInv, NEW c \in Clients, Revoke(c) PROVE ConsentInv'
<1>1. actor[c].target \in Targets
  BY DEF Revoke, At, ConsentInv, ActorsHold, ClientHolds
<1>2. ActorsHold' /\ actor'[Gui] = actor[Gui]
  BY ClientStates, ClientActors DEF Revoke, Return
<1>3. GrantsHold' /\ ClosedIsNotAuthorized'
  BY <1>1, <1>2, DecideAgainst, NothingDecided DEF Revoke, Decision
<1> QED
  BY <1>2, <1>3, GrantsChange DEF Revoke

-----------------------------------------------------------------------------
(* Steps of a client that change tokens, links and overlays *)

LEMMA SeqShape ==
  ASSUME NEW S, NEW seq \in Seq(S) PROVE Len(seq) \in Nat /\ DOMAIN seq = 1..Len(seq)
  OBVIOUS

LEMMA Prefix ==
  ASSUME NEW n \in Nat, NEW m \in Nat, \A k \in 1..n : k \in 1..m PROVE n <= m
<1>1. n = 0 \/ n \in 1..n
  OBVIOUS
<1> QED
  BY <1>1

LEMMA Numbers ==
  ASSUME NEW n \in Nat, NEW m \in Nat, n <= m
  PROVE  /\ 0..n \subseteq 0..m
         /\ \A k \in 0..n : k # 0 => k \in 1..n
         /\ [token: 1..n, approve: BOOLEAN] \subseteq [token: 1..m, approve: BOOLEAN]
<1>1. 0..n \subseteq 0..m /\ 1..n \subseteq 1..m /\ \A k \in 0..n : k # 0 => k \in 1..n
  OBVIOUS
<1>2. [token: 1..n, approve: BOOLEAN] \subseteq [token: 1..m, approve: BOOLEAN]
  BY <1>1, Zenon
<1> QED
  BY <1>1, <1>2

LEMMA TokensChange ==
  ASSUME ConsentInv, TokensHold', Keeps,
         UNCHANGED <<open, grants, byTarget, overlay, click, approvals>>,
         ActorsHold', actor'[Gui] = actor[Gui] \/ actor[Gui].pc # "revoke window"
  PROVE  ConsentInv'
<1> DEFINE n == Len(tokens)
           m == Len(tokens')
<1>1. n \in Nat /\ DOMAIN tokens = 1..n /\ m \in Nat /\ DOMAIN tokens' = 1..m
  BY SeqShape DEF ConsentInv, TokensHold
<1>2. \A k \in 1..n : k \in 1..m /\ tokens'[k].grant = tokens[k].grant
  BY <1>1 DEF Keeps
<1> HIDE DEF n, m
<1>3. n <= m
  BY <1>1, <1>2, Prefix
<1>4. /\ 0..n \subseteq 0..m
      /\ \A k \in 0..n : k # 0 => k \in 1..n
      /\ [token: 1..n, approve: BOOLEAN] \subseteq [token: 1..m, approve: BOOLEAN]
  BY <1>1, <1>3, Numbers
<1>5. LinksHold'
  BY <1>2, <1>4 DEF ConsentInv, LinksHold, n, m
<1>6. OverlaysHold'
  BY <1>2, <1>4 DEF ConsentInv, OverlaysHold, n, m
<1>7. ClicksHold'
  <2>1. /\ click \in [Windows -> {None} \cup [token: 1..n, approve: BOOLEAN]]
        /\ \A w \in Windows : click[w] # None /\ click[w].approve
                                => tokens[click[w].token].grant \in Approved
    BY DEF ConsentInv, ClicksHold, n
  <2>2. click \in [Windows -> {None} \cup [token: 1..m, approve: BOOLEAN]]
    BY <1>4, <2>1
  <2>3. \A w \in Windows : click[w] # None => click[w].token \in 1..n
    BY <2>1
  <2>4. \A w \in Windows : click[w] # None /\ click[w].approve
                              => tokens'[click[w].token].grant \in Approved
    BY <1>2, <2>1, <2>3
  <2> QED
    BY <2>2, <2>4 DEF ClicksHold, m
<1>8. GrantsHold' /\ ClosedIsNotAuthorized'
  BY DEF ConsentInv, GrantsHold, AllApproved, ClosedIsNotAuthorized, Decided, At
<1> QED
  BY <1>5, <1>6, <1>7, <1>8 DEF ConsentInv

\* What the threads hold survives tokens that are kept.
LEMMA ActorsKeep ==
  ASSUME ConsentInv, Keeps, UNCHANGED <<open, approvals>>,
         NEW a \in Actors, NEW s, actor' = [actor EXCEPT ![a] = s],
         a \in Clients => ClientHolds(s, tokens'),
         a = Gui => GuiHolds(s, tokens', open, Approved')
  PROVE  ActorsHold'
<1>1. \A d \in Clients : ClientHolds(actor[d], tokens')
  BY DEF ConsentInv, ActorsHold, ClientHolds, Keeps
<1>2. GuiHolds(actor[Gui], tokens', open, Approved')
  <2>1. GuiHolds(actor[Gui], tokens, open, Approved)
    BY DEF ConsentInv, ActorsHold
  <2> QED
    BY <2>1 DEF GuiHolds, Deciding, Cancelling, Keeps
<1>3. \A d \in Actors : actor'[d] = IF d = a THEN s ELSE actor[d]
  BY DEF ConsentInv, ActorsHold
<1>4. DOMAIN actor' = Actors /\ actor' = [d \in Actors |-> actor'[d]]
  BY DEF ConsentInv, ActorsHold
<1> QED
  BY <1>1, <1>2, <1>3, <1>4 DEF ActorsHold, Actors

LEMMA Linking ==
  \A grant \in Grant, k \in Nat :
    LET s == [Idle EXCEPT !.pc = "link", !.grant = grant, !.token = k]
    IN s \in ActorState /\ s.pc = "link" /\ s.grant = grant /\ s.token = k
<1>1. Idle \in ActorState
  BY DEF Idle, ActorState, ClientPcs
<1> QED
  BY <1>1 DEF ActorState, ClientPcs

LEMMA StoreStep ==
  ASSUME ConsentInv, NEW c \in Clients, Store(c) PROVE ConsentInv'
<1> DEFINE n == Len(tokens)
           s == [Idle EXCEPT !.pc = "link", !.grant = actor[c].grant, !.token = n + 1]
<1>1. Fits(actor[c].grant) /\ actor[c].grant \in Grant
  BY DEF Store, At, ConsentInv, ActorsHold, ClientHolds, Fits
<1>2. /\ n \in Nat /\ DOMAIN tokens = 1..n
      /\ tokens' \in Seq([grant: Grant, live: BOOLEAN])
      /\ Len(tokens') = n + 1 /\ DOMAIN tokens' = 1..(n + 1)
      /\ \A k \in 1..n : tokens'[k] = tokens[k]
      /\ tokens'[n + 1].grant = actor[c].grant
  BY <1>1 DEF Store, ConsentInv, TokensHold
<1>3. TokensHold' /\ Keeps
  BY <1>1, <1>2 DEF ConsentInv, TokensHold, Fits, Keeps
<1>4. n + 1 \in Nat
  BY <1>2
<1>5. s \in ActorState /\ s.pc = "link" /\ s.grant = actor[c].grant /\ s.token = n + 1
  <2> HIDE DEF n
  <2> QED
    BY <1>1, <1>4, Linking
<1>6. ClientHolds(s, tokens')
  <2> HIDE DEF s
  <2>1. s.token \in DOMAIN tokens' /\ tokens'[s.token].grant = s.grant /\ Fits(s.grant)
    BY <1>1, <1>2, <1>5
  <2> QED
    BY <1>5, <2>1 DEF ClientHolds, ClientPcs
<1>7. c \in Actors /\ c # Gui /\ actor' = [actor EXCEPT ![c] = s]
  BY DEF Actors, Store
<1>8. ActorsHold' /\ actor'[Gui] = actor[Gui]
  BY <1>3, <1>6, <1>7, ActorsKeep DEF Store, ConsentInv, ActorsHold, Actors
<1> QED
  BY <1>3, <1>8, TokensChange DEF Store

LEMMA LinkStep ==
  ASSUME ConsentInv, NEW c \in Clients, Link(c) PROVE ConsentInv'
<1> DEFINE s == [actor[c] EXCEPT !.pc = "show"]
<1>1. /\ ClientHolds(actor[c], tokens) /\ actor[c].pc = "link"
      /\ actor[c].token \in DOMAIN tokens
      /\ tokens[actor[c].token].grant = actor[c].grant
  BY DEF Link, At, ConsentInv, ActorsHold, ClientHolds
<1>2. ClientHolds(s, tokens)
  BY <1>1 DEF ClientHolds, ActorState, ClientPcs
<1>3. ActorsHold' /\ actor'[Gui] = actor[Gui]
  BY <1>2, ClientActors DEF Link, Goto
<1>4. actor[c].token \in 0..Len(tokens)
  BY <1>1, SeqShape DEF ConsentInv, TokensHold
<1>5. LinksHold'
  BY <1>1, <1>4 DEF ConsentInv, LinksHold, Link
<1> QED
  BY <1>3, <1>5, Rest, NothingDecided DEF Link, ConsentInv

\* A client in the middle of showing may give up and remove what it stored.
LEMMA UndoHolds ==
  ASSUME ConsentInv, NEW c \in Clients, At(c, "show") \/ At(c, "focus"), Undo(c),
         UNCHANGED <<open, tokens, approvals>>
  PROVE  ActorsHold' /\ actor'[Gui] = actor[Gui]
<1> DEFINE s == [Idle EXCEPT !.pc = "remove", !.then = "deny", !.target = actor[c].grant.target,
                             !.token = actor[c].token]
<1>1. Idle \in ActorState
  BY DEF Idle, ActorState, ClientPcs
<1>2. actor[c].grant.target \in Targets /\ actor[c].token \in Nat
  BY DEF At, ConsentInv, ActorsHold, ClientHolds, Fits, Grant, ActorState
<1>3. ClientHolds(s, tokens)
  BY <1>1, <1>2 DEF ClientHolds, ActorState, ClientPcs
<1> QED
  BY <1>3, ClientActors DEF Undo

LEMMA ShowStep ==
  ASSUME ConsentInv, NEW c \in Clients, Show(c) PROVE ConsentInv'
<1> DEFINE s == [actor[c] EXCEPT !.pc = "focus"]
           window == actor[c].grant.window
<1>1. /\ ClientHolds(actor[c], tokens) /\ actor[c].pc = "show"
      /\ actor[c].token \in DOMAIN tokens
      /\ tokens[actor[c].token].grant = actor[c].grant
  BY DEF Show, At, ConsentInv, ActorsHold, ClientHolds
<1>2. ClientHolds(s, tokens)
  BY <1>1 DEF ClientHolds, ActorState, ClientPcs
<1>3. ActorsHold' /\ actor'[Gui] = actor[Gui]
  BY <1>2, ClientActors, UndoHolds DEF Show, Goto
<1>4. actor[c].token \in 0..Len(tokens)
  BY <1>1, SeqShape DEF ConsentInv, TokensHold
<1>5. \/ UNCHANGED overlay
      \/ window \in open /\ overlay' = [overlay EXCEPT ![window] = actor[c].token]
  BY DEF Show
<1>6. OverlaysHold'
  BY <1>1, <1>4, <1>5 DEF ConsentInv, OverlaysHold, Show
<1> QED
  BY <1>3, <1>6, Rest, NothingDecided DEF Show, ConsentInv

\* Taking an overlay down is always safe.
LEMMA OverlayDown ==
  ASSUME ConsentInv, UNCHANGED <<open, tokens>>, NEW w, overlay' = [overlay EXCEPT ![w] = 0]
  PROVE  OverlaysHold'
<1>1. Len(tokens) \in Nat
  BY SeqShape DEF ConsentInv, TokensHold
<1>2. 0 \in 0..Len(tokens)
  BY <1>1
<1> QED
  BY <1>2 DEF ConsentInv, OverlaysHold

LEMMA FocusStep ==
  ASSUME ConsentInv, NEW c \in Clients, Focus(c) PROVE ConsentInv'
<1>1. ActorsHold' /\ actor'[Gui] = actor[Gui]
  BY ClientStates, ClientActors, UndoHolds DEF Focus, Return
<1>2. OverlaysHold'
  BY OverlayDown, Rest DEF Focus
<1> QED
  BY <1>1, <1>2, Rest, NothingDecided DEF Focus, ConsentInv

-----------------------------------------------------------------------------
(* Removing a token, on any thread *)

LEMMA TokenRemoved ==
  \A k : \A seq \in Seq([grant: Grant, live: BOOLEAN]) :
    LET new == [seq EXCEPT ![k].live = FALSE]
    IN /\ DOMAIN new = DOMAIN seq
       /\ \A i \in DOMAIN seq : /\ new[i].grant = seq[i].grant
                                /\ ~seq[i].live => ~new[i].live
       /\ k \in DOMAIN seq => ~new[k].live
       /\ new \in Seq([grant: Grant, live: BOOLEAN])
<1> SUFFICES ASSUME NEW seq \in Seq([grant: Grant, live: BOOLEAN]), NEW k
             PROVE  LET new == [seq EXCEPT ![k].live = FALSE]
                    IN /\ DOMAIN new = DOMAIN seq
                       /\ \A i \in DOMAIN seq : /\ new[i].grant = seq[i].grant
                                                /\ ~seq[i].live => ~new[i].live
                       /\ k \in DOMAIN seq => ~new[k].live
                       /\ new \in Seq([grant: Grant, live: BOOLEAN])
  OBVIOUS
<1> DEFINE S == [grant: Grant, live: BOOLEAN]
<1>1. DOMAIN seq = 1..Len(seq) /\ \A i \in DOMAIN seq : seq[i] \in S
  <2> HIDE DEF S
  <2>1. ASSUME NEW T, NEW q \in Seq(T) PROVE \A i \in DOMAIN q : q[i] \in T
    OBVIOUS
  <2>2. seq \in Seq(S)
    BY DEF S
  <2> QED
    BY <2>1, <2>2, SeqShape
<1>2. CASE k \in DOMAIN seq
  <2> DEFINE e == [seq[k] EXCEPT !.live = FALSE]
  <2>1. e \in [grant: Grant, live: BOOLEAN] /\ e.grant = seq[k].grant /\ ~e.live
    BY <1>1, <1>2
  <2>2. /\ [seq EXCEPT ![k] = e] \in Seq([grant: Grant, live: BOOLEAN])
        /\ DOMAIN [seq EXCEPT ![k] = e] = DOMAIN seq
        /\ \A i \in DOMAIN seq : [seq EXCEPT ![k] = e][i] = IF i = k THEN e ELSE seq[i]
    <3> HIDE DEF e
    <3> QED
      BY <1>1, <1>2, <2>1, ExceptSeq
  <2>3. [seq EXCEPT ![k].live = FALSE] = [seq EXCEPT ![k] = e]
    OBVIOUS
  <2> QED
    BY <1>2, <2>1, <2>2, <2>3
<1>3. CASE k \notin DOMAIN seq
  <2>1. [seq EXCEPT ![k].live = FALSE] = seq
    BY <1>1, <1>3
  <2> QED
    BY <1>3, <2>1
<1> QED
  BY <1>2, <1>3

LEMMA RemoveStep ==
  ASSUME ConsentInv, NEW a \in Actors, Remove(a) PROVE ConsentInv'
<1> DEFINE token == actor[a].token
           then == IF actor[a].then = "deny token" THEN "dispose" ELSE actor[a].then
           s == [actor[a] EXCEPT !.pc = "unlink"]
           r == [actor[a] EXCEPT !.pc = then]
<1>1. actor[a].pc = "remove"
  BY DEF Remove, At
<1>2. a \in Clients => ClientHolds(actor[a], tokens)
  BY DEF ConsentInv, ActorsHold
<1>3. a = Gui => GuiHolds(actor[a], tokens, open, Approved)
  BY DEF ConsentInv, ActorsHold
<1>4. CASE ~Live(token)
  <2>1. actor' = [actor EXCEPT ![a] = r] /\ UNCHANGED Others
    BY <1>4 DEF Remove, Goto, Others
  <2>2. a \in Clients => ClientHolds(r, tokens)
    BY <1>1, <1>2 DEF ClientHolds, ActorState, ClientPcs
  <2>3. ASSUME a = Gui PROVE GuiHolds(r, tokens, open, Approved)
    <3>1. token \in DOMAIN tokens
      BY <1>1, <1>3, <2>3 DEF GuiHolds, Deciding, Cancelling
    <3>2. 0 \notin DOMAIN tokens
      BY SeqShape DEF ConsentInv, TokensHold
    <3>3. ~tokens[token].live
      BY <1>4, <3>1, <3>2 DEF Live
    <3> QED
      BY <1>1, <1>3, <2>3, <3>1, <3>3 DEF GuiHolds, Deciding, Cancelling, ActorState, GuiPcs
  <2> QED
    BY <1>1, <2>1, <2>2, <2>3, ClientMoves, GuiMoves DEF Actors
<1>5. CASE Live(token)
  <2>1. /\ tokens' = [tokens EXCEPT ![token].live = FALSE]
        /\ actor' = [actor EXCEPT ![a] = s]
        /\ UNCHANGED <<open, grants, byTarget, overlay, click, approvals>>
    BY <1>5 DEF Remove, Goto
  <2>2. /\ DOMAIN tokens' = DOMAIN tokens
        /\ \A k \in DOMAIN tokens : /\ tokens'[k].grant = tokens[k].grant
                                    /\ ~tokens[k].live => ~tokens'[k].live
        /\ token \in DOMAIN tokens => ~tokens'[token].live
        /\ tokens' \in Seq([grant: Grant, live: BOOLEAN])
    BY <2>1, TokenRemoved DEF ConsentInv, TokensHold
  <2>3. TokensHold' /\ Keeps
    BY <2>2 DEF ConsentInv, TokensHold, Keeps
  <2>4. a \in Clients => ClientHolds(s, tokens')
    BY <1>1, <1>2 DEF ClientHolds, ActorState, ClientPcs
  <2>5. ASSUME a = Gui PROVE GuiHolds(s, tokens', open, Approved')
    <3>1. /\ token \in DOMAIN tokens /\ actor[a].window \in Windows
          /\ actor[a].then \in {"decide", "deny token"}
          /\ actor[a].then = "decide" =>
               /\ tokens[token].grant.window \in open
               /\ actor[a].approve => tokens[token].grant \in Approved
          /\ actor[a].then = "deny token" => actor[a].todo \subseteq DOMAIN tokens
      BY <1>1, <1>3, <2>5 DEF GuiHolds, Deciding, Cancelling
    <3>2. Approved' = Approved
      BY <2>1
    <3>3. /\ s \in ActorState /\ s.pc = "unlink" /\ s.then = actor[a].then /\ s.token = token
          /\ s.window = actor[a].window /\ s.todo = actor[a].todo /\ s.approve = actor[a].approve
      BY <1>3, <2>5 DEF GuiHolds, ActorState, GuiPcs
    <3> HIDE DEF s
    <3> QED
      BY <2>2, <3>1, <3>2, <3>3 DEF GuiHolds, Deciding, Cancelling, GuiPcs
  <2>6. ActorsHold'
    BY <2>1, <2>3, <2>4, <2>5, ActorsKeep
  <2>7. actor'[Gui] = actor[Gui] \/ actor[Gui].pc # "revoke window"
    BY <1>1, <2>1 DEF ConsentInv, ActorsHold, Actors
  <2> QED
    BY <2>1, <2>3, <2>6, <2>7, TokensChange
<1> QED
  BY <1>4, <1>5

LEMMA UnlinkStep ==
  ASSUME ConsentInv, NEW a \in Actors, Unlink(a) PROVE ConsentInv'
<1> DEFINE s == [actor[a] EXCEPT !.pc = actor[a].then]
           target == tokens[actor[a].token].grant.target
<1>1. actor[a].pc = "unlink" /\ actor' = [actor EXCEPT ![a] = s]
  BY DEF Unlink, At, Goto
<1>2. a \in Clients => ClientHolds(s, tokens)
  BY <1>1 DEF ConsentInv, ActorsHold, ClientHolds, ActorState, ClientPcs
<1>3. a = Gui => GuiHolds(s, tokens, open, Approved)
  BY <1>1 DEF ConsentInv, ActorsHold, GuiHolds, Deciding, Cancelling, ActorState, GuiPcs
<1>4. ActorsHold'
  BY <1>1, <1>2, <1>3, Rest, ActorsKeep DEF Unlink
<1>5. Len(tokens) \in Nat
  BY SeqShape DEF ConsentInv, TokensHold
<1>6. 0 \in 0..Len(tokens)
  BY <1>5
<1>7. byTarget' = byTarget \/ byTarget' = [byTarget EXCEPT ![target] = 0]
  BY DEF Unlink
<1>8. LinksHold'
  BY <1>6, <1>7 DEF ConsentInv, LinksHold, Unlink
<1>9. actor'[Gui] = actor[Gui] \/ actor[Gui].pc # "revoke window"
  BY <1>1 DEF ConsentInv, ActorsHold, Actors
<1> QED
  BY <1>4, <1>8, <1>9, Rest, NothingDecided DEF Unlink, ConsentInv

-----------------------------------------------------------------------------
(* The user and the page *)

LEMMA AnswerOverlayStep ==
  ASSUME ConsentInv, NEW w \in Windows, AnswerOverlay(w) PROVE ConsentInv'
<1> DEFINE n == Len(tokens)
<1>1. /\ DOMAIN tokens = 1..n /\ n \in Nat /\ overlay[w] \in 0..n /\ overlay[w] # 0
  BY SeqShape DEF AnswerOverlay, ConsentInv, TokensHold, OverlaysHold
<1>2. overlay[w] \in 1..n
  <2> HIDE DEF n
  <2> QED
    BY <1>1
<1> DEFINE grant == tokens[overlay[w]].grant
<1>3. PICK approve \in BOOLEAN, by \in Approvers :
        /\ click' = [click EXCEPT ![w] = [token |-> overlay[w], approve |-> approve]]
        /\ approvals' = IF approve THEN approvals \cup {[grant |-> grant, by |-> by]} ELSE approvals
  BY DEF AnswerOverlay
<1>4. [grant |-> grant, by |-> by] \in [grant: Grant, by: Approvers]
  BY <1>1, <1>2 DEF ConsentInv, TokensHold, Fits
<1>5. /\ Approved \subseteq Approved' /\ approvals' \subseteq [grant: Grant, by: Approvers]
      /\ approve => grant \in Approved'
  <2>1. approvals \subseteq approvals' /\ approvals' \subseteq [grant: Grant, by: Approvers]
    BY <1>3, <1>4 DEF ConsentInv
  <2>2. ASSUME approve PROVE grant \in Approved'
    <3>1. [grant |-> grant, by |-> by] \in approvals'
      BY <1>3, <2>2
    <3> QED
      BY <3>1 DEF Approved
  <2> QED
    BY <2>1, <2>2, ApprovedGrows
<1>6. ClicksHold'
  <2>1. [token |-> overlay[w], approve |-> approve] \in [token: 1..n, approve: BOOLEAN]
    BY <1>2
  <2>2. click' \in [Windows -> {None} \cup [token: 1..n, approve: BOOLEAN]]
    BY <1>3, <2>1 DEF ConsentInv, ClicksHold
  <2>3. \A v \in Windows : click'[v] # None /\ click'[v].approve
                              => tokens[click'[v].token].grant \in Approved'
    BY <1>3, <1>5 DEF ConsentInv, ClicksHold
  <2> QED
    BY <2>2, <2>3 DEF ClicksHold, AnswerOverlay
<1>7. ActorsHold'
  <2>1. \A d \in Clients : ClientHolds(actor[d], tokens)
    BY DEF ConsentInv, ActorsHold
  <2>2. GuiHolds(actor[Gui], tokens, open, Approved')
    BY <1>5 DEF ConsentInv, ActorsHold, GuiHolds
  <2> QED
    BY <2>1, <2>2 DEF ConsentInv, ActorsHold, AnswerOverlay
<1>8. GrantsHold'
  BY <1>5 DEF ConsentInv, GrantsHold, AllApproved, Decided, AnswerOverlay
<1> QED
  BY <1>5, <1>6, <1>7, <1>8 DEF ConsentInv, TokensHold, LinksHold, OverlaysHold,
     ClosedIsNotAuthorized, Decided, At, AnswerOverlay

LEMMA NavigateStep ==
  ASSUME ConsentInv, NEW w \in Windows, Navigate(w) PROVE ConsentInv'
<1>1. OverlaysHold'
  BY OverlayDown DEF Navigate
<1>2. ActorsHold'
  BY DEF ConsentInv, ActorsHold, Navigate
<1> QED
  BY <1>1, <1>2, Rest, NothingDecided DEF Navigate, ConsentInv

-----------------------------------------------------------------------------
(* The GUI thread *)

LEMMA GuiIdle == GuiHolds(Idle, tokens, open, Approved)
<1>1. Idle \in ActorState /\ Idle.pc = "idle"
  BY DEF Idle, ActorState, ClientPcs
<1> QED
  BY <1>1 DEF GuiHolds, Deciding, Cancelling, GuiPcs

\* A step of the GUI thread leaves the clients as they are.
LEMMA GuiActors ==
  ASSUME ConsentInv, UNCHANGED tokens, NEW s, GuiHolds(s, tokens, open', Approved'),
         actor' = [actor EXCEPT ![Gui] = s]
  PROVE  ActorsHold' /\ actor'[Gui] = s
<1>1. Gui \in Actors /\ actor'[Gui] = s /\ \A d \in Clients : actor'[d] = actor[d]
  BY DEF ConsentInv, ActorsHold, Actors
<1>2. DOMAIN actor' = Actors /\ actor' = [d \in Actors |-> actor'[d]]
  BY DEF ConsentInv, ActorsHold
<1> QED
  BY <1>1, <1>2 DEF ConsentInv, ActorsHold

LEMMA ClickedStep ==
  ASSUME ConsentInv, NEW w \in Windows, Clicked(w) PROVE ConsentInv'
<1> DEFINE token == click[w].token
           s == [Idle EXCEPT !.pc = "remove", !.then = "decide", !.approve = click[w].approve,
                             !.token = token, !.window = w]
<1>1. /\ actor[Gui].pc = "idle" /\ w \in open /\ click[w] # None
      /\ click' = [click EXCEPT ![w] = None]
      /\ UNCHANGED <<open, grants, tokens, byTarget, overlay, approvals>>
  BY DEF Clicked, At
<1>2. token \in DOMAIN tokens /\ click[w].approve \in BOOLEAN /\ token \in Nat
  BY <1>1, SeqShape DEF ConsentInv, ClicksHold, TokensHold
<1>3. ActorsHold'
  <2>1. CASE UNCHANGED actor
    BY <1>1, <2>1 DEF ConsentInv, ActorsHold
  <2>2. CASE tokens[token].grant.window = w /\ actor' = [actor EXCEPT ![Gui] = s]
    <3>1. Idle \in ActorState
      BY DEF Idle, ActorState, ClientPcs
    <3>2. /\ s \in ActorState /\ s.pc = "remove" /\ s.then = "decide" /\ s.window = w
          /\ s.token = token /\ s.approve = click[w].approve
      BY <1>2, <3>1 DEF ActorState, ClientPcs, GuiPcs
    <3>3. s.approve => tokens[token].grant \in Approved
      BY <1>1, <3>2 DEF ConsentInv, ClicksHold
    <3>4. GuiHolds(s, tokens, open', Approved')
      <4> HIDE DEF s
      <4> QED
        BY <1>1, <1>2, <2>2, <3>2, <3>3 DEF GuiHolds, Deciding, Cancelling, GuiPcs
    <3> QED
      BY <1>1, <2>2, <3>4, GuiActors
  <2> QED
    BY <2>1, <2>2 DEF Clicked
<1>4. ClicksHold'
  BY <1>1 DEF ConsentInv, ClicksHold
<1> QED
  BY <1>1, <1>3, <1>4, Rest, NothingDecided DEF ConsentInv

LEMMA ClearOverlayStep ==
  ASSUME ConsentInv, ClearOverlay PROVE ConsentInv'
<1>1. OverlaysHold'
  BY OverlayDown DEF ClearOverlay
<1>2. ActorsHold' /\ actor[Gui].pc # "revoke window"
  BY GuiIdle, GuiActors DEF ClearOverlay, Return, At
<1> QED
  BY <1>1, <1>2, Rest, NothingDecided DEF ClearOverlay, ConsentInv

LEMMA DestroyedStep ==
  ASSUME ConsentInv, NEW w \in Windows, Destroyed(w) PROVE ConsentInv'
<1> DEFINE s == [Idle EXCEPT !.pc = "revoke window", !.window = w]
<1>1. Idle \in ActorState
  BY DEF Idle, ActorState, ClientPcs
<1>2. s \in ActorState /\ s.pc = "revoke window" /\ s.window = w
  BY <1>1 DEF ActorState, GuiPcs
<1>3. GuiHolds(s, tokens, open', Approved')
  <2> HIDE DEF s
  <2> QED
    BY <1>2 DEF GuiHolds, Deciding, Cancelling, GuiPcs
<1>4. ActorsHold' /\ actor'[Gui] = s
  BY <1>3, GuiActors DEF Destroyed
<1>5. Len(tokens) \in Nat
  BY SeqShape DEF ConsentInv, TokensHold
<1>6. 0 \in 0..Len(tokens)
  BY <1>5
<1>7. OverlaysHold'
  BY <1>6 DEF ConsentInv, OverlaysHold, Destroyed
<1>8. ClicksHold'
  BY DEF ConsentInv, ClicksHold, Destroyed
<1>9. ClosedIsNotAuthorized'
  BY <1>2, <1>4 DEF ConsentInv, ClosedIsNotAuthorized, Decided, At, Destroyed
<1> QED
  BY <1>4, <1>7, <1>8, <1>9 DEF ConsentInv, GrantsHold, AllApproved, Decided, TokensHold,
     LinksHold, Destroyed

LEMMA RevokeWindowStep ==
  ASSUME ConsentInv, RevokeWindow PROVE ConsentInv'
<1> DEFINE s == [actor[Gui] EXCEPT !.pc = "collect"]
           w == actor[Gui].window
<1>1. GuiHolds(actor[Gui], tokens, open, Approved) /\ actor[Gui].pc = "revoke window"
  BY DEF RevokeWindow, At, ConsentInv, ActorsHold
<1>2. GuiHolds(s, tokens, open, Approved)
  BY <1>1 DEF GuiHolds, Deciding, Cancelling, ActorState, GuiPcs
<1>3. ActorsHold'
  BY <1>2, GuiActors DEF RevokeWindow, Goto
<1>4. w \in Windows /\ w \in Targets
  BY <1>1 DEF GuiHolds, Targets
<1>5. CASE grants[w] = None
  <2>1. UNCHANGED grants
    BY <1>5 DEF RevokeWindow
  <2>2. GrantsHold'
    BY <2>1 DEF ConsentInv, GrantsHold, AllApproved, Decided, RevokeWindow
  <2>3. ClosedIsNotAuthorized'
    BY <1>5, <2>1 DEF ConsentInv, ClosedIsNotAuthorized, Decided, At, RevokeWindow
  <2> QED
    BY <1>3, <2>2, <2>3, GrantsChange DEF RevokeWindow
<1>6. CASE grants[w] # None
  <2>1. grants' = Decide(w, "revoked") /\ "revoked" \in Decision \ {"authorized"}
    BY <1>6 DEF RevokeWindow, Decision
  <2>2. GrantsHold'
    BY <1>4, <1>6, <2>1, AgainstGrants DEF RevokeWindow
  <2>3. grants'[w].decision = "revoked" /\ \A u \in Targets \ {w} : grants'[u] = grants[u]
    BY <1>4, <1>6, <2>1 DEF ConsentInv, GrantsHold, Decide
  <2>4. ClosedIsNotAuthorized'
    BY <2>3 DEF ConsentInv, ClosedIsNotAuthorized, Decided, At, RevokeWindow, Targets
  <2> QED
    BY <1>3, <2>2, <2>4, GrantsChange DEF RevokeWindow
<1> QED
  BY <1>5, <1>6

LEMMA CollectStep ==
  ASSUME ConsentInv, Collect PROVE ConsentInv'
<1> DEFINE w == actor[Gui].window
           todo == {k \in DOMAIN tokens : Live(k) /\ tokens[k].grant.window = w}
           s == [actor[Gui] EXCEPT !.pc = "cancel", !.todo = todo]
<1>1. GuiHolds(actor[Gui], tokens, open, Approved) /\ actor[Gui].pc = "collect"
  BY DEF Collect, At, ConsentInv, ActorsHold
<1>2. todo \subseteq DOMAIN tokens /\ todo \in SUBSET Nat
  BY SeqShape DEF ConsentInv, TokensHold
<1>3. actor' = [actor EXCEPT ![Gui] = s]
  BY DEF Collect, ConsentInv, ActorsHold, Actors
<1>4. GuiHolds(s, tokens, open, Approved)
  <2> HIDE DEF todo
  <2> QED
    BY <1>1, <1>2 DEF GuiHolds, Deciding, Cancelling, ActorState, GuiPcs
<1> QED
  BY <1>1, <1>3, <1>4, GuiMoves DEF Collect, Others

LEMMA CancelStep ==
  ASSUME ConsentInv, Cancel PROVE ConsentInv'
<1>1. GuiHolds(actor[Gui], tokens, open, Approved) /\ actor[Gui].pc = "cancel"
  BY DEF Cancel, CancelFrom, At, ConsentInv, ActorsHold
<1>2. CASE actor' = [actor EXCEPT ![Gui] = Idle]
  BY <1>1, <1>2, GuiIdle, GuiMoves DEF Cancel, Others
<1>3. ASSUME NEW k \in actor[Gui].todo,
             actor' = [actor EXCEPT ![Gui].pc = "remove", ![Gui].then = "deny token", ![Gui].token = k]
      PROVE  ConsentInv'
  <2> DEFINE s == [actor[Gui] EXCEPT !.pc = "remove", !.then = "deny token", !.token = k]
  <2>1. actor' = [actor EXCEPT ![Gui] = s]
    BY <1>3 DEF ConsentInv, ActorsHold, Actors
  <2>2. k \in DOMAIN tokens /\ k \in Nat
    BY <1>1, SeqShape DEF GuiHolds, ConsentInv, TokensHold
  <2>3. GuiHolds(s, tokens, open, Approved)
    BY <1>1, <2>2 DEF GuiHolds, Deciding, Cancelling, ActorState, GuiPcs
  <2> QED
    BY <1>1, <2>1, <2>3, GuiMoves DEF Cancel, Others
<1> QED
  BY <1>2, <1>3 DEF Cancel, CancelFrom, Return

LEMMA DisposeStep ==
  ASSUME ConsentInv, Dispose PROVE ConsentInv'
<1> DEFINE k == actor[Gui].token
           s == [actor[Gui] EXCEPT !.pc = "cancel", !.then = "idle", !.token = 0, !.todo = @ \ {k}]
<1>1. GuiHolds(actor[Gui], tokens, open, Approved) /\ actor[Gui].pc = "dispose"
  BY DEF Dispose, At, ConsentInv, ActorsHold
<1>2. ~Live(k)
  BY <1>1 DEF GuiHolds, Cancelling, Live
<1>3. actor' = [actor EXCEPT ![Gui] = s]
  BY <1>2 DEF Dispose, ConsentInv, ActorsHold, Actors
<1>4. GuiHolds(s, tokens, open, Approved)
  BY <1>1 DEF GuiHolds, Deciding, Cancelling, ActorState, GuiPcs, ClientPcs
<1> QED
  BY <1>1, <1>3, <1>4, GuiMoves DEF Dispose, Others

\* A decision for the user authorizes only what was approved, and only in an open window.
LEMMA ExactGrants ==
  ASSUME ConsentInv, NEW k \in DOMAIN tokens, NEW decision \in {"authorized", "denied"},
         LET grant == tokens[k].grant
         IN grants' = IF DecidesExactly(grant) THEN Decide(grant.target, decision) ELSE grants,
         decision = "authorized" =>
           tokens[k].grant \in Approved /\ tokens[k].grant.window \in open,
         UNCHANGED <<open, approvals>>, actor[Gui].pc # "revoke window"
  PROVE  GrantsHold' /\ ClosedIsNotAuthorized'
<1> DEFINE grant == tokens[k].grant
           t == grant.target
<1>1. Fits(grant) /\ t \in Targets
  BY DEF ConsentInv, TokensHold, Fits, Grant
<1>2. CASE UNCHANGED grants
  BY <1>2, NothingDecided
<1>3. CASE DecidesExactly(grant) /\ decision = "denied"
  <2>1. grants' = Decide(t, decision) /\ grants[t] # None /\ decision \in Decision \ {"authorized"}
    BY <1>3 DEF DecidesExactly, Decided, Decision
  <2> QED
    BY <1>1, <2>1, DecideAgainst
<1>4. CASE DecidesExactly(grant) /\ decision = "authorized"
  <2> DEFINE Filed == {None} \cup [grant: Grant, decision: Decision]
  <2>1. /\ grants \in [Targets -> Filed] /\ grants[t] \in [grant: Grant, decision: Decision]
        /\ grants[t] # None /\ grants[t].grant = grant
    BY <1>1, <1>4 DEF ConsentInv, GrantsHold, DecidesExactly, Decided
  <2>2. [grants[t] EXCEPT !.decision = "authorized"] \in [grant: Grant, decision: Decision]
    BY <2>1 DEF Decision
  <2>3. grants' = [grants EXCEPT ![t] = [grants[t] EXCEPT !.decision = "authorized"]]
    BY <1>4, <2>1 DEF Decide
  <2>4. /\ grants'[t] = [grants[t] EXCEPT !.decision = "authorized"]
        /\ \A u \in Targets \ {t} : grants'[u] = grants[u]
        /\ grants' \in [Targets -> Filed]
    <3> HIDE DEF t
    <3> QED
      BY <1>1, <2>1, <2>2, <2>3
  <2>5. grants'[t].grant = grant
    BY <2>1, <2>4
  <2>6. GrantsHold'
    <3>1. \A u \in Targets : grants'[u] # None =>
            grants'[u].grant.target = u /\ Fits(grants'[u].grant)
      <4>1. \A u \in Targets : grants[u] # None =>
              grants[u].grant.target = u /\ Fits(grants[u].grant)
        BY DEF ConsentInv, GrantsHold
      <4>2. ASSUME NEW u \in Targets, grants'[u] # None
            PROVE  grants'[u].grant.target = u /\ Fits(grants'[u].grant)
        <5>1. CASE u = t
          BY <1>1, <2>5, <5>1
        <5>2. CASE u # t
          BY <2>4, <4>1, <4>2, <5>2
        <5> QED
          BY <5>1, <5>2
      <4> QED
        BY <4>2
    <3>2. AllApproved'
      BY <1>4, <2>4, <2>5 DEF ConsentInv, GrantsHold, AllApproved, Decided
    <3> QED
      BY <2>4, <3>1, <3>2 DEF GrantsHold
  <2>7. t \notin Windows \ open
    BY <1>1, <1>4 DEF Fits
  <2>8. ClosedIsNotAuthorized'
    <3>1. \A w \in Windows \ open : (Decided(w, "authorized"))' => Decided(w, "authorized")
      BY <2>4, <2>7 DEF Decided, Targets
    <3> QED
      BY <3>1 DEF ConsentInv, ClosedIsNotAuthorized, At
  <2> QED
    BY <2>6, <2>8
<1> QED
  BY <1>2, <1>3, <1>4

LEMMA DecideTokenStep ==
  ASSUME ConsentInv, DecideToken PROVE ConsentInv'
<1> DEFINE s == [actor[Gui] EXCEPT !.pc = "clear"]
           k == actor[Gui].token
           decision == IF actor[Gui].approve THEN "authorized" ELSE "denied"
<1>1. GuiHolds(actor[Gui], tokens, open, Approved) /\ actor[Gui].pc = "decide"
  BY DEF DecideToken, At, ConsentInv, ActorsHold
<1>2. /\ k \in DOMAIN tokens /\ tokens[k].grant.window \in open
      /\ actor[Gui].approve => tokens[k].grant \in Approved
  BY <1>1 DEF GuiHolds, Deciding
<1>3. GuiHolds(s, tokens, open, Approved)
  BY <1>1 DEF GuiHolds, Deciding, Cancelling, ActorState, GuiPcs
<1>4. ActorsHold'
  BY <1>3, GuiActors DEF DecideToken, Goto
<1>5. GrantsHold' /\ ClosedIsNotAuthorized'
  <2>1. decision \in {"authorized", "denied"} /\ (decision = "authorized" => actor[Gui].approve)
    OBVIOUS
  <2>2. LET grant == tokens[k].grant
        IN grants' = IF DecidesExactly(grant) THEN Decide(grant.target, decision) ELSE grants
    BY DEF DecideToken, DecideExactly
  <2> HIDE DEF decision
  <2> QED
    BY <1>1, <1>2, <2>1, <2>2, ExactGrants DEF DecideToken
<1> QED
  BY <1>4, <1>5, GrantsChange DEF DecideToken

LEMMA DenyTokenStep ==
  ASSUME ConsentInv, DenyToken PROVE ConsentInv'
<1> DEFINE s == [actor[Gui] EXCEPT !.pc = "dispose"]
           k == actor[Gui].token
<1>1. GuiHolds(actor[Gui], tokens, open, Approved) /\ actor[Gui].pc = "deny token"
  BY DEF DenyToken, At, ConsentInv, ActorsHold
<1>2. k \in DOMAIN tokens
  BY <1>1 DEF GuiHolds, Cancelling
<1>3. GuiHolds(s, tokens, open, Approved)
  BY <1>1 DEF GuiHolds, Deciding, Cancelling, ActorState, GuiPcs
<1>4. ActorsHold'
  BY <1>3, GuiActors DEF DenyToken, Goto
<1>5. GrantsHold' /\ ClosedIsNotAuthorized'
  <2>1. LET grant == tokens[k].grant
        IN grants' = IF DecidesExactly(grant) THEN Decide(grant.target, "denied") ELSE grants
    BY DEF DenyToken, DecideExactly
  <2> QED
    BY <1>1, <1>2, <2>1, ExactGrants DEF DenyToken
<1> QED
  BY <1>4, <1>5, GrantsChange DEF DenyToken

-----------------------------------------------------------------------------
LEMMA Inductive == ConsentInv /\ [Next]_vars => ConsentInv'
<1> SUFFICES ASSUME ConsentInv, [Next]_vars PROVE ConsentInv'
  OBVIOUS
<1>1. ASSUME NEW c \in Clients,
             \/ BeginRequest(c) \/ Request(c) \/ Present(c) \/ Lookup(c) \/ Compare(c)
             \/ FindWindow(c) \/ Store(c) \/ Link(c) \/ Show(c) \/ Focus(c) \/ DenyTarget(c)
             \/ BeginRevoke(c) \/ Revoke(c)
      PROVE  ConsentInv'
  BY <1>1, BeginRequestStep, RequestStep, PresentStep, LookupStep, CompareStep, FindWindowStep,
     StoreStep, LinkStep, ShowStep, FocusStep, DenyTargetStep, BeginRevokeStep, RevokeStep
<1>2. ASSUME NEW a \in Actors, Remove(a) \/ Unlink(a) PROVE ConsentInv'
  BY <1>2, RemoveStep, UnlinkStep
<1>3. ASSUME NEW w \in Windows, AnswerOverlay(w) \/ Navigate(w) \/ Clicked(w) \/ Destroyed(w)
      PROVE  ConsentInv'
  BY <1>3, AnswerOverlayStep, NavigateStep, ClickedStep, DestroyedStep
<1>4. ASSUME \/ DecideToken \/ ClearOverlay \/ RevokeWindow \/ Collect \/ Cancel
             \/ DenyToken \/ Dispose
      PROVE  ConsentInv'
  BY <1>4, DecideTokenStep, ClearOverlayStep, RevokeWindowStep, CollectStep, CancelStep,
     DenyTokenStep, DisposeStep
<1>5. ASSUME UNCHANGED vars PROVE ConsentInv'
  <2>1. ActorsHold'
    BY <1>5 DEF vars, ConsentInv, ActorsHold
  <2> QED
    BY <1>5, <2>1, Rest, NothingDecided DEF vars, ConsentInv
<1> QED
  BY <1>1, <1>2, <1>3, <1>4, <1>5 DEF Next

LEMMA Invariance == Spec => []ConsentInv
  BY Initially, Inductive, PTL DEF Spec

\* Every state of the program has the type the other properties rely on: grants are filed
\* under their own target, links and overlays name tokens of their own target and window.
THEOREM TypeCorrect == Spec => []TypeOK
<1>1. ConsentInv => TypeOK
  BY DEF ConsentInv, TypeOK, ActorsHold, ClientHolds, GuiHolds, GrantsHold, TokensHold, LinksHold,
     OverlaysHold, ClicksHold, Actors
<1> QED
  BY <1>1, Invariance, PTL

\* However requests, answers, navigations and window ends interleave, a grant that is
\* authorized is one whose own overlay was approved, for this target, window and terms.
THEOREM OnlyAnsweredIsAuthorized == Spec => []AnsweredIsAuthorized
<1>1. ConsentInv => AnsweredIsAuthorized
  BY DEF ConsentInv, GrantsHold, AllApproved, AnsweredIsAuthorized, Approved
<1> QED
  BY <1>1, Invariance, PTL

\* The grant of a window that is gone is revoked by the hook of its end and stays so.
THEOREM ClosedStaysUnauthorized == Spec => []ClosedIsNotAuthorized
<1>1. ConsentInv => ClosedIsNotAuthorized
  BY DEF ConsentInv
<1> QED
  BY <1>1, Invariance, PTL

\* cancel_window never asks for the lock that target_window_id_for_token holds.
THEOREM NeverStuck == Spec => []GuiGoesOn
<1>1. ConsentInv => GuiGoesOn
  BY DEF ConsentInv, ActorsHold, GuiHolds, GuiGoesOn, At
<1> QED
  BY <1>1, Invariance, PTL

\* Filing or deciding a grant authorizes nothing but a pending one.
LEMMA AuthorizesOnlyPending ==
  ConsentInv /\ [Next]_vars =>
    \A t \in Targets :
      grants'[t] = grants[t] \/ grants'[t].decision # "authorized" \/ Decided(t, "pending")
<1> DEFINE Safe == \A t \in Targets :
      grants'[t] = grants[t] \/ grants'[t].decision # "authorized" \/ Decided(t, "pending")
<1> SUFFICES ASSUME ConsentInv, [Next]_vars PROVE Safe
  OBVIOUS
<1>1. DOMAIN grants = Targets /\ \A t \in Targets :
        grants[t] # None => grants[t] \in [grant: Grant, decision: Decision]
  BY DEF ConsentInv, GrantsHold
<1>2. ASSUME UNCHANGED grants PROVE Safe
  BY <1>2
<1>3. ASSUME NEW t \in Targets, NEW decision, grants[t] # None, grants' = Decide(t, decision),
             decision # "authorized" \/ Decided(t, "pending")
      PROVE  Safe
  <2>1. /\ grants'[t] = [grants[t] EXCEPT !.decision = decision]
        /\ \A u \in Targets \ {t} : grants'[u] = grants[u]
    BY <1>1, <1>3 DEF Decide
  <2>2. grants'[t].decision = decision
    BY <1>1, <1>3, <2>1
  <2> QED
    BY <1>3, <2>1, <2>2
<1>4. ASSUME NEW c \in Clients, Request(c) PROVE Safe
  <2> DEFINE e == [grant |-> actor[c].grant, decision |-> "pending"]
  <2>1. UNCHANGED grants \/ grants' = [grants EXCEPT ![actor[c].grant.target] = e]
    BY <1>4 DEF Request
  <2>2. e.decision # "authorized"
    OBVIOUS
  <2> HIDE DEF e
  <2> QED
    BY <1>1, <1>2, <2>1, <2>2
<1>5. ASSUME NEW c \in Clients, DenyTarget(c) \/ Revoke(c) PROVE Safe
  <2>1. actor[c].target \in Targets
    BY <1>5 DEF DenyTarget, Revoke, At, ConsentInv, ActorsHold, ClientHolds
  <2>2. \/ UNCHANGED grants
        \/ /\ grants[actor[c].target] # None
           /\ grants' = Decide(actor[c].target, "denied") \/ grants' = Decide(actor[c].target, "revoked")
    BY <1>5 DEF DenyTarget, Revoke, Decided
  <2> QED
    BY <1>2, <1>3, <2>1, <2>2
<1>6. ASSUME DecideToken \/ DenyToken PROVE Safe
  <2> DEFINE target == tokens[actor[Gui].token].grant.target
  <2>1. actor[Gui].token \in DOMAIN tokens
    BY <1>6 DEF DecideToken, DenyToken, At, ConsentInv, ActorsHold, GuiHolds, Deciding, Cancelling
  <2>2. target \in Targets
    BY <2>1 DEF ConsentInv, TokensHold, Fits, Grant
  <2>3. \/ UNCHANGED grants
        \/ /\ grants[target] # None /\ Decided(target, "pending")
           /\ grants' = Decide(target, "authorized") \/ grants' = Decide(target, "denied")
    BY <1>6 DEF DecideToken, DenyToken, DecideExactly, DecidesExactly, Decided
  <2> HIDE DEF target
  <2> QED
    BY <1>2, <1>3, <2>2, <2>3
<1>7. ASSUME RevokeWindow PROVE Safe
  <2>1. actor[Gui].window \in Targets
    BY <1>7 DEF RevokeWindow, At, ConsentInv, ActorsHold, GuiHolds, Targets
  <2>2. \/ UNCHANGED grants
        \/ grants[actor[Gui].window] # None /\ grants' = Decide(actor[Gui].window, "revoked")
    BY <1>7 DEF RevokeWindow
  <2> QED
    BY <1>2, <1>3, <2>1, <2>2
<1>8. \/ UNCHANGED grants \/ DecideToken \/ DenyToken \/ RevokeWindow
      \/ \E c \in Clients : Request(c) \/ DenyTarget(c) \/ Revoke(c)
  BY DEF Next, vars, BeginRequest, Present, Lookup, Compare, FindWindow, Store, Link, Show, Focus,
     BeginRevoke, Remove, Unlink, AnswerOverlay, Navigate, Clicked, Destroyed, ClearOverlay, Collect,
     Cancel, Dispose
<1> QED
  BY <1>2, <1>4, <1>5, <1>6, <1>7, <1>8

\* An approval that arrives after its grant was denied or revoked counts for nothing.
THEOREM LateApprovalIsIgnored == Spec => NoLateApproval
<1>1. ConsentInv /\ [Next]_vars =>
        [\A t \in Targets :
           grants[t] # None /\ grants'[t].decision = "authorized"
             => grants[t].decision \in {"pending", "authorized"}]_vars
  BY AuthorizesOnlyPending DEF Decided
<1> QED
  BY <1>1, Invariance, PTL DEF Spec, NoLateApproval
=============================================================================
