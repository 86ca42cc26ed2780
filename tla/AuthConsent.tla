----------------------------- MODULE AuthConsent -----------------------------
(***************************************************************************)
(* Consent to an authenticated session (auth_session/authority.rs,         *)
(* auth_session/consent.rs, handler.rs).  Clients request and revoke       *)
(* grants; a request that is left pending is shown to the user as an       *)
(* overlay in a window's page, and the overlay's token comes back as a     *)
(* navigation on the GUI thread.  When a window is destroyed the GUI       *)
(* thread revokes its grant and cancels the requests shown in it.          *)
(*                                                                         *)
(* A target is a window or a domain; a domain is shown in a window that    *)
(* its request names.  What else a request states (browser, scope, reason, *)
(* domain of a window) is its terms.  Each mutex is taken for one step and *)
(* released.  A page that navigates loses the overlay, a new overlay       *)
(* replaces the old one, and a script posted to a destroyed window is      *)
(* dropped without an error.                                               *)
(***************************************************************************)
EXTENDS Naturals, Sequences, FiniteSets

CONSTANTS
  Windows, Domains, Clients,
  Terms,      \* what a request may ask
  Requests,   \* the grants clients ask for
  Gui,        \* the GUI thread
  Approvers,  \* who acts on a window's page: the user, and what runs in the page
  User,       \* the person at the display
  None,
  Scripts,    \* whether posting a script or focusing a window may fail
  MaxTokens   \* bound: overlays presented

Targets == Windows \cup Domains
Actors == Clients \cup {Gui}

\* PendingAuthGrant; ConsentRecord and AuthConsentView carry the same
Grant == [target: Targets, window: Windows, terms: Terms]
Decision == {"pending", "authorized", "denied", "revoked"}

ASSUME ConsentAssumption ==
  /\ Windows \cap Domains = {} /\ Gui \notin Clients
  /\ None \notin Windows \cup Domains \cup Clients \cup Terms \cup {Gui}
  /\ Requests \subseteq {grant \in Grant : grant.target \in Windows => grant.window = grant.target}
  /\ Scripts \in BOOLEAN /\ MaxTokens \in Nat

VARIABLES
  open,      \* the windows that are registered and have a handle
  grants,    \* target -> [grant, decision], or None
  tokens,    \* by_token: position k stands for the k-th UUID, as [grant, live]
  byTarget,  \* by_target: target -> token, or 0
  overlay,   \* window -> the token whose overlay its page shows, or 0
  click,     \* window -> the navigation on its way, as [token, approve], or None
  actor,     \* where each thread is and what it holds
  approvals  \* history: the grants whose overlay was approved, and by whom

vars == <<open, grants, tokens, byTarget, overlay, click, actor, approvals>>

Idle == [pc |-> "idle", target |-> None, grant |-> None, token |-> 0, then |-> "idle",
         approve |-> FALSE, window |-> None, todo |-> {}]

Init ==
  /\ open = Windows
  /\ grants = [t \in Targets |-> None]
  /\ tokens = <<>> /\ byTarget = [t \in Targets |-> 0]
  /\ overlay = [w \in Windows |-> 0] /\ click = [w \in Windows |-> None]
  /\ actor = [a \in Actors |-> Idle]
  /\ approvals = {}

At(a, pc) == actor[a].pc = pc
Goto(a, pc) == actor' = [actor EXCEPT ![a].pc = pc]
Return(a) == actor' = [actor EXCEPT ![a] = Idle]

Decided(t, decision) == grants[t] # None /\ grants[t].decision = decision
Decide(t, decision) == [grants EXCEPT ![t].decision = decision]
Live(k) == k # 0 /\ tokens[k].live

-----------------------------------------------------------------------------
(* A client's request *)

\* handle_auth_session: a window target must be registered, a domain's window
\* is only looked up when the request is presented.
BeginRequest(c) ==
  /\ At(c, "idle")
  /\ Len(tokens) + Cardinality({x \in Clients : ~At(x, "idle")}) < MaxTokens
  /\ \E grant \in Requests :
       /\ grant.target \in Windows => grant.target \in open
       /\ actor' = [actor EXCEPT ![c] = [Idle EXCEPT !.pc = "request", !.grant = grant]]
  /\ UNCHANGED <<open, grants, tokens, byTarget, overlay, click, approvals>>

\* AuthenticatedSessionAuthority::request
Request(c) ==
  /\ At(c, "request")
  /\ LET grant == actor[c].grant
         target == grant.target
     IN IF Decided(target, "authorized") /\ grants[target].grant.terms = grant.terms
        THEN Return(c) /\ UNCHANGED grants
        ELSE /\ grants' = [grants EXCEPT ![target] = [grant |-> grant, decision |-> "pending"]]
             /\ actor' = [actor EXCEPT ![c] = [Idle EXCEPT !.pc = "present", !.target = target]]
  /\ UNCHANGED <<open, tokens, byTarget, overlay, click, approvals>>

\* present: pending_grant, the grant as it now is
Present(c) ==
  /\ At(c, "present")
  /\ LET target == actor[c].target
     IN IF Decided(target, "pending")
        THEN actor' = [actor EXCEPT ![c] =
               [Idle EXCEPT !.pc = "lookup", !.grant = grants[target].grant]]
        ELSE Goto(c, "deny")
  /\ UNCHANGED <<open, grants, tokens, byTarget, overlay, click, approvals>>

\* present: the token the target already has
Lookup(c) ==
  /\ At(c, "lookup")
  /\ LET token == byTarget[actor[c].grant.target]
     IN actor' = [actor EXCEPT ![c].pc = IF token = 0 THEN "window" ELSE "compare",
                               ![c].token = token]
  /\ UNCHANGED <<open, grants, tokens, byTarget, overlay, click, approvals>>

\* present: a token for the same grant is taken as shown, another is dropped.
Compare(c) ==
  /\ At(c, "compare")
  /\ LET token == actor[c].token
     IN IF Live(token) /\ tokens[token].grant = actor[c].grant
        THEN Return(c)
        ELSE actor' = [actor EXCEPT ![c].pc = "remove", ![c].then = "window"]
  /\ UNCHANGED <<open, grants, tokens, byTarget, overlay, click, approvals>>

\* get_webview_window
FindWindow(c) ==
  /\ At(c, "window")
  /\ IF actor[c].grant.window \in open
     THEN Goto(c, "store")
     ELSE actor' = [actor EXCEPT ![c] =
            [Idle EXCEPT !.pc = "deny", !.target = actor[c].grant.target]]
  /\ UNCHANGED <<open, grants, tokens, byTarget, overlay, click, approvals>>

Store(c) ==
  /\ At(c, "store")
  /\ tokens' = Append(tokens, [grant |-> actor[c].grant, live |-> TRUE])
  /\ actor' = [actor EXCEPT ![c] =
       [Idle EXCEPT !.pc = "link", !.grant = actor[c].grant, !.token = Len(tokens) + 1]]
  /\ UNCHANGED <<open, grants, byTarget, overlay, click, approvals>>

\* Fault: linked under the window that shows it.
LinkWindow(c) ==
  /\ At(c, "link")
  /\ byTarget' = [byTarget EXCEPT ![actor[c].grant.window] = actor[c].token]
  /\ Goto(c, "show")
  /\ UNCHANGED <<open, grants, tokens, overlay, click, approvals>>

Link(c) ==
  /\ At(c, "link")
  /\ byTarget' = [byTarget EXCEPT ![actor[c].grant.target] = actor[c].token]
  /\ Goto(c, "show")
  /\ UNCHANGED <<open, grants, tokens, overlay, click, approvals>>

\* remove_record after a failed script, and then the handler denies the target
Undo(c) ==
  actor' = [actor EXCEPT ![c] =
    [Idle EXCEPT !.pc = "remove", !.then = "deny", !.target = actor[c].grant.target,
                 !.token = actor[c].token]]

\* parent.eval(consent_overlay_script)
Show(c) ==
  /\ At(c, "show")
  /\ LET window == actor[c].grant.window
     IN \/ /\ overlay' = IF window \in open THEN [overlay EXCEPT ![window] = actor[c].token]
                                            ELSE overlay
           /\ Goto(c, "focus")
        \/ Scripts /\ Undo(c) /\ UNCHANGED overlay
  /\ UNCHANGED <<open, grants, tokens, byTarget, click, approvals>>

\* parent.set_focus: the overlay is taken down again when it fails.
Focus(c) ==
  /\ At(c, "focus")
  /\ \/ Return(c) /\ UNCHANGED overlay
     \/ Scripts /\ Undo(c) /\ overlay' = [overlay EXCEPT ![actor[c].grant.window] = 0]
  /\ UNCHANGED <<open, grants, tokens, byTarget, click, approvals>>

\* handle_auth_session after an error of present: deny, whatever is pending now
DenyTarget(c) ==
  /\ At(c, "deny")
  /\ LET target == actor[c].target
     IN grants' = IF Decided(target, "pending") THEN Decide(target, "denied") ELSE grants
  /\ Return(c)
  /\ UNCHANGED <<open, tokens, byTarget, overlay, click, approvals>>

\* AuthenticatedSessionAuthority::revoke; nothing is applied, so nothing else follows
BeginRevoke(c) ==
  /\ At(c, "idle")
  /\ \E target \in Targets :
       /\ target \in Windows => target \in open
       /\ actor' = [actor EXCEPT ![c] = [Idle EXCEPT !.pc = "revoke", !.target = target]]
  /\ UNCHANGED <<open, grants, tokens, byTarget, overlay, click, approvals>>

Revoke(c) ==
  /\ At(c, "revoke")
  /\ LET target == actor[c].target
     IN grants' = IF grants[target] # None THEN Decide(target, "revoked") ELSE grants
  /\ Return(c)
  /\ UNCHANGED <<open, tokens, byTarget, overlay, click, approvals>>

-----------------------------------------------------------------------------
(* remove_record, on any thread: one lock after the other.  Every caller goes on *)
(* as it would with the record, except cancel_if_pending, which returns.         *)

Remove(a) ==
  /\ At(a, "remove")
  /\ LET token == actor[a].token
     IN IF Live(token)
        THEN tokens' = [tokens EXCEPT ![token].live = FALSE] /\ Goto(a, "unlink")
        ELSE /\ Goto(a, IF actor[a].then = "deny token" THEN "dispose" ELSE actor[a].then)
             /\ UNCHANGED tokens
  /\ UNCHANGED <<open, grants, byTarget, overlay, click, approvals>>

Unlink(a) ==
  /\ At(a, "unlink")
  /\ LET target == tokens[actor[a].token].grant.target
     IN byTarget' = IF byTarget[target] = actor[a].token
                    THEN [byTarget EXCEPT ![target] = 0] ELSE byTarget
  /\ Goto(a, actor[a].then)
  /\ UNCHANGED <<open, grants, tokens, overlay, click, approvals>>

-----------------------------------------------------------------------------
(* The user and the page (external) *)

\* The overlay asks one fixed question and is part of the page: the user may answer it, and so may
\* a script of the page or an interaction with it.
AnswerOverlay(w) ==
  /\ w \in open /\ overlay[w] # 0 /\ click[w] = None
  /\ \E approve \in BOOLEAN, by \in Approvers :
       /\ click' = [click EXCEPT ![w] = [token |-> overlay[w], approve |-> approve]]
       /\ approvals' = IF approve THEN approvals \cup {[grant |-> tokens[overlay[w]].grant, by |-> by]}
                                  ELSE approvals
  /\ UNCHANGED <<open, grants, tokens, byTarget, overlay, actor>>

Navigate(w) ==
  /\ w \in open /\ overlay[w] # 0
  /\ overlay' = [overlay EXCEPT ![w] = 0]
  /\ UNCHANGED <<open, grants, tokens, byTarget, click, actor, approvals>>

-----------------------------------------------------------------------------
(* The GUI thread *)

\* decide_for_window: the record is copied, and the window must be its own.
Clicked(w) ==
  /\ At(Gui, "idle") /\ w \in open /\ click[w] # None
  /\ click' = [click EXCEPT ![w] = None]
  /\ LET token == click[w].token
     IN IF Live(token) /\ tokens[token].grant.window = w
        THEN actor' = [actor EXCEPT ![Gui] =
               [Idle EXCEPT !.pc = "remove", !.then = "decide", !.approve = click[w].approve,
                            !.token = token, !.window = w]]
        ELSE UNCHANGED actor
  /\ UNCHANGED <<open, grants, tokens, byTarget, overlay, approvals>>

\* Fault: the grant is not compared.
DecidesTarget(grant) == Decided(grant.target, "pending")
\* Fault: the decision need not be pending.
DecidesAgain(grant) == grants[grant.target] # None /\ grants[grant.target].grant = grant

\* set_pending_decision with an expected grant
DecidesExactly(grant) == Decided(grant.target, "pending") /\ grants[grant.target].grant = grant

\* authorize_pending_exact or deny_pending_exact
DecideExactly(decision) ==
  LET grant == tokens[actor[Gui].token].grant
  IN grants' = IF DecidesExactly(grant) THEN Decide(grant.target, decision) ELSE grants

DecideToken ==
  /\ At(Gui, "decide")
  /\ DecideExactly(IF actor[Gui].approve THEN "authorized" ELSE "denied")
  /\ Goto(Gui, "clear")
  /\ UNCHANGED <<open, tokens, byTarget, overlay, click, approvals>>

\* remove_consent_overlay at the end of decide_for_window
ClearOverlay ==
  /\ At(Gui, "clear")
  /\ overlay' = [overlay EXCEPT ![actor[Gui].window] = 0]
  /\ Return(Gui)
  /\ UNCHANGED <<open, grants, tokens, byTarget, click, approvals>>

\* The Destroyed event: the window is gone for every lookup, and the hook follows.
Destroyed(w) ==
  /\ At(Gui, "idle") /\ w \in open
  /\ open' = open \ {w}
  /\ overlay' = [overlay EXCEPT ![w] = 0] /\ click' = [click EXCEPT ![w] = None]
  /\ actor' = [actor EXCEPT ![Gui] = [Idle EXCEPT !.pc = "revoke window", !.window = w]]
  /\ UNCHANGED <<grants, tokens, byTarget, approvals>>

\* Fault: the hook leaves the authority alone.
RevokeNoWindow ==
  /\ At(Gui, "revoke window") /\ Goto(Gui, "collect")
  /\ UNCHANGED <<open, grants, tokens, byTarget, overlay, click, approvals>>

RevokeWindow ==
  /\ At(Gui, "revoke window")
  /\ LET w == actor[Gui].window
     IN grants' = IF grants[w] # None THEN Decide(w, "revoked") ELSE grants
  /\ Goto(Gui, "collect")
  /\ UNCHANGED <<open, tokens, byTarget, overlay, click, approvals>>

\* cancel_window: the tokens of the window, as they are now
Collect ==
  /\ At(Gui, "collect")
  /\ LET w == actor[Gui].window
         todo == {k \in DOMAIN tokens : Live(k) /\ tokens[k].grant.window = w}
     IN actor' = [actor EXCEPT ![Gui].pc = "cancel", ![Gui].todo = todo]
  /\ UNCHANGED <<open, grants, tokens, byTarget, overlay, click, approvals>>

CancelFrom(pc) ==
  /\ At(Gui, "cancel")
  /\ LET todo == actor[Gui].todo
     IN \/ todo = {} /\ Return(Gui)
        \/ \E k \in todo :
             actor' = [actor EXCEPT ![Gui].pc = pc, ![Gui].then = "deny token", ![Gui].token = k]

\* Fault: the tokens are denied and kept.
CancelKept ==
  /\ CancelFrom("deny token")
  /\ UNCHANGED <<open, grants, tokens, byTarget, overlay, click, approvals>>

\* cancel_if_pending for each
Cancel ==
  /\ CancelFrom("remove")
  /\ UNCHANGED <<open, grants, tokens, byTarget, overlay, click, approvals>>

DenyToken ==
  /\ At(Gui, "deny token")
  /\ DecideExactly("denied")
  /\ Goto(Gui, "dispose")
  /\ UNCHANGED <<open, tokens, byTarget, overlay, click, approvals>>

\* target_window_id_for_token holds by_token's lock and, for a domain, takes it again.
Dispose ==
  /\ At(Gui, "dispose")
  /\ LET k == actor[Gui].token
     IN IF Live(k) /\ tokens[k].grant.target \in Domains
        THEN Goto(Gui, "stuck")
        ELSE actor' = [actor EXCEPT ![Gui].pc = "cancel", ![Gui].then = "idle",
                                    ![Gui].token = 0, ![Gui].todo = @ \ {k}]
  /\ UNCHANGED <<open, grants, tokens, byTarget, overlay, click, approvals>>

Next ==
  \/ \E c \in Clients :
       \/ BeginRequest(c) \/ Request(c) \/ Present(c) \/ Lookup(c) \/ Compare(c)
       \/ FindWindow(c) \/ Store(c) \/ Link(c) \/ Show(c) \/ Focus(c) \/ DenyTarget(c)
       \/ BeginRevoke(c) \/ Revoke(c)
  \/ \E a \in Actors : Remove(a) \/ Unlink(a)
  \/ \E w \in Windows : AnswerOverlay(w) \/ Navigate(w) \/ Clicked(w) \/ Destroyed(w)
  \/ DecideToken \/ ClearOverlay \/ RevokeWindow \/ Collect \/ Cancel
  \/ DenyToken \/ Dispose

Spec == Init /\ [][Next]_vars
-----------------------------------------------------------------------------
(* Properties *)

ClientPcs == {"idle", "request", "present", "lookup", "compare", "window", "store", "link",
              "show", "focus", "deny", "revoke", "remove", "unlink"}
GuiPcs == {"idle", "decide", "clear", "revoke window", "collect", "cancel", "deny token",
           "dispose", "stuck", "remove", "unlink"}

ActorState == [pc: ClientPcs \cup GuiPcs, then: ClientPcs \cup GuiPcs,
               target: Targets \cup {None}, grant: Grant \cup {None}, token: Nat,
               approve: BOOLEAN, window: Windows \cup {None}, todo: SUBSET Nat]

\* Grants are filed under their own target, tokens are linked to the target and shown in
\* the window of their grant.
TypeOK ==
  /\ open \subseteq Windows
  /\ grants \in [Targets -> {None} \cup [grant: Grant, decision: Decision]]
  /\ \A t \in Targets : grants[t] # None => grants[t].grant.target = t
  /\ tokens \in Seq([grant: Grant, live: BOOLEAN])
  /\ byTarget \in [Targets -> 0..Len(tokens)]
  /\ \A t \in Targets : byTarget[t] # 0 => tokens[byTarget[t]].grant.target = t
  /\ overlay \in [Windows -> 0..Len(tokens)]
  /\ \A w \in Windows : overlay[w] # 0 => w \in open /\ tokens[overlay[w]].grant.window = w
  /\ click \in [Windows -> {None} \cup [token: 1..Len(tokens), approve: BOOLEAN]]
  /\ actor \in [Actors -> ActorState]
  /\ actor[Gui].pc \in GuiPcs /\ \A c \in Clients : actor[c].pc \in ClientPcs
  /\ approvals \subseteq [grant: Grant, by: Approvers]

\* A grant is authorized only by the answer to its own overlay: one that was shown for this target,
\* window and these terms was approved, whatever requests replaced each other while the answer was
\* under way.  Who approved it, and what the overlay said, the code does not know.
AnsweredIsAuthorized ==
  \A t \in Targets : Decided(t, "authorized") => \E x \in approvals : x.grant = grants[t].grant

\* Only the user approves: the agent can "never approve or deny" a grant (docs/LINUX.md:97).
UserApproves ==
  \A t \in Targets : Decided(t, "authorized") => [grant |-> grants[t].grant, by |-> User] \in approvals

\* A grant that was denied or revoked is never authorized by a late approval: it has to
\* be requested again first.
NoLateApproval ==
  [][\A t \in Targets :
       grants[t] # None /\ grants'[t].decision = "authorized"
         => grants[t].decision \in {"pending", "authorized"}]_vars

\* Once the GUI thread has dealt with a window's end, the window's own grant is not
\* authorized, and no click that was under way makes it so.
ClosedIsNotAuthorized ==
  \A w \in Windows \ open :
    Decided(w, "authorized") => At(Gui, "revoke window") /\ actor[Gui].window = w

\* The GUI thread never waits for the lock it holds.
GuiGoesOn == ~At(Gui, "stuck")
=============================================================================
