------------------------------- MODULE Sessions -------------------------------
(***************************************************************************)
(* Signing in and staying signed in: AuthService, for one account and its  *)
(* membership of one company.                                              *)
(*                                                                         *)
(* Every step of a handler is a transaction of its own: refresh reads the  *)
(* token, revokes it and inserts its successor in three, a sign-in reads   *)
(* the account and inserts its token in two.  A login is one sign-in and   *)
(* all the tokens that descend from it.                                    *)
(***************************************************************************)
EXTENDS Rows

CONSTANTS
    Logins,
    Tokens,         \* rows of refresh_tokens
    ResetLinks,     \* rows of password_reset_tokens
    SessionHandlers \* requests served at the same time

ASSUME SessionsAssumption ==
    /\ None \notin Logins \cup Tokens \cup ResetLinks
    /\ IsFiniteSet(Tokens) /\ IsFiniteSet(SessionHandlers)

VARIABLES
    registered,     \* the account has a row
    admitted,       \* the membership is active
    suspended,      \* the company is suspended, cancelled or purged
    password,       \* how often it has been reset
    token,          \* refresh_tokens; late is history: inserted while a reset
                    \* was under way or after one its handler had not seen
    resetLink,      \* password_reset_tokens
    session,        \* what each handler is doing
    begun,          \* history: logins that signed in
    open,           \* history: those that nothing has ended
    forked          \* history: those a handler went on with that had ended or
                    \* been refreshed under it

sessionsVars == <<registered, admitted, suspended, password, token, resetLink,
                  session, begun, open, forked>>

NoToken == [status |-> "none", login |-> None, password |-> 0, late |-> FALSE]

NoRequest == [pc |-> "rest", login |-> None, password |-> 0, late |-> FALSE,
              item |-> None, saw |-> {}]

Live == {t \in Tokens : token[t].status = "live"}

Issuing(g) == {h \in SessionHandlers : session[h].pc = "issue" /\ session[h].login = g}

Account == <<registered, admitted, suspended, password>>

-----------------------------------------------------------------------------
(* Signing in. *)

SignIn(h, g) ==
    /\ session[h].pc = "rest"
    /\ g \notin begun
    /\ begun' = begun \cup {g}
    /\ open' = open \cup {g}
    /\ session' = [session EXCEPT ![h] =
            [NoRequest EXCEPT !.pc = "issue", !.login = g, !.password = password']]
    /\ UNCHANGED <<token, resetLink, forked>>

(* The company, the account and its membership in one transaction.         *)
SignUp(h, g) ==
    /\ ~registered
    /\ registered' = TRUE
    /\ UNCHANGED <<admitted, suspended, password>>
    /\ SignIn(h, g)

Login(h, g) ==
    /\ registered /\ admitted /\ ~suspended
    /\ UNCHANGED Account
    /\ SignIn(h, g)

(* The company's status is not looked at. *)
LoginWithGoogle(h, g) ==
    /\ registered /\ admitted
    /\ UNCHANGED Account
    /\ SignIn(h, g)

(* issueRefreshToken, after a sign-in or in refresh. *)
IssueRefreshToken(h, t) ==
    /\ session[h].pc = "issue"
    /\ token[t].status = "none"
    /\ token' = [token EXCEPT ![t] =
            [status |-> "live", login |-> session[h].login, password |-> session[h].password,
             late |-> \/ session[h].late
                      \/ session[h].password # password
                      \/ \E k \in SessionHandlers : session[k].pc = "commit"]]
    /\ session' = [session EXCEPT ![h] = NoRequest]
    /\ UNCHANGED <<Account, resetLink, begun, open, forked>>

-----------------------------------------------------------------------------
(* refresh. *)

ReadToken(h, t) ==
    /\ session[h].pc = "rest"
    /\ t \in Live
    /\ admitted /\ ~suspended
    /\ session' = [session EXCEPT ![h] =
            [NoRequest EXCEPT !.pc = "revoke", !.login = token[t].login, !.late = token[t].late,
                              !.password = token[t].password, !.item = t]]
    /\ UNCHANGED <<Account, token, resetLink, begun, open, forked>>

(* Mutant: the old token goes on beside the new one. *)
KeepOld(t) == UNCHANGED token

Revoke(t) == token' = [token EXCEPT ![t].status = "revoked"]

(* By id, whether or not it is still live. *)
RevokeRead(h) ==
    LET t == session[h].item
    IN  /\ session[h].pc = "revoke"
        /\ Revoke(t)
        /\ forked' = IF t \in Live THEN forked ELSE forked \cup {token[t].login}
        /\ session' = [session EXCEPT ![h] = [@ EXCEPT !.pc = "issue", !.item = None]]
        /\ UNCHANGED <<Account, resetLink, begun, open>>

(* revokeRefreshToken; or thirty days go by. *)
EndSession(t) ==
    /\ t \in Live
    /\ token' = [token EXCEPT ![t].status = "revoked"]
    /\ open' = open \ {token[t].login}
    /\ UNCHANGED <<Account, resetLink, session, begun, forked>>

-----------------------------------------------------------------------------
(* Resetting the password. *)

RequestPasswordReset(l) ==
    /\ registered
    /\ resetLink[l] = "none"
    /\ resetLink' = [resetLink EXCEPT ![l] = "fresh"]
    /\ UNCHANGED <<Account, token, session, begun, open, forked>>

(* Within the hour, or not. *)
ResetLinkExpires(l) ==
    /\ resetLink[l] = "fresh"
    /\ resetLink' = [resetLink EXCEPT ![l] = "expired"]
    /\ UNCHANGED <<Account, token, session, begun, open, forked>>

ReadResetLink(h, l) ==
    /\ session[h].pc = "rest"
    /\ resetLink[l] = "fresh"
    /\ session' = [session EXCEPT ![h] = [NoRequest EXCEPT !.pc = "reset", !.item = l]]
    /\ UNCHANGED <<Account, token, resetLink, begun, open, forked>>

(* Mutant: the sessions that a refresh has renewed are left. *)
NeverRefreshed == {t \in Live : \A u \in Tokens \ {t} : token[u].login # token[t].login}

(* revokedAt is null. *)
EverySession == Live

(* The updateMany that is to end every session starts. *)
RevokeEverySession(h) ==
    /\ session[h].pc = "reset"
    /\ session' = [session EXCEPT ![h] = [@ EXCEPT !.pc = "commit", !.saw = EverySession]]
    /\ UNCHANGED <<Account, token, resetLink, begun, open, forked>>

(* resetPassword commits; what was inserted since the updateMany started   *)
(* stays live.                                                             *)
ResetPassword(h) ==
    LET saw == session[h].saw
        Going(g) == Issuing(g) # {} \/ \E t \in Live \ saw : token[t].login = g
    IN  /\ session[h].pc = "commit"
        /\ password' = password + 1
        /\ resetLink' = [resetLink EXCEPT ![session[h].item] = "used"]
        /\ token' = [t \in Tokens |->
                IF t \in saw THEN [token[t] EXCEPT !.status = "revoked"] ELSE token[t]]
        /\ open' = {}
        /\ forked' = forked \cup {g \in begun : Going(g)}
        /\ session' = [session EXCEPT ![h] = NoRequest]
        /\ UNCHANGED <<registered, admitted, suspended, begun>>

-----------------------------------------------------------------------------
(* The process stops, or a statement fails: what was committed stays.      *)
SessionHandlerDies(h) ==
    /\ session[h].pc # "rest"
    /\ session' = [session EXCEPT ![h] = NoRequest]
    /\ open' = IF session[h].pc = "issue" THEN open \ {session[h].login} ELSE open
    /\ UNCHANGED <<Account, token, resetLink, begun, forked>>

(* deactivate, reactivate. *)
MembershipChanges ==
    /\ registered
    /\ admitted' = ~admitted
    /\ UNCHANGED <<registered, suspended, password, token, resetLink, session, begun, open, forked>>

UpdateTenantStatus ==
    /\ registered
    /\ suspended' = ~suspended
    /\ UNCHANGED <<registered, admitted, password, token, resetLink, session, begun, open, forked>>

-----------------------------------------------------------------------------
SessionsInit ==
    /\ registered = FALSE
    /\ admitted = TRUE
    /\ suspended = FALSE
    /\ password = 0
    /\ token = [t \in Tokens |-> NoToken]
    /\ resetLink = [l \in ResetLinks |-> "none"]
    /\ session = [h \in SessionHandlers |-> NoRequest]
    /\ begun = {}
    /\ open = {}
    /\ forked = {}

SessionsNext ==
    \/ \E h \in SessionHandlers :
        \/ \E g \in Logins : SignUp(h, g) \/ Login(h, g) \/ LoginWithGoogle(h, g)
        \/ \E t \in Tokens : IssueRefreshToken(h, t) \/ ReadToken(h, t)
        \/ \E l \in ResetLinks : ReadResetLink(h, l)
        \/ RevokeRead(h)
        \/ RevokeEverySession(h)
        \/ ResetPassword(h)
        \/ SessionHandlerDies(h)
    \/ \E t \in Tokens : EndSession(t)
    \/ \E l \in ResetLinks : RequestPasswordReset(l) \/ ResetLinkExpires(l)
    \/ MembershipChanges
    \/ UpdateTenantStatus

SessionsSpec == SessionsInit /\ [][SessionsNext]_sessionsVars

-----------------------------------------------------------------------------
(* Properties. *)

(* "A password reset is a strong signal to kill every existing session":   *)
(* a token that is live comes from a sign-in with the present password,    *)
(* through however many refreshes, unless its insert, or the handler that  *)
(* issued an ancestor of it, was under way when the password was reset.    *)
ResetEndsSessions ==
    \A t \in Live : ~token[t].late => token[t].password = password

(* A session that goes on has exactly one token: live, or about to be      *)
(* inserted by the handler that revoked its predecessor; one that a        *)
(* logout, expiry, a reset or the death of that handler ended has none.    *)
(* Not so when a token was refreshed twice at once, or refreshed while it  *)
(* was being ended.                                                        *)
SessionHasOneToken ==
    \A g \in Logins \ forked :
        Cardinality({t \in Live : token[t].login = g}) + Cardinality(Issuing(g))
            = IF g \in open THEN 1 ELSE 0
=============================================================================
