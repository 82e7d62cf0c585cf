------------------------- MODULE GoogleIntegration -------------------------
(***************************************************************************)
(* The connection of one user to Google: the page with the button that     *)
(* asks for the address of the consent, the popup it opens, the callback   *)
(* that stores the tokens, and the callers of GetToken, which refresh an   *)
(* expired access token and write it back.  Refresh tokens (grants) and    *)
(* access tokens are numbered as Google gives them out; the answer to a    *)
(* refresh may have a new refresh token or none.                           *)
(***************************************************************************)
EXTENDS Naturals, FiniteSets

CONSTANTS
  Callers,                \* concurrent callers of GetToken
  MaxGrants,              \* bound: refresh tokens
  MaxTokens,              \* bound: access tokens
  Failures,               \* whether the database or the exchange may fail
  NoValue

VARIABLES
  isLoading, requests,    \* the page, and its requests that are in flight
  popup, code,            \* what the popup shows, and the grant behind its code
  grants, live,           \* Google: refresh tokens given out, and not revoked
  tokens, fresh,          \* Google: access tokens given out, and not expired
  row,                    \* the row of oauth_integration
  caller                  \* the callers of GetToken
page == <<isLoading, requests>>
google == <<grants, live, tokens, fresh>>
vars == <<page, popup, code, google, row, caller>>

MaxRequests == 2          \* bound: requests in flight

Tokens == [refresh : (1 .. MaxGrants) \cup {NoValue}, access : 1 .. MaxTokens]
Idle == [at |-> "idle", token |-> NoValue, read |-> NoValue]
Failed == [at |-> "failed", token |-> NoValue, read |-> NoValue]

TypeOK ==
  /\ isLoading \in BOOLEAN /\ requests \in 0 .. 1
  /\ popup \in {"closed", "consent", "late", "callback", "late callback", "error"}
  /\ grants \in 0 .. MaxGrants /\ live \subseteq 1 .. grants /\ code \in 0 .. grants
  /\ tokens \in 0 .. MaxTokens /\ fresh \subseteq 1 .. tokens
  /\ row # NoValue => row \in Tokens
  /\ \A c \in Callers :
       /\ caller[c].at \in {"idle", "read", "update", "done", "failed"}
       /\ caller[c].token # NoValue => caller[c].token \in Tokens
       /\ caller[c].read # NoValue => caller[c].read \in Tokens

-----------------------------------------------------------------------------
(* The page.                                                               *)

ButtonEnabled == ~isLoading

connectGmail ==
  /\ ButtonEnabled
  /\ requests < MaxRequests
  /\ isLoading' = TRUE /\ requests' = requests + 1
  /\ UNCHANGED <<popup, code, google, row, caller>>

\* The popup has a name: it is opened, or sent to the new address.
AuthUrlArrives ==
  /\ requests > 0
  /\ popup' = "consent"
  /\ isLoading' = FALSE /\ requests' = requests - 1
  /\ UNCHANGED <<code, google, row, caller>>

AuthUrlFails ==
  /\ Failures /\ requests > 0
  /\ isLoading' = FALSE /\ requests' = requests - 1
  /\ UNCHANGED <<popup, code, google, row, caller>>

-----------------------------------------------------------------------------
(* The popup.                                                              *)

ClosePopup ==
  /\ popup # "closed"
  /\ popup' = "closed"
  /\ UNCHANGED <<page, code, google, row, caller>>

\* The signed state is good for ten minutes.
StateExpires ==
  /\ popup \in {"consent", "callback"}
  /\ popup' = IF popup = "consent" THEN "late" ELSE "late callback"
  /\ UNCHANGED <<page, code, google, row, caller>>

\* The user agrees; the prompt is forced, so that there is a refresh token.
Consent ==
  /\ popup \in {"consent", "late"} /\ grants < MaxGrants
  /\ grants' = grants + 1 /\ live' = live \cup {grants'} /\ code' = grants'
  /\ popup' = IF popup = "consent" THEN "callback" ELSE "late callback"
  /\ UNCHANGED <<page, tokens, fresh, row, caller>>

\* A row per user and provider: the insert of StoreToken fails on a second.
StoreToken(token) ==
  IF row = NoValue THEN row' = token /\ popup' = "closed"
                   ELSE UNCHANGED row /\ popup' = "error"

HandleCallBack ==
  \/ /\ popup = "callback" /\ code \in live
     /\ tokens < MaxTokens
     /\ tokens' = tokens + 1 /\ fresh' = fresh \cup {tokens'}
     /\ StoreToken([refresh |-> code, access |-> tokens'])
     /\ UNCHANGED <<page, code, grants, live, caller>>
  \/ /\ popup \in {"callback", "late callback"}
     /\ popup = "late callback" \/ code \notin live \/ Failures
     /\ popup' = "error"
     /\ UNCHANGED <<page, code, google, row, caller>>

-----------------------------------------------------------------------------
(* Google.                                                                 *)

Revoke ==
  /\ \E g \in live : live' = live \ {g}
  /\ UNCHANGED <<page, popup, code, grants, tokens, fresh, row, caller>>

Expire ==
  /\ \E t \in fresh : fresh' = fresh \ {t}
  /\ UNCHANGED <<page, popup, code, grants, live, tokens, row, caller>>

-----------------------------------------------------------------------------
(* GetToken.                                                               *)

GetByUserID(c) ==
  /\ caller[c].at = "idle"
  /\ caller' = [caller EXCEPT ![c] =
       IF row = NoValue THEN Failed ELSE [at |-> "read", token |-> row, read |-> NoValue]]
  /\ UNCHANGED <<page, popup, code, google, row>>

\* Mutant: what Google answers is taken as it is.
AsAnswered(token, answer) == answer

\* TokenSource keeps the refresh token it has when the answer has none.
Refreshed(token, answer) ==
  IF answer.refresh = NoValue THEN [token EXCEPT !.access = answer.access] ELSE answer

\* A token that has not expired is returned as it is; for another one Google
\* is asked, and answers with an access token and, perhaps, a refresh token.
TokenSource(c) ==
  /\ caller[c].at = "read"
  /\ LET token == caller[c].token
     IN \/ /\ token.access \in fresh
           /\ caller' = [caller EXCEPT ![c].at = "done"]
           /\ UNCHANGED google
        \/ /\ token.access \notin fresh /\ token.refresh \in live
           /\ tokens < MaxTokens
           /\ tokens' = tokens + 1 /\ fresh' = fresh \cup {tokens'}
           /\ \E g \in {NoValue, grants + 1} :
                /\ IF g = NoValue THEN UNCHANGED <<grants, live>>
                   ELSE grants < MaxGrants /\ grants' = g /\ live' = live \cup {g}
                /\ caller' = [caller EXCEPT ![c] =
                     [at |-> "update", token |-> Refreshed(token, [refresh |-> g, access |-> tokens']),
                      read |-> token]]
        \/ /\ token.access \notin fresh /\ token.refresh \notin live
           /\ caller' = [caller EXCEPT ![c] = Failed]
           /\ UNCHANGED google
  /\ UNCHANGED <<page, popup, code, row>>

\* A token that is not the one that was read is stored: the row is written as
\* a whole, whatever it holds by now.
UpdateToken(c) ==
  /\ caller[c].at = "update"
  /\ \/ row' = caller[c].token /\ caller' = [caller EXCEPT ![c].at = "done", ![c].read = NoValue]
     \/ Failures /\ caller' = [caller EXCEPT ![c] = Failed] /\ UNCHANGED row
  /\ UNCHANGED <<page, popup, code, google>>

Return(c) ==
  /\ caller[c].at \in {"done", "failed"}
  /\ caller' = [caller EXCEPT ![c] = Idle]
  /\ UNCHANGED <<page, popup, code, google, row>>

GetToken(c) == GetByUserID(c) \/ TokenSource(c) \/ UpdateToken(c) \/ Return(c)

-----------------------------------------------------------------------------
Init ==
  /\ isLoading = FALSE /\ requests = 0 /\ popup = "closed" /\ code = 0
  /\ grants = 0 /\ live = {} /\ tokens = 0 /\ fresh = {}
  /\ row = NoValue
  /\ caller = [c \in Callers |-> Idle]

Next ==
  \/ connectGmail \/ AuthUrlArrives \/ AuthUrlFails
  \/ ClosePopup \/ StateExpires \/ Consent \/ HandleCallBack
  \/ Revoke \/ Expire
  \/ \E c \in Callers : GetToken(c)

Spec == Init /\ [][Next]_vars

-----------------------------------------------------------------------------
(* Properties.                                                             *)

\* Callers that refresh the same expired token at the same time, and write
\* their tokens back in any order, leave the row with a refresh token.  It goes
\* back to an older one only through a caller whose copy of the row is stale:
\* somebody stored a newer answer between its GetByUserID and its UpdateToken.
RefreshTokenKept ==
  [][row # NoValue =>
       /\ row' # NoValue /\ row'.refresh # NoValue
       /\ row'.refresh < row.refresh =>
            \E c \in Callers : caller[c].at = "update" /\ caller[c].read # row]_row

=============================================================================
