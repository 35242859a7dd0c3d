---------------------------- MODULE ClientTokens --------------------------
(***************************************************************************)
(* The access token an API client keeps (idoxxyClient.ts with OAuth        *)
(* switched on, shoperClient.ts): fetched when the cached one is about to  *)
(* expire, used by whatever requests run meanwhile, for every attempt of a *)
(* request the one it began with.                                          *)
(*                                                                         *)
(* Time is what is left of each token and how long each call has been      *)
(* waited for; a step of Tick is the grain of the constants.               *)
(***************************************************************************)
EXTENDS Integers

CONSTANTS
    None,
    Requests,   \* calls of authorizedRequest on one client
    Margin,     \* the seconds taken off expires_in
    Timeout,    \* of the HTTP client
    Tries,      \* MAX_RETRIES; 1 for the client that repeats nothing
    Pause,      \* the longest back-off between two attempts
    Lives,      \* expires_in as the servers grant it
    MaxLife     \* and its bound

ASSUME TokensAssumption ==
    /\ Margin \in Nat /\ Timeout \in Nat \ {0} /\ Tries \in Nat \ {0} /\ Pause \in Nat
    /\ MaxLife \in Nat /\ Lives \subseteq Margin .. MaxLife

\* What the margin has to cover: the answer that brought the token, and all
\* attempts of a request with the pauses between them.
ASSUME MarginAssumption == Timeout + Tries * (Timeout + Pause) < Margin + Pause

VARIABLES
    tokenCache, \* the token kept and when it is to be replaced, or None
    request     \* what a call is doing, None when there is none

tokensVars == <<tokenCache, request>>

Left == 0 .. MaxLife

CachedToken == [token : Left,      \* until the server expires it
                expires : Left]    \* until expiresAt

Request ==
    [step : {"ask", "told", "askAgain", "send", "sendAgain"},
     waited : Nat,                 \* since the step's call or pause began
     tries : 1 .. Tries,
     token : Left,                 \* what is left of the token in hand
     life : Lives \cup {0}]        \* expires_in as it was told

TokensTypeOK ==
    /\ tokenCache \in CachedToken \cup {None}
    /\ request \in [Requests -> Request \cup {None}]

TokensInit ==
    /\ tokenCache = None
    /\ request = [r \in Requests |-> None]

---------------------------------------------------------------------------
At(r, steps) == request[r] # None /\ request[r].step \in steps

Becomes(r, new) == request' = [request EXCEPT ![r] = new]

\* `tokenCache.expiresAt > Date.now()`
Usable == tokenCache # None /\ tokenCache.expires > 0

Sending(token) == [step |-> "send", waited |-> 0, tries |-> 1, token |-> token, life |-> 0]

\* getAccessToken, of a client nobody is fetching a token for as far as this
\* call can tell: calls that find the cache empty together each fetch one.
GetToken(r) ==
    /\ request[r] = None
    /\ Becomes(r, IF Usable THEN Sending(tokenCache.token)
                  ELSE [step |-> "ask", waited |-> 0, tries |-> 1, token |-> 0, life |-> 0])
    /\ UNCHANGED tokenCache

\* The server grants a token; the answer is still under way.
Granted(r) ==
    /\ At(r, {"ask"})
    /\ \E life \in Lives :
         Becomes(r, [request[r] EXCEPT !.step = "told", !.token = life, !.life = life])
    /\ UNCHANGED tokenCache

\* Seeded fault: the whole of expires_in.
KeptToTheEnd(life) == life

\* expiresAt - Date.now()
KeptFor(life) == life - Margin

\* The answer: the cache is replaced, whatever another call put there meanwhile.
TokenFetched(r) ==
    /\ At(r, {"told"})
    /\ tokenCache' = [token |-> request[r].token, expires |-> KeptFor(request[r].life)]
    /\ Becomes(r, Sending(request[r].token))

\* No answer, a 5xx or a 429: again after a pause, at most MAX_RETRIES times.
AttemptFails(r) ==
    LET q == request[r] IN
    /\ At(r, {"ask", "told", "send"})
    /\ Becomes(r, IF q.tries = Tries THEN None
                  ELSE [q EXCEPT !.waited = 0, !.tries = @ + 1,
                                 !.step = IF q.step = "send" THEN "sendAgain" ELSE "askAgain"])
    /\ UNCHANGED tokenCache

\* The next attempt; a request's has the headers of the first.
Again(r) ==
    LET q == request[r] IN
    /\ At(r, {"askAgain", "sendAgain"})
    /\ Becomes(r, IF q.step = "askAgain"
                  THEN [q EXCEPT !.step = "ask", !.waited = 0, !.token = 0, !.life = 0]
                  ELSE [q EXCEPT !.step = "send", !.waited = 0])
    /\ UNCHANGED tokenCache

\* An answer, or an error that is not repeated.
Answered(r) ==
    /\ At(r, {"ask", "send"})
    /\ Becomes(r, None)
    /\ UNCHANGED tokenCache

---------------------------------------------------------------------------
Due(r) ==
    /\ request[r] # None
    /\ request[r].waited = IF request[r].step \in {"askAgain", "sendAgain"} THEN Pause ELSE Timeout

Less(n) == IF n = 0 THEN 0 ELSE n - 1

\* Time passes, but past no timeout and no pause.
Tick ==
    /\ \A r \in Requests : ~Due(r)
    /\ tokenCache' = IF tokenCache = None THEN None
                     ELSE [token |-> Less(tokenCache.token), expires |-> Less(tokenCache.expires)]
    /\ request' = [r \in Requests |->
                     IF request[r] = None THEN None
                     ELSE [request[r] EXCEPT !.waited = @ + 1, !.token = Less(@)]]

TokensNext ==
    \/ \E r \in Requests :
          \/ GetToken(r) \/ Granted(r) \/ TokenFetched(r)
          \/ AttemptFails(r) \/ Again(r) \/ Answered(r)
    \/ Tick

TokensSpec == TokensInit /\ [][TokensNext]_tokensVars

---------------------------------------------------------------------------
\* While an attempt is waited for, its token has not expired: the margin
\* covers the slowest answer and every repetition, and a token another call
\* replaced meanwhile serves out its request.
TokenLasts == \A r \in Requests : At(r, {"send"}) => request[r].token > 0
===========================================================================
