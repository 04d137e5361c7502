------------------------------ MODULE Gateway ------------------------------
(***************************************************************************)
(* Who gets to a case: the life of the server process from the start-up     *)
(* check of its settings (app/core/config.py), through the token map that   *)
(* every request parses anew (app/core/security.py) and the endpoints'      *)
(* dependencies (app/api.py), to the graph the request is served by          *)
(* (GraphCache).  Settings are cached until the process ends, and so is     *)
(* everything else: the saver is in memory.                                  *)
(*                                                                         *)
(* API_TOKENS is a sequence of entries (split at commas) of fields (split   *)
(* at colons), each stripped of blanks.  An approval is one step here;      *)
(* Service takes it apart.  A refused request changes nothing.               *)
(***************************************************************************)
EXTENDS GraphCache, SequencesExt

CONSTANTS Configurations,  \* what the environment may say when a process starts
          Lowered,         \* the strings str.lower changes, and what it makes of them
          Tokens,          \* what callers may present besides nothing at all
          Names            \* what an approval's body may claim besides nothing

Roles == {"analyst", "approver"}

ASSUME BlankAssumption == "" \notin Tokens \cup Names

\* What splitting a string leaves.
ASSUME EntriesAssumption == \A s \in Configurations : s.api_tokens \in Seq(Seq(STRING))

VARIABLES
  settings,                \* get_settings(): of this process, None while down
  request,                 \* what every worker was asked to do, and by whom
  used,                    \* the thread ids uuid4 has produced, ever
  waiting,                 \* the cases paused for authorisation
  decisions                \* the decisions recorded on cases, with their tokens

gatewayVars == <<vars, settings, request, used, waiting, decisions>>

\* str.lower: the strings outside the table are those it leaves alone.
Lower(text) == IF text \in DOMAIN Lowered THEN Lowered[text] ELSE text

ASSUME LoweredAssumption ==
  /\ \A text \in DOMAIN Lowered : text \in STRING /\ Lowered[text] \in STRING \ DOMAIN Lowered
  /\ (Roles \cup {"production", "prod"}) \cap DOMAIN Lowered = {}

-----------------------------------------------------------------------------
(* Settings.                                                               *)

IsProduction(s) == Lower(s.environment) \in {"production", "prod"}

Nothing == <<"">>          \* an entry, or a whole value, of blanks

BugProductionMayBeOpen(s) ==
  /\ s.llm_provider # "stub" => s.api_key
  /\ s.auth_enabled => s.api_tokens # <<Nothing>>
  /\ IsProduction(s) => s.llm_provider # "stub"

\* Settings._validate_provider_credentials.
MayStart(s) ==
  /\ s.llm_provider # "stub" => s.api_key
  /\ s.auth_enabled => s.api_tokens # <<Nothing>>
  /\ IsProduction(s) => s.auth_enabled /\ s.llm_provider # "stub"

-----------------------------------------------------------------------------
(* Tokens.                                                                 *)

Malformed == [ok |-> FALSE, tokens |-> <<>>]

\* Role(role_name.lower())
RoleOf(entry) == Lower(IF Len(entry) = 3 THEN entry[3] ELSE "analyst")

\* The four reasons for a ConfigurationError, in one.
Rejects(known, entry) ==
  \/ Len(entry) \notin {2, 3}
  \/ entry[1] = "" \/ entry[2] = ""
  \/ RoleOf(entry) \notin Roles
  \/ entry[1] \in DOMAIN known

\* tokens[token] = principal
Put(known, token, principal) ==
  [t \in DOMAIN known \cup {token} |-> IF t = token THEN principal ELSE known[t]]

BugLaterEntryWins(parsed, entry) ==
  IF ~parsed.ok \/ entry = Nothing THEN parsed
  ELSE IF Rejects(<<>>, entry) THEN Malformed
  ELSE [parsed EXCEPT !.tokens =
          Put(@, entry[1], [name |-> entry[2], role |-> RoleOf(entry)])]

\* One turn of the loop of parse_api_tokens; the first error ends it.
AddEntry(parsed, entry) ==
  IF ~parsed.ok \/ entry = Nothing THEN parsed
  ELSE IF Rejects(parsed.tokens, entry) THEN Malformed
  ELSE [parsed EXCEPT !.tokens =
          Put(@, entry[1], [name |-> entry[2], role |-> RoleOf(entry)])]

ParseApiTokens(raw) ==
  LET parsed[i \in 0..Len(raw)] ==
        IF i = 0 THEN [ok |-> TRUE, tokens |-> <<>>]
        ELSE AddEntry(parsed[i - 1], raw[i])
  IN parsed[Len(raw)]

\* principal_for_token; an empty token is refused before anything is parsed.
PrincipalsFor(token) ==
  LET parsed == ParseApiTokens(settings.api_tokens)
  IN IF token # "" /\ parsed.ok /\ token \in DOMAIN parsed.tokens
     THEN {parsed.tokens[token]} ELSE {}

Unauthenticated == [name |-> "", role |-> "none"]

\* authenticate: whom the request goes on as; none means 401, or 400 when the
\* tokens are malformed.
Authenticate(token) ==
  IF settings.auth_enabled THEN PrincipalsFor(token) ELSE {Unauthenticated}

\* require_approver: 403 for a principal of another role.
RequireApprover(principal) == principal = Unauthenticated \/ principal.role = "approver"

\* _resolve_approver: an authenticated principal's name wins; without one the
\* body has to name somebody, or it is a 422.
ResolveApprover(principal, claimed) ==
  IF principal # Unauthenticated THEN {principal.name} ELSE {claimed} \ {""}
-----------------------------------------------------------------------------
(* The process and its requests.                                           *)

NoRequest == [op |-> "none", thread |-> None, token |-> "", approver |-> ""]

GatewayInit ==
  /\ Init
  /\ settings = None
  /\ request = [w \in Workers |-> NoRequest]
  /\ used = {} /\ waiting = {} /\ decisions = {}

\* The server imports the application and reads the settings, or refuses to.
Start ==
  /\ settings = None
  /\ \E s \in Configurations : MayStart(s) /\ settings' = s
  /\ UNCHANGED <<vars, request, used, waiting, decisions>>

\* The process ends, at any moment, and with it everything but the uuids.
Stop ==
  /\ settings # None
  /\ settings' = None
  /\ cache' = None /\ answered' = {}
  /\ pc' = [w \in Workers |-> "idle"]
  /\ graph' = [w \in Workers |-> None]
  /\ holds' = [w \in Workers |-> {}]
  /\ request' = [w \in Workers |-> NoRequest]
  /\ waiting' = {} /\ decisions' = {}
  /\ UNCHANGED used

\* POST /investigations and GET /investigations/{thread_id} get past authenticate.
Ask(w) ==
  /\ settings # None
  /\ Call(w)
  /\ \E token \in Tokens \cup {""}, op \in {"open", "read"} :
       /\ Authenticate(token) # {}
       /\ request' = [request EXCEPT ![w].op = op, ![w].token = token]
  /\ UNCHANGED <<settings, used, waiting, decisions>>

\* POST /investigations/{thread_id}/approval gets past its dependencies, for a
\* thread id some caller was given, by this process or an earlier one.
AskToDecide(w) ==
  /\ settings # None
  /\ Call(w)
  /\ \E token \in Tokens \cup {""}, claimed \in Names \cup {""}, t \in used :
       \E principal \in Authenticate(token) :
         /\ RequireApprover(principal)
         /\ \E approver \in ResolveApprover(principal, claimed) :
              request' = [request EXCEPT ![w] =
                [op |-> "decide", thread |-> t, token |-> token, approver |-> approver]]
  /\ UNCHANGED <<settings, used, waiting, decisions>>

\* get_graph(), called by all three service functions.
GetGraph(w) ==
  /\ Hit(w) \/ Miss(w) \/ Built(w)
  /\ UNCHANGED <<settings, request, used, waiting, decisions>>

Answered(w) == request' = [request EXCEPT ![w] = NoRequest]

\* The case is investigated and ends, or waits for a reviewer: 200 or 202.
OpenCase(w) ==
  /\ request[w].op = "open"
  /\ \E t \in Threads \ used :
       /\ Investigate(w) /\ answered' = answered \cup {t}
       /\ used' = used \cup {t}
       /\ waiting' \in {waiting, waiting \cup {t}}
  /\ Answered(w)
  /\ UNCHANGED <<settings, decisions>>

\* The case is returned, or is not to be found (404).
ReadCase(w) ==
  /\ request[w].op = "read"
  /\ UseGraph(w) /\ Answered(w)
  /\ UNCHANGED <<settings, used, waiting, decisions>>

\* What resume_investigation finds in the graph it was given.
Found(w) == request[w].thread \in holds[graph[w]] \cap waiting

DecideCase(w) ==
  /\ request[w].op = "decide"
  /\ UseGraph(w) /\ Found(w) /\ Answered(w)
  /\ waiting' = waiting \ {request[w].thread}
  /\ decisions' = decisions \cup {[thread |-> request[w].thread,
                                   token |-> request[w].token,
                                   approver |-> request[w].approver]}
  /\ UNCHANGED <<settings, used>>

\* 404: no such case in this graph.  409: it does not wait for anyone.
NothingToDecide(w) ==
  /\ request[w].op = "decide"
  /\ UseGraph(w) /\ ~Found(w) /\ Answered(w)
  /\ UNCHANGED <<settings, used, waiting, decisions>>

GatewayNext ==
  \/ Start \/ Stop
  \/ \E w \in Workers : \/ Ask(w) \/ AskToDecide(w) \/ GetGraph(w)
                        \/ OpenCase(w) \/ ReadCase(w)
                        \/ DecideCase(w) \/ NothingToDecide(w)

GatewaySpec == GatewayInit /\ [][GatewayNext]_gatewayVars
-----------------------------------------------------------------------------
(* What the people who run it rely on.                                     *)

Entries(raw) == ToSet(raw) \ {Nothing}

\* API_TOKENS as its documentation has it: token:principal[:role] entries, none
\* of a token that another entry has; the case of a role does not matter.
WellFormed(raw) ==
  /\ \A entry \in Entries(raw) : /\ Len(entry) \in {2, 3}
                                 /\ entry[1] # "" /\ entry[2] # ""
                                 /\ Len(entry) = 3 => Lower(entry[3]) \in Roles
  /\ \A i, j \in DOMAIN raw :
       (i # j /\ Nothing \notin {raw[i], raw[j]}) => raw[i][1] # raw[j][1]

\* "Malformed configuration raises rather than silently granting or denying
\* access" (app/core/security.py): with authentication on, a malformed value
\* that got past the start-up check lets nobody in, whatever its other entries
\* say, and a well-formed one lets in everybody it names.
AdmitsExactlyTheConfigured ==
  settings # None /\ settings.auth_enabled =>
    LET raw == settings.api_tokens IN
      /\ \A w \in Workers : request[w].op # "none" =>
           /\ WellFormed(raw)
           /\ \E entry \in Entries(raw) : entry[1] = request[w].token
      /\ WellFormed(raw) =>
           \A entry \in Entries(raw) : Authenticate(entry[1]) # {}

\* An entry that makes the bearer of a token an approver of that name.
Approves(entry, token, name) ==
  /\ Len(entry) = 3
  /\ entry[1] = token /\ entry[2] = name /\ Lower(entry[3]) = "approver"

\* "An approval must be attributable to an authenticated reviewer, not to a name
\* supplied in the request body" (app/core/config.py): every decision recorded
\* by a production process, or by any other with authentication on, carries the
\* name that an entry has between the caller's token and the approver role, in
\* whatever case ENVIRONMENT and the role are spelled.
ProductionDecisionsAreSigned ==
  settings # None /\ (IsProduction(settings) \/ settings.auth_enabled) =>
    \A d \in decisions : \E entry \in Entries(settings.api_tokens) :
      Approves(entry, d.token, d.approver)
=============================================================================
