--------------------------- MODULE ProtocolSwitch ---------------------------
(* The switch of one protocol (services/protocol_modules.py) against those     *)
(* who get an access of it: a user's dialog in the bot (bot/handlers/proxy.py) *)
(* and the requests of the web app (webapp/app.py), which look at the switch   *)
(* before they create.                                                       *)
(* An access is none, live, failed (its removal failed) or gone.             *)
EXTENDS Integers, FiniteSets

CONSTANTS
    SwitchAdmins,   \* those who switch
    Calls,          \* presses and requests in flight at once
    MaxAccesses,    \* how many accesses are made
    MaxNonces,      \* how often the dialog asks
    MaxPurgeFaults  \* how many removals fail

ASSUME SwitchAssumption ==
    {MaxAccesses, MaxNonces, MaxPurgeFaults} \subseteq Nat /\ "none" \notin Calls

VARIABLES
    protocolOn,   \* protocol_modules.enabled
    access,       \* the accesses, by id
    sweep,        \* each administrator's disable_protocol
    call,         \* the presses and requests
    nonce,        \* the nonce in the chat's data, 0 without one
    nonces,       \* how many were handed out
    holder,       \* the press inside the user's confirm lock, or none
    madeFor,      \* the nonces an access was made for
    swept,        \* history: what the last sweep that disabled answers for: all that
                  \* existed when it began, but what it counted (and logged) as failed
    purgeFaults

swtVars == <<protocolOn, access, sweep, call, nonce, nonces, holder, madeFor, swept, purgeFaults>>

Ids == 1..MaxAccesses

Existing == {i \in Ids : access[i] # "none"}

Rows == {i \in Ids : access[i] \in {"live", "failed"}}

NoSweep == [at |-> "idle", todo |-> {}, known |-> {}]

NoCall == [at |-> "free", nonce |-> 0, read |-> 0]

SwtInit ==
    /\ protocolOn = TRUE /\ access = [i \in Ids |-> "none"]
    /\ sweep = [a \in SwitchAdmins |-> NoSweep] /\ call = [c \in Calls |-> NoCall]
    /\ nonce = 0 /\ nonces = 0 /\ holder = "none" /\ madeFor = {} /\ swept = {} /\ purgeFaults = 0

--------------------------------------------------------------------------------
(* The switch *)

\* disable_protocol collects the ids of all rows up front.
Collect(a) ==
    /\ sweep[a].at = "idle"
    /\ sweep' = [sweep EXCEPT ![a] = [at |-> "purging", todo |-> Rows, known |-> Rows]]
    /\ UNCHANGED <<protocolOn, access, call, nonce, nonces, holder, madeFor, swept, purgeFaults>>

\* A purger that raises: before it touched the row (the backend is degraded or not
\* ready, the write of the pending status fails), when the access is what it was,
\* or later, when the row is in a failed status.
Raises(i) ==
    /\ purgeFaults < MaxPurgeFaults /\ purgeFaults' = purgeFaults + 1
    /\ access' \in {access, [access EXCEPT ![i] = "failed"]}

\* Mutant: the first removal that fails ends the sweep.
PurgeStops(a) ==
    /\ sweep[a].at = "purging"
    /\ \E i \in sweep[a].todo :
         \/ /\ access[i] # "gone" /\ access' = [access EXCEPT ![i] = "gone"] /\ UNCHANGED purgeFaults
            /\ sweep' = [sweep EXCEPT ![a].todo = @ \ {i}]
         \/ /\ access[i] # "gone" /\ Raises(i)
            /\ sweep' = [sweep EXCEPT ![a].todo = {}, ![a].known = @ \ {i}]
    /\ UNCHANGED <<protocolOn, call, nonce, nonces, holder, madeFor, swept>>

\* One purger call of _purge_vpn_keys and _purge_proxy_accesses: one that fails
\* is counted, so that the sweep answers no longer for it, and the rest go on.
\* A row that is gone already fails too.  The order of the listing does not
\* matter here.
Purge(a) ==
    /\ sweep[a].at = "purging"
    /\ \E i \in sweep[a].todo :
         \/ /\ access[i] # "gone" /\ access' = [access EXCEPT ![i] = "gone"] /\ UNCHANGED purgeFaults
            /\ sweep' = [sweep EXCEPT ![a].todo = @ \ {i}]
         \/ /\ \/ access[i] = "gone" /\ UNCHANGED <<access, purgeFaults>>
               \/ access[i] # "gone" /\ Raises(i)
            /\ sweep' = [sweep EXCEPT ![a].todo = @ \ {i}, ![a].known = @ \ {i}]
    /\ UNCHANGED <<protocolOn, call, nonce, nonces, holder, madeFor, swept>>

\* Only then the module is marked, whatever was counted; the write may raise.
SetDisabled(a) ==
    /\ sweep[a].at = "purging" /\ sweep[a].todo = {} /\ sweep' = [sweep EXCEPT ![a] = NoSweep]
    /\ \/ protocolOn' = FALSE /\ swept' = sweep[a].known
       \/ UNCHANGED <<protocolOn, swept>>
    /\ UNCHANGED <<access, call, nonce, nonces, holder, madeFor, purgeFaults>>

\* enable_protocol
Enable ==
    /\ ~protocolOn /\ protocolOn' = TRUE /\ swept' = {}
    /\ UNCHANGED <<access, sweep, call, nonce, nonces, holder, madeFor, purgeFaults>>

--------------------------------------------------------------------------------
(* The dialog *)

\* proxy_get_prompt: offered, to one who has no access, while the module is
\* enabled.
Prompt ==
    /\ protocolOn /\ nonces < MaxNonces /\ nonces' = nonces + 1 /\ nonce' = nonces'
    /\ UNCHANGED <<protocolOn, access, sweep, call, holder, madeFor, swept, purgeFaults>>

\* proxy_confirm: any button handed out, in any state of the chat.
Confirm(c) ==
    /\ call[c].at = "free"
    /\ \E n \in 1..nonces : call' = [call EXCEPT ![c] = [at |-> "waiting", nonce |-> n, read |-> 0]]
    /\ UNCHANGED <<protocolOn, access, sweep, nonce, nonces, holder, madeFor, swept, purgeFaults>>

\* Inside the user's lock the data is read, then the accesses are listed.
EnterConfirm(c) ==
    /\ call[c].at = "waiting" /\ holder = "none" /\ holder' = c
    /\ call' = [call EXCEPT ![c].at = "reading", ![c].read = nonce]
    /\ UNCHANGED <<protocolOn, access, sweep, nonce, nonces, madeFor, swept, purgeFaults>>

\* Mutant: the state is cleared only after the access was made.
CheckNonceLater(c) ==
    /\ call[c].at = "reading"
    /\ IF call[c].read = call[c].nonce
       THEN call' = [call EXCEPT ![c].at = "creating"] /\ UNCHANGED <<holder, nonce>>
       ELSE call' = [call EXCEPT ![c] = NoCall] /\ holder' = "none" /\ nonce' = 0
    /\ UNCHANGED <<protocolOn, access, sweep, nonces, madeFor, swept, purgeFaults>>

\* A press whose nonce is not the one read is stale; both clear the state.
CheckNonce(c) ==
    /\ call[c].at = "reading" /\ nonce' = 0
    /\ IF call[c].read = call[c].nonce
       THEN call' = [call EXCEPT ![c].at = "creating"] /\ UNCHANGED holder
       ELSE call' = [call EXCEPT ![c] = NoCall] /\ holder' = "none"
    /\ UNCHANGED <<protocolOn, access, sweep, nonces, madeFor, swept, purgeFaults>>

\* proxy_cancel, and the sweep of idle sessions.
Cancel ==
    /\ nonce # 0 /\ nonce' = 0
    /\ UNCHANGED <<protocolOn, access, sweep, call, nonces, holder, madeFor, swept, purgeFaults>>

--------------------------------------------------------------------------------
(* The web app *)

\* A request that finds the module enabled goes on to create.
Request(c) ==
    /\ call[c].at = "free" /\ protocolOn /\ call' = [call EXCEPT ![c].at = "creating"]
    /\ UNCHANGED <<protocolOn, access, sweep, nonce, nonces, holder, madeFor, swept, purgeFaults>>

\* api_admin_issue_user_key
IssueKey(c) == Request(c)

\* _api_admin_issue_proxy
IssueProxy(c) == Request(c)

\* api_create_awg_key and api_create_xray_key
RequestKey(c) == Request(c)

\* api_proxy_create_socks5 and api_proxy_create_mtproto
RequestProxy(c) == Request(c)

--------------------------------------------------------------------------------
(* The protocol's service, as the callers see it *)

\* Neither create_..._key nor issue_..._proxy looks at the switch.
Create(c) ==
    /\ call[c].at = "creating" /\ call' = [call EXCEPT ![c] = NoCall]
    /\ holder' = IF holder = c THEN "none" ELSE holder
    /\ \/ /\ Existing # Ids
          /\ access' = [access EXCEPT ![Cardinality(Existing) + 1] = "live"]
          /\ madeFor' = madeFor \union ({call[c].nonce} \ {0})
       \/ UNCHANGED <<access, madeFor>>
    /\ UNCHANGED <<protocolOn, sweep, nonce, nonces, swept, purgeFaults>>

\* An access is revoked or deleted.
Removed ==
    /\ \E i \in Rows : access' = [access EXCEPT ![i] = "gone"]
    /\ UNCHANGED <<protocolOn, sweep, call, nonce, nonces, holder, madeFor, swept, purgeFaults>>

RemoveProxy == Removed

RemoveKey == Removed

\* _api_admin_proxy_mutation, _api_admin_key_mutation
RemoveProxyFor == Removed

RemoveKeyFor == Removed

\* What is in memory is lost.
RestartApp ==
    /\ sweep' = [a \in SwitchAdmins |-> NoSweep] /\ call' = [c \in Calls |-> NoCall]
    /\ nonce' = 0 /\ holder' = "none"
    /\ UNCHANGED <<protocolOn, access, nonces, madeFor, swept, purgeFaults>>

SwtNext ==
    \/ \E a \in SwitchAdmins : Collect(a) \/ Purge(a) \/ SetDisabled(a)
    \/ \E c \in Calls :
        \/ Confirm(c) \/ EnterConfirm(c) \/ CheckNonce(c) \/ Create(c)
        \/ IssueKey(c) \/ IssueProxy(c) \/ RequestKey(c) \/ RequestProxy(c)
    \/ Enable \/ Prompt \/ Cancel \/ RestartApp \/ RemoveProxy \/ RemoveKey \/ RemoveProxyFor \/ RemoveKeyFor

SwtSpec == SwtInit /\ [][SwtNext]_swtVars

--------------------------------------------------------------------------------
(* Properties *)

SwtTypeOK ==
    /\ protocolOn \in BOOLEAN /\ access \in [Ids -> {"none", "live", "failed", "gone"}]
    /\ sweep \in [SwitchAdmins -> [at : {"idle", "purging"}, todo : SUBSET Ids, known : SUBSET Ids]]
    /\ call \in [Calls -> [at : {"free", "waiting", "reading", "creating"},
                          nonce : 0..MaxNonces, read : 0..MaxNonces]]
    /\ {nonce, nonces} \subseteq 0..MaxNonces /\ holder \in Calls \union {"none"}
    /\ madeFor \subseteq 1..MaxNonces /\ swept \subseteq Ids /\ purgeFaults \in 0..MaxPurgeFaults

(* disable_protocol: once the module is disabled, what existed when the sweep  *)
(* began is not live, but for what that sweep counted as failed (a purger may *)
(* raise before it touches the row): no access is passed over, whatever other *)
(* removal failed or was done by somebody else in between, and however two     *)
(* administrators overlap; a sweep that counts no failure left nothing live.   *)
SweptIsNotLive == ~protocolOn => \A i \in swept : access[i] # "live"

(* bot/handlers/proxy.py proxy_confirm: a prompt makes one access at most,     *)
(* whichever of its buttons, old or new, are pressed together.               *)
OneForEachPrompt ==
    [][\A c \in Calls : Create(c) /\ access' # access => call[c].nonce \notin madeFor]_swtVars

(* services/protocol_modules.py:24-27, of the removals that fail: "so          *)
(* disabling never silently orphans live access".                            *)
DisabledIsEmpty == ~protocolOn => \A i \in Ids : access[i] # "live"
=============================================================================
