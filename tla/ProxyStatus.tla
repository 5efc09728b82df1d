---------------------------- MODULE ProxyStatus ----------------------------
(* The life of a row of proxy_accesses, as repositories/proxy_accesses.py    *)
(* writes it: what SOCKS5 and MTProto accesses have in common.               *)
EXTENDS FiniteSets, Integers

NoRow == "none"

ProxyStatuses == {"pending_apply", "active", "apply_failed", "pending_revoke", "revoke_failed",
             "revoked", "inactive", "pending_delete", "delete_failed", "deleted"}

\* The partial unique index of the table: one row per owner and type in these.
LiveStatuses == {"pending_apply", "active", "pending_revoke"}

\* The statuses on which a revocation returns the row as it is.
FinalStatuses == {"revoked", "inactive", "deleted"}

\* An UPDATE or INSERT that gives row a of `rows` the status s meets the index
\* when another row of the same owner is live: sqlite3.IntegrityError.
IndexAllows(rows, owner, a, s) ==
    s \in LiveStatuses =>
        \A b \in DOMAIN rows : b # a /\ owner[b] = owner[a] => rows[b] \notin LiveStatuses

\* mark_active changes nothing (and only logs) unless the row is in these.
CanActivate(s) == s \in {"pending_apply", "apply_failed"}

\* mark_revoked and mark_deleted raise InvalidTransition on rows in these.
RevokeRaises(s) == s \in {"revoked", "deleted"}
DeleteRaises(s) == s = "deleted"
DeactivateRaises(s) == s \in {"inactive", "revoked", "deleted"}
=============================================================================
