------------------------- MODULE EnforcementSlots -------------------------
(***************************************************************************)
(* The keys of the local enforcement tables of an agent                    *)
(* (crates/agent-sdk/src/guard.rs).  The guard keeps three maps: blocked   *)
(* IPs, revoked sessions and revoked capabilities.  One slot is one key of *)
(* one of them, tagged with the table it belongs to.                       *)
(*                                                                         *)
(* A target entity is a string that may carry a kind prefix ("ip:...",     *)
(* "session:..."); only the prefix and the rest matter to the code, so a   *)
(* target is a record of the two.                                          *)
(***************************************************************************)
EXTENDS Naturals, Sequences

CONSTANTS
  Name,         \* what follows the prefix of a target entity
  Capability,   \* capabilities a command may revoke
  None          \* the absent capability, IP or session

\* ThrottleActor, RestrictScope and IsolateService share one match arm of the
\* guard ("_ =>"), so they are one action type here.
ActionType == {"RevokeSession", "BlockNetwork", "RevokeCapability", "Other"}

Target == [prefix : {"", "ip:", "session:"}, name : Name]

\* str::trim_start_matches(prefix)
Strip(target, prefix) ==
  [target EXCEPT !.prefix = IF target.prefix = prefix THEN "" ELSE target.prefix]

IpSlot(ip) == <<"blocked_ips", Strip(ip, "ip:")>>
SessionSlot(session) == <<"revoked_sessions", Strip(session, "session:")>>
RawSessionSlot(target) == <<"revoked_sessions", target>>
CapabilitySlot(target, capability) == <<"revoked_capabilities", target, capability>>

\* A map with no keys.
EmptyMap == [x \in {} |-> x]

Slot ==
  ({"blocked_ips", "revoked_sessions"} \X Target)
    \cup ({"revoked_capabilities"} \X Target \X Capability)

\* The table key(s) apply_command writes for a command: none when a capability
\* revocation names no capability.
SlotsOf(cmd) ==
  CASE cmd.action = "BlockNetwork"     -> {IpSlot(cmd.target)}
    [] cmd.action = "RevokeSession"    -> {SessionSlot(cmd.target)}
    [] cmd.action = "RevokeCapability" -> {CapabilitySlot(cmd.target, c) :
                                             c \in {cmd.capability} \ {None}}
    [] cmd.action = "Other"            -> {RawSessionSlot(cmd.target)}

\* The table keys rollback_action(target, action) removes: every capability of
\* the target when a capability revocation is rolled back.
RollbackSlots(target, action) ==
  CASE action = "BlockNetwork"     -> {IpSlot(target)}
    [] action = "RevokeSession"    -> {SessionSlot(target)}
    [] action = "RevokeCapability" -> {CapabilitySlot(target, c) : c \in Capability}
    [] action = "Other"            -> {RawSessionSlot(target)}

\* The keys is_request_allowed looks up, in the order it looks them up.  The
\* capability is only looked up when a session is given, under the session's
\* own spelling.
RequestSlots(request) ==
  (IF request.ip = None THEN <<>> ELSE <<IpSlot(request.ip)>>)
    \o (IF request.session = None THEN <<>> ELSE <<SessionSlot(request.session)>>)
    \o (IF request.session = None \/ request.capability = None THEN <<>>
        ELSE <<CapabilitySlot(request.session, request.capability)>>)
=============================================================================
