----------------------------- MODULE MCConsole -----------------------------
(* Two overlapping logins of an address from two clients, with a window of *)
(* two seconds and lockouts of three: two failures, a lockout that ends,   *)
(* and five more, of which the bound allows four; two overlapping requests *)
(* of a session that submit two reviewed tests; three calls that mail one  *)
(* key with two delivery ids: enough for a call that fails, one that is    *)
(* sent meanwhile, and one that retries; any handler of the pages,         *)
(* followed or overlapped by one of those asked for often, from two tabs.  *)
EXTENDS Console

MCOften ==
    {"dashboard", "operations_diagnostics_choices", "create_admin_owner", "logout"}

=============================================================================
