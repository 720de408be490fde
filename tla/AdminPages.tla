----------------------------- MODULE AdminPages -----------------------------
(***************************************************************************)
(* The handlers of the admin pages, each as the sequence of its steps: who *)
(* is let in, where it returns early, what its transactions write, which   *)
(* calls follow a commit, and what the browser is left with.  A machine    *)
(* runs them for a signed-in administrator who works in several tabs.      *)
(*                                                                         *)
(* A page replaces the form token of its session and shows the new one; an *)
(* action accepts the newest token only, and shows the submitted one again *)
(* when it answers with a form.  A `return' from inside a transaction      *)
(* commits what was written so far, an exception rolls it back.            *)
(* ENABLE_ADMIN_DASHBOARD is set; without it every handler is a 404.       *)
(***************************************************************************)
EXTENDS Integers, Sequences

CONSTANTS
    Tab,         \* tabs of the administrator's browser
    Visit,       \* requests that may be in progress at the same time
    Often,       \* names of the handlers that follow or overlap any other
    MaxVisits    \* bound: requests of a behaviour

VARIABLES
    auth,     \* the session: is it live, its token, the tab it was issued to
    shown,    \* per tab: the token in the form on display, 0 if there is none
    visit,    \* per request: its handler, its step and what it did
    visits,   \* requests started
    told      \* history: the last answer, and what had been committed

pageVars == <<auth, shown, visit, visits, told>>

-----------------------------------------------------------------------------
(* Steps *)

\* An id in the path that is not a UUID answers 404.
Target == [does |-> "target"]

\* _admin_page_context validates the session and replaces its token,
\* _admin_action_context validates session and submitted token,
\* _admin_attachment_context validates the session and writes nothing.
Page == [does |-> "page"]
Action == [does |-> "action"]
Attach == [does |-> "attach"]

\* An early return with an error page, or with the form.  Within a transaction
\* it commits what is written.
Return(answer) == [does |-> "return", answer |-> answer]

\* An exception that leaves the transaction, caught around it.
Raise(answer) == [does |-> "raise", answer |-> answer]

Write(rows) == [does |-> "write", row |-> rows]
WriteIf(rows) == [does |-> "writeif", row |-> rows]

\* The end of a transaction.  If its acknowledgement is lost the exception is
\* caught by nobody (a 500), or reported as unconfirmed.
Committed == [does |-> "commit", lost |-> "crashed"]
CommittedOrUnconfirmed == [does |-> "commit", lost |-> "unconfirmed"]

\* A call outside a transaction whose failure is reported in the result, or
\* caught by nobody.
Try == [does |-> "try"]
Invoke == [does |-> "call"]

\* What the browser gets: a page with a form that holds the token of the
\* request, a result without a form, a file or JSON beside the page on
\* display, or a redirect.
Show == [does |-> "show"]
Result == [does |-> "result"]
File == [does |-> "file"]
Redirect(handler) == [does |-> "goto", handler |-> handler]

-----------------------------------------------------------------------------
(* Forms and lists *)

\* The filters of a list, and _admin_list_pagination.
Filtered == <<Page, Return("error")>>
Paged == <<Return("error"), Show>>

dashboard == <<Page, Show>>
list_admin_keys == Filtered \o Paged
create_admin_key_form == <<Page, Show>>
bulk_import_admin_keys_form == <<Page, Show>>
admin_key_templates_list == <<Page, Show>>
list_admin_owners == Filtered \o Paged
new_admin_owner_form == <<Page, Show>>
list_admin_institutions == Filtered \o Paged
new_admin_institution_form == <<Page, Show>>
list_admin_cohorts == Filtered \o Paged
new_admin_cohort_form == <<Page, Show>>
list_admin_providers == Filtered \o Paged
new_admin_provider_form == <<Page, Show>>
list_admin_routes == Filtered \o Paged
admin_openai_assisted_index == <<Page, Show>>
admin_openai_assisted_pricing_form == <<Page, Show>>
admin_openai_assisted_routes_form == <<Page, Show>>
admin_route_import_form == <<Page, Show>>
create_admin_route_form == <<Page, Show>>
list_admin_pricing_rules == Filtered \o Paged
admin_pricing_import_form == <<Page, Show>>
create_admin_pricing_rule_form == <<Page, Show>>
list_admin_fx_rates == Filtered \o Paged
create_admin_fx_rate_form == <<Page, Show>>
admin_fx_import_form == <<Page, Show>>
list_admin_usage == Filtered \o Paged
list_admin_audit_logs == Filtered \o Paged
list_admin_email_deliveries == Filtered \o Paged
operations_index == <<Page, Show>>
operations_diagnostics_page == <<Page, Show>>
operations_process_configuration_page == <<Page, Show>>
usage_export_form == <<Page, Show>>
pricing_disable_form == <<Page, Show>>
batch_key_form == <<Page, Show>>
admin_smtp_test_form == <<Page, Show>>
admin_smtp_test_apply_recovery == <<Page, Show>>
replay_maintenance_index == <<Page, Show>>
replay_maintenance_all_active == <<Page, Show>>

\* Inspection failures are shown on the page.
compatibility_index == <<Page, Try, Show>>

-----------------------------------------------------------------------------
(* Details *)

\* The row may be gone.
Find == Return("error")

admin_key_detail == <<Target, Page, Find, Show>>
admin_key_calibration_form == <<Target, Page, Find, Return("error"), Show>>
admin_key_template_detail == <<Target, Page, Find, Show>>
admin_owner_detail == <<Target, Page, Find, Show>>
edit_admin_owner_form == <<Target, Page, Find, Show>>
admin_institution_detail == <<Target, Page, Find, Show>>
edit_admin_institution_form == <<Target, Page, Find, Show>>
admin_cohort_detail == <<Target, Page, Find, Show>>
edit_admin_cohort_form == <<Target, Page, Find, Show>>
edit_admin_provider_form == <<Target, Page, Find, Show>>
admin_provider_detail == <<Target, Page, Find, Show>>
admin_provider_discover_form == <<Target, Page, Find, Show>>
edit_admin_route_form == <<Target, Page, Find, Show>>
admin_route_detail == <<Target, Page, Find, Show>>
edit_admin_pricing_rule_form == <<Target, Page, Find, Show>>
admin_pricing_rule_detail == <<Target, Page, Find, Show>>
edit_admin_fx_rate_form == <<Target, Page, Find, Show>>
admin_fx_rate_detail == <<Target, Page, Find, Show>>
admin_usage_detail == <<Target, Page, Find, Show>>
admin_audit_detail == <<Target, Page, Find, Show>>
admin_email_delivery_detail == <<Target, Page, Find, Show>>
compatibility_preset_page == <<Page, Find, Show>>
compatibility_key_page == <<Target, Page, Find, Show>>
route_configuration_form == <<Target, Page, Find, Show>>

\* The form shows whether the key can be cloned now (_probe_clone_eligibility).
clone_key_form == <<Target, Page, Find, Try, Show>>

\* A scope whose id is a known credential value is not shown.
replay_maintenance_key_scope == <<Page, Target, Find, Return("error"), Show>>
replay_maintenance_cohort_scope == <<Page, Target, Find, Return("error"), Show>>

\* Filters, then credential values, then the links to other pages; a source
\* beyond its bound is reported on the page.
usage_summary_report ==
    <<Page, Return("error"), Return("error"), Return("form"), Return("error"), Show>>
usage_live_burn_report ==
    <<Page, Return("error"), Return("error"), Return("form"), Show>>
fx_rate_lookup ==
    <<Page, Return("error"), Return("error"), Return("error"), Show>>

-----------------------------------------------------------------------------
(* Downloads and lookups: the page they are asked from stays on display *)

\* Mutant: a download authenticates like a page.
DownloadAsPage == <<Target, Page, Find, Return("error"), File>>

download_admin_key_configuration == <<Target, Attach, Find, Return("error"), File>>
admin_codex_profile_artifact ==
    <<Target, Attach, Find, Return("error"), Return("error"), Return("error"), File>>
compatibility_preset_download == <<Attach, Find, Return("error"), File>>

\* _admin_lookup_context; an unknown kind and too many values answer 400.
list_record_choices == <<Attach, Return("data"), Return("data"), Return("data"), File>>

\* _admin_choices_context verifies the token of the page and does not replace it.
Lookup == [does |-> "lookup"]

\* Kind, namespace, the search, the selected values, and the store.
operations_diagnostics_choices ==
    <<Lookup, Return("data"), Return("data"), Return("data"), Return("data"),
      Return("data"), Return("data"), Return("data"), File>>

-----------------------------------------------------------------------------
(* Actions that change nothing *)

preview_bulk_import_admin_keys == <<Action, Return("form"), Show>>
admin_route_import_preview == <<Action, Return("form"), Show>>
admin_pricing_import_preview == <<Action, Return("form"), Show>>
admin_fx_import_preview == <<Action, Return("form"), Show>>

\* A failure is looked at once more to tell a missing key from a wrong purpose.
preview_admin_key_calibration ==
    <<Target, Action, Return("error"), Return("error"), Return("form"), Show>>

\* The only action that also renders a page of its own, with a new token.
explain_admin_key_route_access ==
    <<Target, Action, Page, Find, Find, Return("error"), Show>>

\* The provider is asked for its models; nothing is stored.
admin_provider_discover_preview ==
    <<Target, Action, Find, Return("form"), Return("form"), Show>>

operations_diagnostics_lookup ==
    <<Action, Return("error"), Return("form"), Return("form"), Show>>

\* Scope and bounds, credential values, and the inspection.
replay_maintenance_inspect ==
    <<Action, Return("error"), Return("error"), Return("error"), Show>>

\* The operation and its source, a dry run, and the signature.
compatibility_key_review ==
    <<Target, Action, Return("error"), Return("error"), Return("error"),
      Return("error"), Return("error"), Return("error"), Return("error"), Show>>

\* Selection and policy, the plan, and the signature.
batch_key_plan == <<Action, Return("form"), Return("form"), Return("form"), Show>>

-----------------------------------------------------------------------------
(* Actions that write *)

\* _handle_admin_key_email_delivery_in_transaction
PendingMail == <<WriteIf("mail"), Raise("form")>>

\* The form, its policy and the way the key is to be mailed.
NewKeyForm == <<Action, Return("form"), Return("form"), Return("form")>>

\* Mutant: the cohort is looked up after the key is created.
NewKeyBeforeCohort ==
    <<Return("form"), Raise("form"), Write("key"), Return("form")>> \o PendingMail
    \o <<Committed>>

\* One transaction; a missing owner or cohort returns from inside it.
NewKeyRows ==
    <<Return("form"), Return("form"), Raise("form"), Write("key")>> \o PendingMail
    \o <<Committed>>

\* Mailing now, or by the worker, is reported with the key.
NewKeyMailed == <<Try, Try, Result>>

create_admin_key == NewKeyForm \o NewKeyRows \o NewKeyMailed

\* All keys and their mails in one transaction, then the worker's tasks.
execute_bulk_import_admin_keys ==
    <<Action, Return("form"), Return("form"), Raise("form"), Write("keys")>>
    \o PendingMail \o <<Committed, Try, Show>>

create_template_from_admin_key_calibration ==
    <<Target, Action, Return("error"), Return("form"), Raise("form"),
      Write("template"), Committed, Redirect("admin_key_template_detail")>>

TemplateKeyForm ==
    <<Target, Action, Find, Return("form"), Return("form")>>

\* Here a task the worker cannot be given is caught by nobody.
TemplateKeyRows ==
    <<Raise("form"), Raise("form"), Raise("form"), Write("key")>> \o PendingMail
    \o <<Committed, Try, Invoke, Result>>

create_admin_key_from_template_revision == TemplateKeyForm \o TemplateKeyRows

create_admin_owner ==
    <<Action, Return("form"), Raise("form"), Write("owner"), Committed,
      Redirect("admin_owner_detail")>>
create_admin_institution ==
    <<Action, Return("form"), Raise("form"), Write("institution"), Committed,
      Redirect("admin_institution_detail")>>
create_admin_cohort ==
    <<Action, Return("form"), Raise("form"), Write("cohort"), Committed,
      Redirect("admin_cohort_detail")>>

\* The row may be gone, or its new values taken.
update_admin_owner ==
    <<Target, Action, Return("form"), Raise("error"), Raise("form"),
      Write("owner"), Committed, Redirect("admin_owner_detail")>>
update_admin_institution ==
    <<Target, Action, Return("form"), Raise("error"), Raise("form"),
      Write("institution"), Committed, Redirect("admin_institution_detail")>>
update_admin_cohort ==
    <<Target, Action, Return("form"), Raise("error"), Raise("form"),
      Write("cohort"), Committed, Redirect("admin_cohort_detail")>>

\* A proposal is recorded in the audit log once the model has answered.
admin_openai_assisted_pricing_propose ==
    <<Action, Return("form"), Return("form"), Write("audit"), Committed, Show>>
admin_openai_assisted_routes_propose ==
    <<Action, Return("form"), Return("form"), Write("audit"), Committed, Show>>

\* Confirmation, reason and filters, and a file that is audited.
export_admin_usage_csv ==
    <<Action, Return("error"), Return("error"), Return("error"),
      Write("audit"), Committed, File>>
export_admin_audit_csv ==
    <<Action, Return("error"), Return("error"), Return("error"),
      Write("audit"), Committed, File>>

\* The ceiling and credential values are found out inside the transaction.
usage_export_json ==
    <<Action, Return("error"), Return("error"), Return("error"), Return("error"),
      Return("error"), Return("error"), Return("error"), Return("error"),
      Write("audit"), Committed, File>>

\* Confirmation, and three ways a reason is refused.
operations_diagnostics_cleanup ==
    <<Action, Return("form"), Return("form"), Return("form"), Return("form"),
      Write("audit"), CommittedOrUnconfirmed, Show>>

\* The signed review, its key, the confirmation and credential values; the
\* operation may be refused or find no key.
compatibility_key_apply ==
    <<Target, Action, Return("error"), Return("error"), Return("error"),
      Return("error"), Raise("error"), Raise("error"), Write("key"),
      CommittedOrUnconfirmed, Show>>

replay_maintenance_apply ==
    <<Action, Return("error"), Return("error"), Return("error"), Raise("error"),
      Raise("error"), Write("references"), CommittedOrUnconfirmed, Show>>

\* Validated, verified and revoked in one transaction.
logout == <<[does |-> "logout"]>>

-----------------------------------------------------------------------------
(* The machine *)

Handlers ==
    [ dashboard |-> dashboard,
      list_admin_keys |-> list_admin_keys,
      create_admin_key_form |-> create_admin_key_form,
      bulk_import_admin_keys_form |-> bulk_import_admin_keys_form,
      admin_key_templates_list |-> admin_key_templates_list,
      list_admin_owners |-> list_admin_owners,
      new_admin_owner_form |-> new_admin_owner_form,
      list_admin_institutions |-> list_admin_institutions,
      new_admin_institution_form |-> new_admin_institution_form,
      list_admin_cohorts |-> list_admin_cohorts,
      new_admin_cohort_form |-> new_admin_cohort_form,
      list_admin_providers |-> list_admin_providers,
      new_admin_provider_form |-> new_admin_provider_form,
      list_admin_routes |-> list_admin_routes,
      admin_openai_assisted_index |-> admin_openai_assisted_index,
      admin_openai_assisted_pricing_form |-> admin_openai_assisted_pricing_form,
      admin_openai_assisted_routes_form |-> admin_openai_assisted_routes_form,
      admin_route_import_form |-> admin_route_import_form,
      create_admin_route_form |-> create_admin_route_form,
      list_admin_pricing_rules |-> list_admin_pricing_rules,
      admin_pricing_import_form |-> admin_pricing_import_form,
      create_admin_pricing_rule_form |-> create_admin_pricing_rule_form,
      list_admin_fx_rates |-> list_admin_fx_rates,
      create_admin_fx_rate_form |-> create_admin_fx_rate_form,
      admin_fx_import_form |-> admin_fx_import_form,
      list_admin_usage |-> list_admin_usage,
      list_admin_audit_logs |-> list_admin_audit_logs,
      list_admin_email_deliveries |-> list_admin_email_deliveries,
      operations_index |-> operations_index,
      operations_diagnostics_page |-> operations_diagnostics_page,
      operations_process_configuration_page |-> operations_process_configuration_page,
      usage_export_form |-> usage_export_form,
      pricing_disable_form |-> pricing_disable_form,
      batch_key_form |-> batch_key_form,
      admin_smtp_test_form |-> admin_smtp_test_form,
      admin_smtp_test_apply_recovery |-> admin_smtp_test_apply_recovery,
      replay_maintenance_index |-> replay_maintenance_index,
      replay_maintenance_all_active |-> replay_maintenance_all_active,
      compatibility_index |-> compatibility_index,
      admin_key_detail |-> admin_key_detail,
      admin_key_calibration_form |-> admin_key_calibration_form,
      admin_key_template_detail |-> admin_key_template_detail,
      admin_owner_detail |-> admin_owner_detail,
      edit_admin_owner_form |-> edit_admin_owner_form,
      admin_institution_detail |-> admin_institution_detail,
      edit_admin_institution_form |-> edit_admin_institution_form,
      admin_cohort_detail |-> admin_cohort_detail,
      edit_admin_cohort_form |-> edit_admin_cohort_form,
      edit_admin_provider_form |-> edit_admin_provider_form,
      admin_provider_detail |-> admin_provider_detail,
      admin_provider_discover_form |-> admin_provider_discover_form,
      edit_admin_route_form |-> edit_admin_route_form,
      admin_route_detail |-> admin_route_detail,
      edit_admin_pricing_rule_form |-> edit_admin_pricing_rule_form,
      admin_pricing_rule_detail |-> admin_pricing_rule_detail,
      edit_admin_fx_rate_form |-> edit_admin_fx_rate_form,
      admin_fx_rate_detail |-> admin_fx_rate_detail,
      admin_usage_detail |-> admin_usage_detail,
      admin_audit_detail |-> admin_audit_detail,
      admin_email_delivery_detail |-> admin_email_delivery_detail,
      compatibility_preset_page |-> compatibility_preset_page,
      compatibility_key_page |-> compatibility_key_page,
      route_configuration_form |-> route_configuration_form,
      clone_key_form |-> clone_key_form,
      replay_maintenance_key_scope |-> replay_maintenance_key_scope,
      replay_maintenance_cohort_scope |-> replay_maintenance_cohort_scope,
      usage_summary_report |-> usage_summary_report,
      usage_live_burn_report |-> usage_live_burn_report,
      fx_rate_lookup |-> fx_rate_lookup,
      download_admin_key_configuration |-> download_admin_key_configuration,
      admin_codex_profile_artifact |-> admin_codex_profile_artifact,
      compatibility_preset_download |-> compatibility_preset_download,
      list_record_choices |-> list_record_choices,
      operations_diagnostics_choices |-> operations_diagnostics_choices,
      preview_bulk_import_admin_keys |-> preview_bulk_import_admin_keys,
      admin_route_import_preview |-> admin_route_import_preview,
      admin_pricing_import_preview |-> admin_pricing_import_preview,
      admin_fx_import_preview |-> admin_fx_import_preview,
      preview_admin_key_calibration |-> preview_admin_key_calibration,
      explain_admin_key_route_access |-> explain_admin_key_route_access,
      admin_provider_discover_preview |-> admin_provider_discover_preview,
      operations_diagnostics_lookup |-> operations_diagnostics_lookup,
      replay_maintenance_inspect |-> replay_maintenance_inspect,
      compatibility_key_review |-> compatibility_key_review,
      batch_key_plan |-> batch_key_plan,
      create_admin_key |-> create_admin_key,
      execute_bulk_import_admin_keys |-> execute_bulk_import_admin_keys,
      create_template_from_admin_key_calibration |-> create_template_from_admin_key_calibration,
      create_admin_key_from_template_revision |-> create_admin_key_from_template_revision,
      create_admin_owner |-> create_admin_owner,
      create_admin_institution |-> create_admin_institution,
      create_admin_cohort |-> create_admin_cohort,
      update_admin_owner |-> update_admin_owner,
      update_admin_institution |-> update_admin_institution,
      update_admin_cohort |-> update_admin_cohort,
      admin_openai_assisted_pricing_propose |-> admin_openai_assisted_pricing_propose,
      admin_openai_assisted_routes_propose |-> admin_openai_assisted_routes_propose,
      export_admin_usage_csv |-> export_admin_usage_csv,
      export_admin_audit_csv |-> export_admin_audit_csv,
      usage_export_json |-> usage_export_json,
      operations_diagnostics_cleanup |-> operations_diagnostics_cleanup,
      compatibility_key_apply |-> compatibility_key_apply,
      replay_maintenance_apply |-> replay_maintenance_apply,
      logout |-> logout ]

NoVisit == [handler |-> "", step |-> 0, tab |-> 0, token |-> 0, verified |-> FALSE,
          pending |-> {}, wrote |-> {}]

PagesInit ==
    /\ \E t \in Tab : /\ auth = [live |-> TRUE, csrf |-> 1, tab |-> t]
                      /\ shown = [u \in Tab |-> IF u = t THEN 1 ELSE 0]
    /\ visit = [v \in Visit |-> NoVisit]
    /\ visits = 0
    /\ told = [how |-> "nothing", handler |-> "", wrote |-> {}, verified |-> FALSE]

Does(h) == {Handlers[h][i].does : i \in DOMAIN Handlers[h]}

Running(v) == visit[v].step > 0
Step(v) == Handlers[visit[v].handler][visit[v].step]

\* Scripts of a page ask for these while it stays on display.
Background == {"list_record_choices", "operations_diagnostics_choices"}

Navigating(t) ==
    \E v \in Visit : Running(v) /\ visit[v].tab = t /\ visit[v].handler \notin Background

\* The browser asks for a page, or submits the form on display with its token.
Browse(v, t, h) ==
    /\ ~Running(v)
    /\ visits < MaxVisits
    /\ h \in Background \/ ~Navigating(t)
    /\ Does(h) \cap {"action", "lookup", "logout"} # {} => shown[t] > 0
    /\ visit' = [visit EXCEPT ![v] = [NoVisit EXCEPT !.handler = h, !.step = 1,
                                          !.tab = t, !.token = shown[t]]]
    /\ visits' = visits + 1
    /\ UNCHANGED <<auth, shown, told>>

\* The answer `how', after which the tab shows a form with `token' (or none).
Answer(v, how, token) ==
    /\ told' = [how |-> how, handler |-> visit[v].handler,
                wrote |-> visit[v].wrote, verified |-> visit[v].verified]
    /\ shown' = [shown EXCEPT ![visit[v].tab] = token]
    /\ visit' = [visit EXCEPT ![v] = NoVisit]

Token(v, answer) ==
    CASE answer = "form" -> visit[v].token
      [] answer = "data" -> shown[visit[v].tab]
      [] OTHER -> 0

Onward(v, state) ==
    /\ visit' = [visit EXCEPT ![v] = [state EXCEPT !.step = @ + 1]]
    /\ UNCHANGED <<shown, told>>

\* The id in the path.
TakeTarget(v) ==
    /\ Running(v) /\ Step(v).does = "target"
    /\ Onward(v, visit[v]) \/ Answer(v, "refused", 0)
    /\ UNCHANGED <<auth, visits>>

\* Who is not signed in is sent to the login page.
TurnAway(v) ==
    /\ Running(v)
    /\ Step(v).does \in {"page", "action", "attach", "lookup", "logout"}
    /\ ~auth.live
    /\ Answer(v, "login", 0)
    /\ UNCHANGED <<auth, visits>>

TakePage(v) ==
    /\ Running(v) /\ Step(v).does = "page"
    /\ auth.live
    /\ auth' = [auth EXCEPT !.csrf = @ + 1, !.tab = visit[v].tab]
    /\ Onward(v, [visit[v] EXCEPT !.token = auth.csrf + 1])
    /\ UNCHANGED visits

TakeAction(v) ==
    /\ Running(v) /\ Step(v).does = "action"
    /\ auth.live
    /\ IF visit[v].token = auth.csrf
       THEN Onward(v, [visit[v] EXCEPT !.verified = TRUE])
       ELSE Answer(v, "refused", 0)
    /\ UNCHANGED <<auth, visits>>

TakeAttach(v) ==
    /\ Running(v) /\ Step(v).does = "attach"
    /\ auth.live
    /\ Onward(v, visit[v])
    /\ UNCHANGED <<auth, visits>>

TakeLookup(v) ==
    /\ Running(v) /\ Step(v).does = "lookup"
    /\ auth.live
    /\ IF visit[v].token = auth.csrf THEN Onward(v, visit[v])
       ELSE Answer(v, "refused", Token(v, "data"))
    /\ UNCHANGED <<auth, visits>>

TakeLogout(v) ==
    /\ Running(v) /\ Step(v).does = "logout"
    /\ auth.live
    /\ IF visit[v].token = auth.csrf
       THEN Answer(v, "done", 0) /\ auth' = [auth EXCEPT !.live = FALSE]
       ELSE Answer(v, "refused", 0) /\ UNCHANGED auth
    /\ UNCHANGED visits

\* A condition of the handler holds, or it returns.
TakeReturn(v) ==
    /\ Running(v) /\ Step(v).does = "return"
    /\ \/ Onward(v, visit[v])
       \/ LET r == [visit[v] EXCEPT !.wrote = @ \cup visit[v].pending]
          IN  /\ told' = [how |-> "refused", handler |-> r.handler, wrote |-> r.wrote,
                          verified |-> r.verified]
              /\ shown' = [shown EXCEPT ![r.tab] = Token(v, Step(v).answer)]
              /\ visit' = [visit EXCEPT ![v] = NoVisit]
    /\ UNCHANGED <<auth, visits>>

\* An exception rolls the transaction back.
TakeRaise(v) ==
    /\ Running(v) /\ Step(v).does = "raise"
    /\ \/ Onward(v, visit[v])
       \/ Answer(v, "refused", Token(v, Step(v).answer))
    /\ UNCHANGED <<auth, visits>>

TakeWrite(v) ==
    /\ Running(v) /\ Step(v).does \in {"write", "writeif"}
    /\ \/ Onward(v, [visit[v] EXCEPT !.pending = @ \cup {Step(v).row}])
       \/ Step(v).does = "writeif" /\ Onward(v, visit[v])
    /\ UNCHANGED <<auth, visits>>

\* The transaction commits; or it is not known whether it did.
TakeCommit(v) ==
    LET done == [visit[v] EXCEPT !.wrote = @ \cup visit[v].pending, !.pending = {}]
    IN  /\ Running(v) /\ Step(v).does = "commit"
        /\ \/ Onward(v, done)
           \/ \E wrote \in {visit[v].wrote, done.wrote} :
                 /\ told' = [how |-> Step(v).lost, handler |-> done.handler,
                             wrote |-> wrote, verified |-> done.verified]
                 /\ shown' = [shown EXCEPT ![done.tab] = 0]
                 /\ visit' = [visit EXCEPT ![v] = NoVisit]
        /\ UNCHANGED <<auth, visits>>

TakeCall(v) ==
    /\ Running(v) /\ Step(v).does \in {"try", "call"}
    /\ \/ Onward(v, visit[v])
       \/ Step(v).does = "call" /\ Answer(v, "crashed", 0)
    /\ UNCHANGED <<auth, visits>>

TakeEnd(v) ==
    /\ Running(v)
    /\ \/ Step(v).does = "show" /\ Answer(v, "done", visit[v].token)
       \/ Step(v).does = "result" /\ Answer(v, "done", 0)
       \/ Step(v).does = "file" /\ Answer(v, "done", shown[visit[v].tab])
    /\ UNCHANGED <<auth, visits>>

\* The browser follows the redirect.
TakeGoto(v) ==
    /\ Running(v) /\ Step(v).does = "goto"
    /\ told' = [how |-> "done", handler |-> visit[v].handler,
                wrote |-> visit[v].wrote, verified |-> visit[v].verified]
    /\ visit' = [visit EXCEPT ![v] = [NoVisit EXCEPT !.handler = Step(v).handler,
                                          !.step = 1, !.tab = visit[v].tab]]
    /\ UNCHANGED <<auth, shown, visits>>

\* The database or the process fails; an open transaction is rolled back.
VisitDies(v) ==
    /\ Running(v)
    /\ Answer(v, "crashed", 0)
    /\ UNCHANGED <<auth, visits>>

\* The session expires.
SessionEnds ==
    /\ auth.live
    /\ auth' = [auth EXCEPT !.live = FALSE]
    /\ UNCHANGED <<shown, visit, visits, told>>

PagesNext ==
    \/ \E v \in Visit :
          \/ \E t \in Tab, h \in (IF visits = 0 THEN DOMAIN Handlers ELSE Often) :
                Browse(v, t, h)
          \/ TakeTarget(v)
          \/ TurnAway(v)
          \/ TakePage(v) \/ TakeAction(v) \/ TakeAttach(v) \/ TakeLookup(v)
          \/ TakeLogout(v)
          \/ TakeReturn(v) \/ TakeRaise(v)
          \/ TakeWrite(v) \/ TakeCommit(v) \/ TakeCall(v)
          \/ TakeEnd(v) \/ TakeGoto(v)
          \/ VisitDies(v)
    \/ SessionEnds

-----------------------------------------------------------------------------
(* Properties *)

Promised(h) ==
    {Handlers[h][i].row : i \in {j \in DOMAIN Handlers[h] : Handlers[h][j].does = "write"}}

\* What the administrator is told is true: a handler that refuses, or asks to
\* sign in, has committed nothing; one that reports success has committed
\* every row of its operation; and nothing is committed by a request whose
\* session and form token were not verified.  Where the acknowledgement of a
\* commit is lost, the answer never claims either.
HonestAnswer ==
    /\ told.how \in {"refused", "login"} => told.wrote = {}
    /\ told.how = "done" => Promised(told.handler) \subseteq told.wrote
    /\ told.wrote # {} => told.verified

\* The form a tab shows can be submitted: its token is the session's as long
\* as the session lives and no other tab has loaded a page since, whatever
\* downloads, exports, lookups and refused submissions the tab has made.
ShownFormIsLive ==
    \A t \in Tab :
        (auth.live /\ auth.tab = t /\ shown[t] > 0 /\ ~Navigating(t))
            => shown[t] = auth.csrf

=============================================================================
