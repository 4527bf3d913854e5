--------------------------- MODULE EndpointPolicy ---------------------------
(***************************************************************************)
(* Which requests may leave the process.  A request is its method, the     *)
(* form of its URL, the class its path falls into, and for a POST what its *)
(* body is.  A class is one alternative of the path patterns; the text of  *)
(* paths and bodies is abstracted away.                                    *)
(***************************************************************************)
EXTENDS Naturals, Sequences

CONSTANTS
    RowLimit,     \* rows of state a pager's form may carry
    PageLimit     \* the highest page number a form may ask for

ASSUME PolicyAssumption == RowLimit \in Nat /\ PageLimit \in Nat

Methods == {"GET", "HEAD", "POST", "PUT", "PATCH", "DELETE"}

\* userinfo: a URL with a user name; origin: a wrong scheme or port; unsafe: a
\* path that servers read in different ways; other: a host outside the family.
Hosts == {"business", "passport", "family", "other"}
Shapes == {"plain", "no_host", "userinfo", "origin", "unsafe"}

\* Lists of the modules with a decision of their own, by the kind of body
\* that pages through them ("none": they have no pager).
ModuleLists ==
    {"payment_list", "bizcase_query", "bizcase_view", "travel_list",
     "daily_list", "reimbursement_list", "subsidy_list"}
ModulePagers == {"payment_query", "bizcase_query", "travel_list",
                 "subsidy_list"}
ModulePaths ==
    ModuleLists \cup ModulePagers \cup
    {"payment_edit", "payment_delete", "payment_selector", "payment_other",
     "bizcase_other", "travel_add", "travel_other", "daily_add",
     "daily_other", "reimbursement_add", "reimbursement_other",
     "subsidy_add", "subsidy_other"}

\* Paths that are looked up in the table of rules.
WritePaths ==
    {"pr_delete", "pr_edit", "pr_selection", "pr_write", "attachment_upload",
     "attachment_delete", "procurement_write"}
ReadPaths ==
    {"passport", "login", "passport_static", "pr_root", "pr_list",
     "pr_detail", "pr_js", "procurement_list", "procurement_detail",
     "webtp_static", "portal", "pr_download", "attachment_download",
     "attachment_js"}
RulePaths == WritePaths \cup ReadPaths \cup {"unknown"}

(***************************************************************************)
(* control is the control a form posts back to, filter whether it carries  *)
(* search values that are not proven, rows the rows of state in it.        *)
(***************************************************************************)
Form ==
    [control : {"none", "pager", "query", "other"}, filter : BOOLEAN,
     page : Nat, rows : Nat]

NoForm == [control |-> "none", filter |-> FALSE, page |-> 0, rows |-> 0]

Request ==
    [method : Methods, host : Hosts, shape : Shapes,
     path : ModulePaths \cup RulePaths, form : Form]

\* Mutant: a form's control is not looked at.
AnyForm(r) == r.form.page \in 1..PageLimit

\* _classify_..._pagination and _classify_payment_query: the body proves that
\* a POST only asks for another page, or for a query.
ProvenForm(r) ==
    \/ r.path = "payment_query" /\ r.form.control = "query" /\ ~r.form.filter
    \/ r.path = "bizcase_query" /\ r.form.control = "pager"
       /\ r.form.page \in 1..PageLimit
    \/ r.path \in {"travel_list", "subsidy_list"}
       /\ r.form.control = "pager" /\ ~r.form.filter
       /\ r.form.page \in 1..PageLimit /\ r.form.rows \in 1..RowLimit

ModuleAllows(r) ==
    \/ r.method = "GET" /\ r.path \in ModuleLists
    \/ r.method = "POST" /\ r.path \in ModulePagers /\ ProvenForm(r)

-----------------------------------------------------------------------------
Rule(methods, hosts, paths, class) ==
    [methods |-> methods, hosts |-> hosts, paths |-> paths, class |-> class]

Get == {"GET", "HEAD"}

AuthRules == <<
    Rule(Get, {"passport"}, {"passport", "login"}, "allow"),
    Rule({"POST"}, {"passport"}, {"passport"}, "allow"),
    Rule(Get, {"passport"}, {"passport_static", "login"}, "allow") >>

WriteRules == <<
    Rule({"GET", "POST", "DELETE"}, {"business"}, {"pr_delete"}, "build"),
    Rule(Get, {"business"}, {"pr_edit", "pr_selection"}, "build"),
    Rule({"POST", "PUT", "PATCH", "DELETE"}, {"business"},
         {"pr_edit", "pr_write"}, "build"),
    Rule({"POST", "PUT"}, {"business"}, {"attachment_upload"}, "build"),
    Rule({"GET", "POST", "DELETE"}, {"business"}, {"attachment_delete"},
         "build"),
    Rule(Methods \ {"HEAD"}, {"business"}, {"procurement_write"}, "build") >>

ReadRules == <<
    Rule(Get, {"business"}, {"pr_root"}, "allow"),
    Rule(Get, {"business"}, {"pr_list"}, "allow"),
    Rule({"POST"}, {"business"}, {"pr_root", "pr_list"}, "allow"),
    Rule(Get, {"business"}, {"pr_detail"}, "allow"),
    Rule(Get, {"business"}, {"pr_js"}, "allow"),
    Rule(Get \cup {"POST"}, {"business"}, {"procurement_list"}, "allow"),
    Rule({"GET"}, {"business"}, {"procurement_detail"}, "allow"),
    Rule(Get, {"business"}, {"webtp_static"}, "allow"),
    Rule(Get, {"business"}, {"portal"}, "allow"),
    Rule(Get, {"business"}, {"pr_download"}, "allow"),
    Rule(Get, {"business"}, {"attachment_download"}, "allow"),
    Rule(Get, {"business"}, {"attachment_js"}, "allow") >>

\* Everything else on a host of the family.
Rest == << Rule(Methods, {"business", "passport", "family"},
                ModulePaths \cup RulePaths, "deny") >>

Rules == AuthRules \o WriteRules \o ReadRules \o Rest

Matching(r) ==
    {i \in DOMAIN Rules :
        /\ r.method \in Rules[i].methods
        /\ r.host \in Rules[i].hosts
        /\ r.path \in Rules[i].paths}

\* The first rule that matches wins; without one the request is denied.
RuleAllows(r) ==
    \E i \in Matching(r) :
        /\ Rules[i].class = "allow"
        /\ \A k \in Matching(r) : i <= k

\* EndpointPolicy.decide_request: a decision of the module comes first.
Allowed(r) ==
    /\ r.shape = "plain"
    /\ IF r.path \in ModulePaths THEN ModuleAllows(r) ELSE RuleAllows(r)

\* What the business system does with a request that changes its data or
\* begins to: paths that write whatever the method, and postbacks of another
\* control than a pager.
Changes(r) ==
    /\ r.host = "business"
    /\ \/ r.path \in WritePaths
       \/ r.path \in {"payment_edit", "payment_delete", "payment_selector",
                      "travel_add", "daily_add", "reimbursement_add",
                      "subsidy_add"}
       \/ r.method = "POST" /\ r.path \in ModulePagers
          /\ r.form.control = "other"
=============================================================================
