------------------------------ MODULE CaseForms ------------------------------
(***************************************************************************)
(* What a case shows of its forms: the forms that can be filled in in its  *)
(* state, and what is required before it may leave the state.  The first   *)
(* is put together from unlocked reads for whoever works on the case, the  *)
(* second by the transition itself, from the assignments it locks.         *)
(***************************************************************************)
EXTENDS FormPublishing

CONSTANT Required  \* versions that are required where they are assigned

ASSUME RequiredAreVersions == Required \subseteq Versions

(* GetCaseForms: assigned and published versions of forms that are there.  *)
GetCaseForms ==
    {v \in assigned : /\ form[v[1]] \notin {Nil, "ARCHIVED"}
                      /\ version[v] = "PUBLISHED"}

(* GetWorkflowRequirements: the required ones among them that the case has *)
(* no submission for; it may proceed if there are none.                    *)
MissingRequired(c) == {v \in GetCaseForms \cap Required : ~Submitted(c, v)}

CanProceed(c) == MissingRequired(c) = {}

(* checkRequiredFormsCompleteInTx: every assignment that is required,      *)
(* whatever has become of its form.                                        *)
MissingFormVersions(c) == {v \in assigned \cap Required : ~Submitted(c, v)}

-----------------------------------------------------------------------------
(* A case's submissions by the key of their form, which may have several   *)
(* versions assigned to the state.  display_order ranks the assignments;   *)
(* here it ranks them by version.                                          *)

AssignedOf(f) == {v \in assigned : v[1] = f}

SubmissionOf(c, v) == {s \in submissions : s.case = c /\ s.version = v}

(* SubmitFormByKey fills in the first assigned version of the form; and    *)
(* the latest published one, whichever is assigned.                        *)
LatestPublished(f) ==
    {v \in Versions : /\ v[1] = f /\ version[v] = "PUBLISHED"
                      /\ \A w \in Versions :
                            w[1] = f /\ version[w] = "PUBLISHED" => w[2] <= v[2]}
VersionByKey(f) ==
    {v \in AssignedOf(f) : \A w \in AssignedOf(f) : v[2] <= w[2]}

(* GetFormSubmissionByKey shows what was submitted for that version.       *)
GetFormSubmissionByKey(c, f) == UNION {SubmissionOf(c, v) : v \in VersionByKey(f)}

(* GetCaseFormSubmissions: a map by key, in which a later assignment       *)
(* replaces an earlier one.                                                *)
GetCaseFormSubmissions(c, f) ==
    UNION {SubmissionOf(c, v) : v \in
             {v \in AssignedOf(f) : \A w \in AssignedOf(f) : w[2] <= v[2]}}

-----------------------------------------------------------------------------
(* A transition may be stopped by a form the case does not show as missing *)
(* only if that form was archived: it is not shown and can no longer be    *)
(* submitted, and the case stays where it is.  Whatever else is required   *)
(* is shown (GetWorkflowRequirements, checkRequiredFormsCompleteInTx).     *)
OnlyArchivedFormsBlockUnseen ==
    \A c \in Cases : \A v \in MissingFormVersions(c) \ MissingRequired(c) :
        form[v[1]] = "ARCHIVED"

(* What a case shows for a form is what was submitted for it by its key,   *)
(* and what is required of it: the two views of a form differ only while   *)
(* two of its versions are assigned, and a form that is shown with nothing *)
(* submitted while one version of it is required is listed as missing,     *)
(* unless it is archived.                                                  *)
ViewsAgree ==
    \A c \in Cases, f \in Forms :
        /\ GetFormSubmissionByKey(c, f) # GetCaseFormSubmissions(c, f)
              => \E v, w \in AssignedOf(f) : v # w
        /\ VersionByKey(f) \cap Required # {} /\ GetFormSubmissionByKey(c, f) = {}
              => VersionByKey(f) \cap MissingRequired(c) # {} \/ form[f] = "ARCHIVED"

(* What a case shows of its forms is what counts for it (GetCaseForms,     *)
(* GetWorkflowRequirements and the lookups by key).                        *)
FormViewsAgree == OnlyArchivedFormsBlockUnseen /\ ViewsAgree
=============================================================================
