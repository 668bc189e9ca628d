------------------------------ MODULE PageForms ------------------------------
(***************************************************************************)
(* The two long forms of the frontend inside its shell: what becomes of    *)
(* the fields of the settings and of the server configuration while pages  *)
(* are loaded, replaced and mounted again around them.                     *)
(*   src/web/frontend/src/pages/core-pages.tsx, server-config-page.tsx     *)
(* The inputs of the settings take the page's values when they are mounted *)
(* and never again; the server configuration fills its fields from every   *)
(* page it is given.  Both are mounted again whenever the key of the route *)
(* changes, with the page there is at that time.  Of the settings the      *)
(* model follows the private DNSSEC key, of the server configuration       *)
(* whether it holds edits.                                                 *)
(***************************************************************************)
EXTENDS PageShell

CONSTANT
  OthersKeys  \* keys that others save in the settings

VARIABLES
  draft,  \* the form on screen: whose it is, whether the field of the key is
          \* in it or its fields are open, whether it holds edits, and the key
  keys    \* the private key each version of the settings holds

formVars == <<vars, draft, keys>>

FirstKey == 1
TypedKey == 2
StoredKey == keys[Len(keys)]

ASSUME PageFormsAssumption == OthersKeys \subseteq Nat \ {0}

NoDraft == [of |-> "none", open |-> FALSE, edited |-> FALSE, key |-> 0]

\* The form of a page that has just been mounted.
Mounted(page) ==
  CASE page.view = "settings" ->
         [of |-> "settings", open |-> TRUE, edited |-> FALSE, key |-> keys[page.version]]
    [] page.view = "serverconf" -> [NoDraft EXCEPT !.of = "serverconf"]
    [] OTHER -> NoDraft

FormsInit == Init /\ draft = NoDraft /\ keys = <<FirstKey>>

-----------------------------------------------------------------------------
(* What a step of the shell does to the form on screen.                    *)

\* The fields of the server configuration follow the page they are given.
Filled == [draft EXCEPT !.edited = FALSE]

Remounted == Key(loc)' # Key(loc) \/ Shown' # draft.of

Follows(given) ==
  draft' = IF Shown' \notin {"settings", "serverconf"} THEN NoDraft
           ELSE IF Remounted THEN Mounted(state'.page)
           ELSE IF given /\ Shown' = "serverconf" THEN Filled
           ELSE draft

\* The steps that hand the page component another page object, and the others.
Effects     == RunEffects /\ Follows(state'.page # state.page) /\ UNCHANGED keys
Delivery(r) == Deliver(r) /\ Follows(live = RequestOf(r)) /\ UNCHANGED keys
Around(A)   == A /\ Follows(FALSE) /\ UNCHANGED keys

-----------------------------------------------------------------------------
(* What the forms send, and what the server makes of it.                   *)

\* An input that the search has taken out of the form is not sent.
Sends == [key |-> IF draft.of = "settings" THEN draft.key ELSE 0, typed |-> draft.edited]
Send(f) == Submit(f, Sends) /\ UNCHANGED <<draft, keys>>

\* An empty or missing key keeps the one there is.
Saved(key) == IF key = 0 THEN StoredKey ELSE key
Save(p) ==
  /\ Apply(p)
  /\ keys' = IF stored' # stored /\ p.form = SettingsForm
             THEN Append(keys, Saved(p.carried.key)) ELSE keys
  /\ UNCHANGED draft

SettingsWritten(key) ==
  /\ "settings" \in Views
  /\ ElsewhereWritten("settings") /\ keys' = Append(keys, key)
  /\ UNCHANGED draft

-----------------------------------------------------------------------------
(* What the user does to them.                                             *)
Edits(of) == due = {} /\ draft.of = of /\ UNCHANGED <<vars, keys>>

TypeKey ==
  /\ Edits("settings") /\ draft.open
  /\ draft' = [draft EXCEPT !.key = TypedKey, !.edited = TRUE]

\* The search takes the inputs that do not match out of the form, and mounts
\* them again later with the values of the page there is then.
Search ==
  /\ Edits("settings")
  /\ draft' = IF draft.open
              THEN [draft EXCEPT !.open = FALSE, !.edited = FALSE, !.key = 0]
              ELSE Mounted(state.page)

EditFields ==
  /\ Edits("serverconf")
  /\ draft' = [draft EXCEPT !.open = TRUE, !.edited = draft.open]

Cancel ==
  /\ Edits("serverconf") /\ draft.open
  /\ draft' = [Filled EXCEPT !.open = FALSE]

Requests == \E r \in pending : Delivery(r) \/ Around(Serve(r) \/ Fail(r) \/ Deny(r))

Mutations ==
  \/ \E p \in posts : Save(p) \/ Around(Refuse(p) \/ Answer(p))
  \/ \E f \in Forms : Send(f)

Travels ==
  \/ \E r \in Routes : Around(Click(r) \/ Enter(r))
  \/ \E i \in DOMAIN window.history : Around(PopState(i))

World ==
  \/ \E v \in Views \ {"settings"} : Around(ElsewhereWritten(v))
  \/ \E key \in OthersKeys \cup {StoredKey} : SettingsWritten(key)
  \/ Around(SessionEnds)

Typing == TypeKey \/ Search \/ EditFields \/ Cancel

FormsNext == Effects \/ Requests \/ Mutations \/ Travels \/ World \/ Typing
FormsSpec == FormsInit /\ [][FormsNext]_formVars

\* React runs the effects of a render, and a fetch ends in an answer or an
\* error; nothing is asked of the users.
FormsFairness == WF_formVars(Effects) /\ WF_formVars(Requests)

FairFormsSpec == FormsSpec /\ FormsFairness

-----------------------------------------------------------------------------
\* The shell is as TypeOK says, the form followed is the one on screen, and the
\* settings have as many keys as versions.
FormsTypeOK ==
  /\ TypeOK
  /\ draft.of = IF Shown \in {"settings", "serverconf"} THEN Shown ELSE "none"
  /\ keys \in Seq({FirstKey, TypedKey} \cup OthersKeys)
  /\ "settings" \in Views => Len(keys) = stored["settings"]
  /\ draft.key \in {0, FirstKey, TypedKey} \cup OthersKeys

\* A tab with nothing under way of its own (no load its effect waits for, no
\* mutation) keeps the edits of the server configuration until the user does
\* something: answers to requests it has given up do not reach the fields,
\* save for one that finds the session gone.
LateAnswersSpareEdits ==
  [][/\ draft.of = "serverconf" /\ draft.edited
     /\ live = None /\ posts = {} /\ due = {}
     /\ \A r \in pending : r.is # "denied"
     => \/ draft'.edited
        \/ moves' # moves
        \/ draft' = [draft EXCEPT !.edited = FALSE, !.open = FALSE]]_formVars

\* "An ordinary settings save must never erase or silently rotate an existing
\* DNSSEC signing key" (settings_service.go): one in which the user has not
\* touched the key leaves it as it is.
OrdinarySavesKeepTheKey ==
  [][\A p \in posts, q \in posts' :
       p.id = q.id /\ p.is = "sent" /\ q.is = "done"
       /\ p.form = SettingsForm /\ ~p.carried.typed
       => keys'[Len(keys')] = StoredKey]_formVars
=============================================================================
