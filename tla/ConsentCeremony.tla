--------------------------- MODULE ConsentCeremony ---------------------------
(***************************************************************************)
(* The consent ceremony: the page and the form of the web application      *)
(* (apps/web/src/app/consent/[uid]/), the two interaction routes of the    *)
(* protocol process (apps/protocol/src/protocol-app.ts) they call, and the *)
(* route api/interaction/[uid]/decide of the web application, which asks   *)
(* the platform API itself.                                                *)
(*                                                                         *)
(* One subject decides about one client, in several authorization requests *)
(* (interactions).  oidc-provider keeps the interactions and is external:  *)
(* interactionDetails and interactionFinished take the interaction from a  *)
(* cookie.  The provider sets it for the url of that interaction (/consent *)
(* /<uid>, protocol-app.ts:51-55), so it names no other; that it reaches   *)
(* the finish route is up to the deployment.  Hence they meet the one of   *)
(* the path, or throw, as they may at any time.  The body names the        *)
(* account the page was shown, since only the form makes one.              *)
(* Scopes are those of the interaction, so a stored consent is named by    *)
(* the interaction it was given in.                                        *)
(***************************************************************************)
CONSTANTS Tab,         \* browser tabs
          Post,        \* submissions of the form, a bound
          Decide,      \* submissions of the decide route, a bound
          Interaction, \* authorization requests of the subject for the client
          Agent,       \* what fetch shows of a redirect it must not follow
          None         \* no interaction, no submission

ASSUME ParameterAssumption ==
  /\ Agent \subseteq {"opaque", "visible"}
  /\ None \notin Interaction \cup Post

VARIABLES known,   \* the interactions whose session has an account
          result,  \* what the provider keeps of each interaction
          consent, \* the active row of oauth_consents
          tab,     \* the tabs
          post,    \* POST /interaction/:uid/finish
          decide,  \* POST /api/interaction/:uid/decide
          granted, \* the interactions a consent was stored for (history)
          allowed  \* the interactions the subject pressed allow in (history)

vars == <<known, result, consent, tab, post, decide, granted, allowed>>
-----------------------------------------------------------------------------
Decision == {"allow", "deny"}
Choice == [on : Interaction, decision : Decision]

\* over: expired, or resumed without an allowance.
Result == {"open", "allowed", "denied", "issued", "over"}

TabState == [pc : {"away", "form", "sending", "left", "login"}, on : Interaction \cup {None},
             sent : Post \cup {None}]

\* on, login, reject, scope: the path and the body.  prior: the submissions that
\* had been answered when this one was pressed (read by no action).
PostState == [pc : {"unused", "details", "upsert", "finish", "done"},
              on : Interaction \cup {None}, login : BOOLEAN, reject : BOOLEAN,
              scope : BOOLEAN, status : {"none", "redirect", "failed"}, prior : SUBSET Post]

\* The choice is kept while the route is at work.
DecideState == [pc : {"unused", "details", "finish", "upsert", "done"},
                choice : Choice \cup {None}, status : {"none", "redirect", "failed"}]

Init ==
  /\ known \in SUBSET Interaction
  /\ result = [i \in Interaction |-> "open"]
  /\ consent = None
  /\ tab = [t \in Tab |-> [pc |-> "away", on |-> None, sent |-> None]]
  /\ post = [p \in Post |-> [pc |-> "unused", on |-> None, login |-> FALSE, reject |-> FALSE,
                             scope |-> FALSE, status |-> "none", prior |-> {}]]
  /\ decide = [d \in Decide |-> [pc |-> "unused", choice |-> None, status |-> "none"]]
  /\ granted = {}
  /\ allowed = {}
-----------------------------------------------------------------------------
(* The provider and the boundary. *)

\* interactionDetails and interactionFinished find the interaction until the
\* provider has resumed or dropped it.
Found(i) == result[i] \in {"open", "allowed", "denied"}

\* A call through the boundary succeeds, or it is carried out and its reply is
\* lost, or it is not carried out.
Outcome == {"done", "lost", "not done"}

Store(i, outcome) ==
  /\ consent' = IF outcome = "not done" THEN consent ELSE i
  /\ granted' = IF outcome = "not done" THEN granted ELSE granted \cup {i}

\* Faulty variant: a submission is merged into an earlier one, which stands.
SubmitMerged(i, reject, outcome) ==
  result' = IF outcome = "not done" \/ result[i] # "open" THEN result
            ELSE [result EXCEPT ![i] = IF reject THEN "denied" ELSE "allowed"]

\* The submission replaces an earlier one (mergeWithLastSubmission is false).
Submit(i, reject, outcome) ==
  result' = IF outcome = "not done" THEN result
            ELSE [result EXCEPT ![i] = IF reject THEN "denied" ELSE "allowed"]

\* The user agent is sent back to the provider, which answers the client.
Resume(t) ==
  /\ tab[t].pc = "left"
  /\ LET i == tab[t].on IN
       /\ result[i] \in {"allowed", "denied"}
       /\ result' = [result EXCEPT ![i] = IF @ = "allowed" THEN "issued" ELSE "over"]
  /\ UNCHANGED <<known, consent, tab, post, decide, granted, allowed>>

Expire(i) ==
  /\ Found(i)
  /\ result' = [result EXCEPT ![i] = "over"]
  /\ UNCHANGED <<known, consent, tab, post, decide, granted, allowed>>
-----------------------------------------------------------------------------
(* The page and the form. *)

\* The page asks GET /interaction/:uid for the details of the interaction, which
\* reads the client and the consent; whatever fails leads to the login page.
Load(t, i) ==
  /\ tab[t].pc = "away"
  /\ \/ Found(i) /\ tab' = [tab EXCEPT ![t].pc = "form", ![t].on = i]
     \/ tab' = [tab EXCEPT ![t].pc = "login"]
  /\ UNCHANGED <<known, result, consent, post, decide, granted, allowed>>

\* Faulty variant: the handler wants no more than a login.
GrantsAnyLogin(p) == post[p].login

\* The consent is stored when the body names an account and scopes, unrejected.
Grants(p) == post[p].login /\ ~post[p].reject /\ post[p].scope

Allowed(choice) ==
  IF choice.decision = "allow" THEN allowed \cup {choice.on} ELSE allowed

\* handleSubmit: the buttons are disabled while a submission is under way.  The
\* form has nothing to tick: whether to remember the decision is not asked, and
\* the handler does not look at it.
Press(t, p, decision) ==
  /\ tab[t].pc = "form" /\ post[p].pc = "unused"
  /\ tab' = [tab EXCEPT ![t].pc = "sending", ![t].sent = p]
  /\ post' = [post EXCEPT ![p] =
                [pc |-> "details", on |-> tab[t].on, login |-> tab[t].on \in known,
                 reject |-> decision = "deny", scope |-> decision = "allow", status |-> "none",
                 prior |-> {q \in Post : post[q].pc = "done"}]]
  /\ allowed' = Allowed([on |-> tab[t].on, decision |-> decision])
  /\ UNCHANGED <<known, result, consent, decide, granted>>

\* The catch block: an error is shown and the buttons are enabled.
TriesAgain(t) == [tab[t] EXCEPT !.pc = "form", !.sent = None]

Leaves(t) == [tab[t] EXCEPT !.pc = "left", !.sent = None]

\* The reply arrives, if it ever does: fetch has no deadline.  It was told not to
\* follow a redirect: a user agent may show that as an opaque response, of status
\* 0 and without headers, which is not ok.
Hear(t) ==
  /\ tab[t].pc = "sending" /\ post[tab[t].sent].pc = "done"
  /\ LET status == post[tab[t].sent].status IN
       \E agent \in Agent :
         tab' = [tab EXCEPT ![t] = IF status = "redirect" /\ agent = "visible"
                                   THEN Leaves(t) ELSE TriesAgain(t)]
  /\ UNCHANGED <<known, result, consent, post, decide, granted, allowed>>

\* The connection breaks; the handler goes on.
Break(t) ==
  /\ tab[t].pc = "sending"
  /\ tab' = [tab EXCEPT ![t] = TriesAgain(t)]
  /\ UNCHANGED <<known, result, consent, post, decide, granted, allowed>>
-----------------------------------------------------------------------------
(* POST /interaction/:uid/finish *)

Answered(p, status) == [post EXCEPT ![p].pc = "done", ![p].status = status]

\* interactionDetails is asked only when there is a consent to store.
PostDetails(p) ==
  /\ post[p].pc = "details"
  /\ \/ ~Grants(p) /\ post' = [post EXCEPT ![p].pc = "finish"]
     \/ Grants(p) /\ Found(post[p].on) /\ post' = [post EXCEPT ![p].pc = "upsert"]
     \/ Grants(p) /\ post' = Answered(p, "failed")
  /\ UNCHANGED <<known, result, consent, tab, decide, granted, allowed>>

\* Faulty variant: the interaction is finished whatever became of the consent.
PostUpsertIgnored(p) ==
  /\ post[p].pc = "upsert"
  /\ \E outcome \in Outcome : Store(post[p].on, outcome)
  /\ post' = [post EXCEPT ![p].pc = "finish"]
  /\ UNCHANGED <<known, result, tab, decide, allowed>>

PostUpsert(p) ==
  /\ post[p].pc = "upsert"
  /\ \E outcome \in Outcome :
       /\ Store(post[p].on, outcome)
       /\ post' = IF outcome = "done" THEN [post EXCEPT ![p].pc = "finish"]
                                      ELSE Answered(p, "failed")
  /\ UNCHANGED <<known, result, tab, decide, allowed>>

PostFinish(p) ==
  /\ post[p].pc = "finish"
  /\ \/ /\ Found(post[p].on)
        /\ \E outcome \in Outcome :
             /\ Submit(post[p].on, post[p].reject, outcome)
             /\ post' = Answered(p, IF outcome = "done" THEN "redirect" ELSE "failed")
     \/ post' = Answered(p, "failed") /\ UNCHANGED result
  /\ UNCHANGED <<known, consent, tab, decide, granted, allowed>>
-----------------------------------------------------------------------------
(* POST /api/interaction/:uid/decide *)

\* The operations of the boundary's contract that concern consents, clients and
\* artifacts.
BoundaryOperation ==
  {"client.get", "consent.get", "consent.upsert", "consent.revoke", "artifact.get",
   "artifact.put", "artifact.consume", "artifact.delete", "artifact.find_by_uid",
   "artifact.find_by_user_code", "artifact.revoke_by_grant_id"}

\* The authorization schemes the route sends and the API looks for.
DecideScheme == "LabpicsBoundary"
BoundaryScheme == "Labpics-HMAC-SHA256"

DecideOperation == [details |-> "interaction.details", finish |-> "interaction.finished",
                    upsert |-> "consent.upsert"]

DecideBegin(d) ==
  /\ decide[d].pc = "unused"
  /\ \E choice \in Choice :
       /\ decide' = [decide EXCEPT ![d].pc = "details", ![d].choice = choice]
       /\ allowed' = Allowed(choice)
  /\ UNCHANGED <<known, result, consent, tab, post, granted>>

\* What may follow a call that succeeded: the consent is stored when the body
\* asks to remember it.
DecideAfter(d) ==
  LET c == decide[d].choice IN
  CASE decide[d].pc = "details" -> {"finish"}
    [] decide[d].pc = "finish" /\ c.decision = "allow" /\ c.on \in known -> {"upsert", "done"}
    [] OTHER -> {"done"}

\* sendBoundaryRequest: the API refuses a scheme it does not know, and an operation
\* its contract does not have.
DecideCall(d) ==
  LET c == decide[d].choice
      supported == /\ DecideScheme = BoundaryScheme
                   /\ DecideOperation[decide[d].pc] \in BoundaryOperation
  IN
  /\ decide[d].pc \in DOMAIN DecideOperation
  /\ \E outcome \in IF supported THEN Outcome ELSE {"not done"} :
       /\ CASE decide[d].pc = "finish" -> Submit(c.on, c.decision = "deny", outcome)
                                          /\ UNCHANGED <<consent, granted>>
            [] decide[d].pc = "upsert" -> Store(c.on, outcome) /\ UNCHANGED result
            [] OTHER                   -> UNCHANGED <<result, consent, granted>>
       /\ LET success == outcome = "done" /\ (decide[d].pc = "upsert" \/ Found(c.on)) IN
            \E next \in IF success THEN DecideAfter(d) ELSE {"done"} :
              decide' = [decide EXCEPT ![d] =
                           [pc |-> next, choice |-> IF next = "done" THEN None ELSE c,
                            status |-> IF next # "done" THEN "none"
                                      ELSE IF success THEN "redirect" ELSE "failed"]]
  /\ UNCHANGED <<known, tab, post, allowed>>
-----------------------------------------------------------------------------
Handle(p) == PostDetails(p) \/ PostUpsert(p) \/ PostFinish(p)

Next ==
  \/ \E t \in Tab : Resume(t) \/ Hear(t) \/ Break(t)
  \/ \E t \in Tab : \E i \in Interaction : Load(t, i)
  \/ \E t \in Tab : \E p \in Post : \E decision \in Decision : Press(t, p, decision)
  \/ \E i \in Interaction : Expire(i)
  \/ \E p \in Post : Handle(p)
  \/ \E d \in Decide : DecideBegin(d) \/ DecideCall(d)

Spec == Init /\ [][Next]_vars
-----------------------------------------------------------------------------
(* Properties *)

TypeOK ==
  /\ known \subseteq Interaction
  /\ result \in [Interaction -> Result]
  /\ consent \in Interaction \cup {None}
  /\ tab \in [Tab -> TabState]
  /\ post \in [Post -> PostState]
  /\ decide \in [Decide -> DecideState]
  /\ granted \subseteq Interaction
  /\ allowed \subseteq Interaction

\* A consent is stored only for what the subject was shown, in an authorization
\* request in which it pressed the button that allows: a handler that still runs
\* after the connection broke, or another tab, stores no other (protocol-app.ts).
ConsentWasGiven ==
  consent # None => consent \in allowed

\* The types, and that what is stored was allowed (ConsentWasGiven).
ConsentInv == TypeOK /\ ConsentWasGiven

\* The provider learns of an allowance only after the consent of a known subject
\* is stored: no code is issued for a consent that was lost on its way
\* (protocol-app.ts, "Persist consent via boundary if approved").
AllowanceIsRecorded ==
  \A i \in known : result[i] \in {"allowed", "issued"} => i \in granted

\* The provider keeps the opposite of what was pressed in p.
Overruled(p) ==
  result[post[p].on] \in IF post[p].reject THEN {"allowed", "issued"} ELSE {"denied"}

\* A submission that is answered with the redirect stands: the provider has a
\* decision, the consent of a known subject that allowed is stored, and what was
\* pressed is overruled only by a submission that had not been answered by then.
\* One that seemed to fail, and is pressed again with the other button, does not
\* come back, unless its handler is still under way (POST finish, handleSubmit).
AnswerStands ==
  \A p \in Post : post[p].status = "redirect" =>
    /\ result[post[p].on] # "open"
    /\ ~post[p].reject /\ post[p].on \in known => post[p].on \in granted
    /\ Overruled(p) => \E q \in Post \ post[p].prior :
                         post[q].on = post[p].on /\ post[q].reject # post[p].reject
=============================================================================
