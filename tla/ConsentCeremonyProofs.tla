------------------------ MODULE ConsentCeremonyProofs ------------------------
(***************************************************************************)
(* Theorems about ConsentCeremony, for any number of tabs, submissions and *)
(* interactions.  The argument: a submission keeps what was pressed until  *)
(* its handler is over, and its handler does not get to finish an          *)
(* allowance of a known subject before the consent is stored.  What the    *)
(* provider keeps was written last by a submission that, when it wrote,    *)
(* had no answer, so nobody pressed anything after it was answered.  The   *)
(* decide route never gets past its first call.                            *)
(***************************************************************************)
EXTENDS ConsentCeremony, TLAPS

\* A tab that shows the form, or has left it, has an interaction.
TabShape == \A t \in Tab : tab[t].pc \in {"form", "sending", "left"} => tab[t].on \in Interaction

\* A handler at work has the body that was pressed, and an allowance it is to
\* finish for a known subject is stored.
UnderWay(k) == k.pc \in {"details", "upsert", "finish"}

PostShape(k) ==
  /\ UnderWay(k) => /\ k.on \in Interaction
                    /\ k.login <=> k.on \in known
                    /\ k.scope <=> ~k.reject
                    /\ ~k.reject => k.on \in allowed
  /\ k.pc = "upsert" => k.login /\ ~k.reject
  /\ k.pc = "finish" /\ ~k.reject /\ k.on \in known => k.on \in granted
  /\ k.pc = "unused" => k.on = None
  /\ k.status = "redirect" => k.pc = "done" /\ k.on \in Interaction

\* Who came before a submission has been answered.
PriorShape == \A p \in Post : \A q \in post[p].prior : post[q].pc = "done"

\* The decide route makes its first call, which the API refuses.
DecideShape(k) ==
  /\ k.pc \in {"unused", "details", "done"}
  /\ k.pc = "details" => k.choice \in Choice

Rest ==
  /\ TabShape
  /\ \A p \in Post : PostShape(post[p])
  /\ PriorShape
  /\ \A d \in Decide : DecideShape(decide[d])
  /\ granted \subseteq allowed
  /\ consent # None => consent \in granted
  /\ AllowanceIsRecorded
  /\ AnswerStands

IInv == TypeOK /\ Rest
-----------------------------------------------------------------------------
\* The initial state satisfies the invariant.
LEMMA InitIInv == Init => IInv
<1> SUFFICES ASSUME Init PROVE IInv
  OBVIOUS
<1> USE ParameterAssumption
<1>1. TypeOK
  BY DEF Init, TypeOK, TabState, PostState, DecideState, Result
<1>2. Rest
  BY DEF Init, Rest, TabShape, PostShape, PriorShape, UnderWay, DecideShape,
     AllowanceIsRecorded, AnswerStands
<1> QED
  BY <1>1, <1>2 DEF IInv

\* The records the steps make of the record of a tab or of a submission.
LEMMA TabUpdates ==
  ASSUME NEW k \in TabState
  PROVE  /\ \A i \in Interaction : [k EXCEPT !.pc = "form", !.on = i] \in TabState
         /\ [k EXCEPT !.pc = "login"] \in TabState
         /\ \A p \in Post : [k EXCEPT !.pc = "sending", !.sent = p] \in TabState
         /\ [k EXCEPT !.pc = "form", !.sent = None] \in TabState
         /\ [k EXCEPT !.pc = "left", !.sent = None] \in TabState
BY DEF TabState

\* A submission that goes on is a well typed record.
LEMMA PostUpdates ==
  ASSUME NEW k \in PostState
  PROVE  /\ [k EXCEPT !.pc = "finish"] \in PostState
         /\ [k EXCEPT !.pc = "upsert"] \in PostState
         /\ \A status \in {"redirect", "failed"} :
              [k EXCEPT !.pc = "done", !.status = status] \in PostState
BY DEF PostState

\* A step that touches a tab alone.
LEMMA TabStep ==
  ASSUME IInv, NEW t \in Tab, NEW a \in TabState, tab' = [tab EXCEPT ![t] = a],
         a.pc \in {"form", "sending", "left"} => a.on \in Interaction,
         UNCHANGED <<known, result, consent, post, decide, granted, allowed>>
  PROVE  IInv'
<1> USE DEF IInv, Rest
<1>1. tab'[t] = a /\ \A u \in Tab : u # t => tab'[u] = tab[u]
  BY DEF TypeOK
<1>2. TypeOK'
  BY DEF TypeOK
<1>3. TabShape'
  BY <1>1 DEF TabShape
<1>4. /\ (\A p \in Post : PostShape(post[p]))'
      /\ (\A d \in Decide : DecideShape(decide[d]))'
      /\ AllowanceIsRecorded' /\ AnswerStands' /\ PriorShape'
  BY DEF PostShape, PriorShape, DecideShape, AllowanceIsRecorded, AnswerStands, Overruled
<1> QED
  BY <1>2, <1>3, <1>4

\* An interaction comes to its end.
LEMMA ResultStep ==
  ASSUME IInv, NEW i \in Interaction, NEW r \in {"issued", "over"},
         result' = [result EXCEPT ![i] = r], r = "issued" => result[i] = "allowed",
         UNCHANGED <<known, consent, tab, post, decide, granted, allowed>>
  PROVE  IInv'
<1> USE DEF IInv, Rest
<1>1. TypeOK'
  BY DEF TypeOK, Result
<1>2. AllowanceIsRecorded'
  BY DEF AllowanceIsRecorded, TypeOK
<1>3. /\ (\A p \in Post : PostShape(post[p]))' /\ PriorShape'
      /\ (\A d \in Decide : DecideShape(decide[d]))'
      /\ TabShape'
  BY DEF PostShape, PriorShape, DecideShape, TabShape
<1>4. AnswerStands'
  <2>1. ASSUME NEW p \in Post, post[p].status = "redirect"
        PROVE  /\ result'[post[p].on] # "open"
               /\ Overruled(p)' => Overruled(p)
    BY <2>1 DEF TypeOK, PostShape, AnswerStands, Overruled
  <2> QED
    BY <2>1 DEF AnswerStands
<1> QED
  BY <1>1, <1>2, <1>3, <1>4

\* The tabs, the page and the provider.
LEMMA PageStep ==
  ASSUME IInv,
         \/ \E t \in Tab : Resume(t) \/ Hear(t) \/ Break(t)
         \/ \E t \in Tab : \E i \in Interaction : Load(t, i)
         \/ \E i \in Interaction : Expire(i)
  PROVE  IInv'
<1> USE DEF IInv
<1>1. ASSUME NEW t \in Tab, Resume(t) PROVE IInv'
  <2> DEFINE i == tab[t].on
             r == IF result[i] = "allowed" THEN "issued" ELSE "over"
  <2>1. i \in Interaction
    BY <1>1 DEF Resume, Rest, TabShape
  <2>2. result' = [result EXCEPT ![i] = r]
    BY <1>1 DEF Resume
  <2>3. r \in {"issued", "over"} /\ (r = "issued" => result[i] = "allowed")
    OBVIOUS
  <2> QED
    BY <1>1, <2>1, <2>2, <2>3, ResultStep DEF Resume
<1>2. ASSUME NEW t \in Tab, Hear(t) \/ Break(t) PROVE IInv'
  <2>1. PICK a \in {Leaves(t), TriesAgain(t)} : tab' = [tab EXCEPT ![t] = a]
    BY <1>2 DEF Hear, Break
  <2>2. tab[t] \in TabState /\ tab[t].pc = "sending" /\ tab[t].on \in Interaction
    BY <1>2 DEF Hear, Break, TypeOK, Rest, TabShape
  <2>3. a \in TabState
    BY <2>2, TabUpdates DEF Leaves, TriesAgain
  <2>4. a.on = tab[t].on
    BY <2>2 DEF Leaves, TriesAgain, TabState
  <2>5. UNCHANGED <<known, result, consent, post, decide, granted, allowed>>
    BY <1>2 DEF Hear, Break
  <2> QED
    BY <2>1, <2>2, <2>3, <2>4, <2>5, TabStep
<1>3. ASSUME NEW t \in Tab, NEW i \in Interaction, Load(t, i) PROVE IInv'
  <2>0. tab[t] \in TabState
    BY DEF TypeOK
  <2>1. CASE tab' = [tab EXCEPT ![t].pc = "form", ![t].on = i]
    <3> DEFINE a == [tab[t] EXCEPT !.pc = "form", !.on = i]
    <3>1. a \in TabState /\ a.on = i
      BY <2>0, TabUpdates DEF TabState
    <3>2. tab' = [tab EXCEPT ![t] = a]
      BY <2>1
    <3> HIDE DEF a
    <3> QED
      BY <1>3, <3>1, <3>2, TabStep DEF Load
  <2>2. CASE tab' = [tab EXCEPT ![t].pc = "login"]
    <3> DEFINE a == [tab[t] EXCEPT !.pc = "login"]
    <3>1. a \in TabState /\ a.pc = "login"
      BY <2>0, TabUpdates DEF TabState
    <3>2. tab' = [tab EXCEPT ![t] = a]
      BY <2>2
    <3> HIDE DEF a
    <3> QED
      BY <1>3, <3>1, <3>2, TabStep DEF Load
  <2> QED
    BY <1>3, <2>1, <2>2 DEF Load
<1>4. ASSUME NEW i \in Interaction, Expire(i) PROVE IInv'
  <2> QED
    BY <1>4, ResultStep DEF Expire
<1> QED
  BY <1>1, <1>2, <1>3, <1>4

\* A step of one submission, while what was allowed and stored grows.
LEMMA PostStep ==
  ASSUME IInv, NEW p \in Post, NEW k \in PostState, post' = [post EXCEPT ![p] = k],
         post[p].pc # "done", k.pc # "unused",
         \A q \in k.prior : post[q].pc = "done",
         k.status = "redirect" => k.pc = "done" /\ k.on \in Interaction,
         known' = known, allowed \subseteq allowed', granted \subseteq granted',
         UnderWay(k) => /\ k.on \in Interaction
                        /\ k.login <=> k.on \in known
                        /\ k.scope <=> ~k.reject
                        /\ ~k.reject => k.on \in allowed',
         k.pc = "upsert" => k.login /\ ~k.reject,
         k.pc = "finish" /\ ~k.reject /\ k.on \in known => k.on \in granted'
  PROVE  /\ post' \in [Post -> PostState]
         /\ (\A q \in Post : PostShape(post[q]))' /\ PriorShape'
<1>1. /\ post \in [Post -> PostState]
      /\ PriorShape /\ \A q \in Post : PostShape(post[q])
  BY DEF IInv, TypeOK, Rest
<1>2. post'[p] = k /\ \A q \in Post : q # p => post'[q] = post[q]
  BY <1>1
<1>3. ASSUME NEW q \in Post, q # p PROVE PostShape(post[q])'
  BY <1>1, <1>2, <1>3 DEF PostShape, UnderWay
<1>4. PostShape(post[p])'
  BY <1>2 DEF PostShape, UnderWay
<1>5. PriorShape'
  BY <1>1, <1>2 DEF PriorShape, PostState
<1> QED
  BY <1>1, <1>3, <1>4, <1>5

\* A step of one submission that is not answered with the redirect, and that
\* leaves what the provider keeps as it is, makes no answer false.
LEMMA AnswersKept ==
  ASSUME IInv, NEW p \in Post, NEW k \in PostState, post' = [post EXCEPT ![p] = k],
         post[p].pc # "done", k.status # "redirect",
         post[p].pc # "unused" => k.on = post[p].on /\ k.reject = post[p].reject,
         UNCHANGED <<known, result>>, granted \subseteq granted'
  PROVE  AnswerStands'
<1>1. /\ post \in [Post -> PostState] /\ AnswerStands
      /\ \A q \in Post : PostShape(post[q])
  BY DEF IInv, TypeOK, Rest
<1>2. post'[p] = k /\ \A q \in Post : q # p => post'[q] = post[q]
  BY <1>1
<1> SUFFICES ASSUME NEW q \in Post, post'[q].status = "redirect"
             PROVE  /\ result'[post'[q].on] # "open"
                    /\ ~post'[q].reject /\ post'[q].on \in known' => post'[q].on \in granted'
                    /\ Overruled(q)' => \E x \in Post \ post'[q].prior :
                         post'[x].on = post'[q].on /\ post'[x].reject # post'[q].reject
  BY DEF AnswerStands
<1>3. q # p /\ post'[q] = post[q]
  BY <1>2
<1>4. Overruled(q)' => Overruled(q)
  BY <1>3 DEF Overruled
<1>5. post[q].on \in Interaction
  BY <1>1, <1>3 DEF PostShape
<1>6. ASSUME NEW x \in Post \ post[q].prior, post[x].on = post[q].on,
             post[x].reject # post[q].reject
      PROVE  post'[x].on = post[q].on /\ post'[x].reject # post[q].reject
  BY <1>1, <1>2, <1>5, <1>6, ParameterAssumption DEF PostShape
<1> QED
  BY <1>1, <1>3, <1>4, <1>6 DEF AnswerStands

\* A button is pressed: what was allowed grows.
LEMMA MoreAllowed ==
  ASSUME IInv, NEW choice \in Choice, allowed' = Allowed(choice),
         UNCHANGED <<known, result, granted>>
  PROVE  /\ allowed \subseteq allowed' /\ allowed' \subseteq Interaction
         /\ choice.decision = "allow" => choice.on \in allowed'
         /\ (granted \subseteq allowed)'
         /\ AllowanceIsRecorded'
BY DEF IInv, Rest, TypeOK, Allowed, Choice, AllowanceIsRecorded

\* Pressing a button of the form keeps the invariant.
LEMMA PressStep ==
  ASSUME IInv, NEW t \in Tab, NEW p \in Post, NEW decision \in Decision, Press(t, p, decision)
  PROVE  IInv'
<1> USE DEF IInv, Rest
<1> DEFINE i == tab[t].on
           a == [tab[t] EXCEPT !.pc = "sending", !.sent = p]
           choice == [on |-> i, decision |-> decision]
           k == [pc |-> "details", on |-> i, login |-> i \in known,
                 reject |-> decision = "deny", scope |-> decision = "allow", status |-> "none",
                 prior |-> {q \in Post : post[q].pc = "done"}]
<1>1. tab[t] \in TabState /\ i \in Interaction
  BY DEF Press, TypeOK, TabShape
<1>2. choice \in Choice
  BY <1>1 DEF Choice
<1>3. a \in TabState /\ a.on = i
  BY <1>1, TabUpdates DEF TabState
<1>4. k \in PostState
  BY <1>1 DEF PostState
<1>5. /\ tab' = [tab EXCEPT ![t] = a] /\ post' = [post EXCEPT ![p] = k]
      /\ allowed' = Allowed(choice)
      /\ UNCHANGED <<known, result, consent, decide, granted>>
  BY DEF Press
<1>6. /\ allowed \subseteq allowed' /\ allowed' \subseteq Interaction
      /\ choice.decision = "allow" => choice.on \in allowed'
      /\ (granted \subseteq allowed)'
      /\ AllowanceIsRecorded'
  BY <1>2, <1>5, MoreAllowed
<1>7. /\ k.pc = "details" /\ k.status = "none" /\ \A q \in k.prior : post[q].pc = "done"
      /\ k.on = i /\ (k.login <=> i \in known) /\ (k.scope <=> ~k.reject)
      /\ post[p].pc = "unused"
      /\ ~k.reject => k.on \in allowed'
  BY <1>6 DEF Decision, Press
<1> HIDE DEF a, k, choice
<1>8. /\ post' \in [Post -> PostState]
      /\ (\A q \in Post : PostShape(post[q]))' /\ PriorShape'
  BY <1>1, <1>4, <1>5, <1>6, <1>7, PostStep
<1>12. AnswerStands'
  BY <1>4, <1>5, <1>7, AnswersKept
<1>9. TabShape'
  BY <1>1, <1>3, <1>5 DEF TabShape, TypeOK
<1>10. TypeOK'
  BY <1>3, <1>5, <1>6, <1>8 DEF TypeOK
<1>11. (\A d \in Decide : DecideShape(decide[d]))'
  BY <1>5 DEF DecideShape
<1> QED
  BY <1>5, <1>6, <1>8, <1>9, <1>10, <1>11, <1>12

\* A submission that reaches the provider makes no answer false: who pressed the
\* other button was answered while this one was not.
LEMMA SubmissionStands ==
  ASSUME IInv, NEW p \in Post, NEW status \in {"redirect", "failed"}, post[p].pc = "finish",
         post' = Answered(p, status), UNCHANGED <<known, granted>>,
         result' = [result EXCEPT ![post[p].on] = IF post[p].reject THEN "denied" ELSE "allowed"]
  PROVE  AnswerStands'
<1>1. /\ post \in [Post -> PostState] /\ result \in [Interaction -> Result]
      /\ AnswerStands /\ PriorShape /\ \A q \in Post : PostShape(post[q])
  BY DEF IInv, TypeOK, Rest
<1>2. /\ \A q \in Post : q # p => post'[q] = post[q]
      /\ \A q \in Post : post'[q].on = post[q].on /\ post'[q].reject = post[q].reject
                          /\ post'[q].prior = post[q].prior
  BY <1>1 DEF Answered, PostState
<1>3. /\ post[p].on \in Interaction
      /\ result'[post[p].on] = IF post[p].reject THEN "denied" ELSE "allowed"
      /\ \A i \in Interaction : i # post[p].on => result'[i] = result[i]
  BY <1>1 DEF PostShape, UnderWay
<1>4. ASSUME NEW q \in Post, post'[q].status = "redirect"
      PROVE  /\ result'[post[q].on] # "open"
             /\ ~post[q].reject /\ post[q].on \in known => post[q].on \in granted
             /\ Overruled(q)' => \E x \in Post \ post[q].prior :
                  post[x].on = post[q].on /\ post[x].reject # post[q].reject
  <2>1. CASE q = p
    BY <1>1, <1>2, <1>3, <2>1 DEF PostShape, Overruled
  <2>2. CASE q # p /\ post[q].on # post[p].on
    <3>1. post[q].status = "redirect" /\ post[q].on \in Interaction
      BY <1>1, <1>2, <1>4, <2>2 DEF PostShape
    <3>2. Overruled(q)' => Overruled(q)
      BY <1>2, <1>3, <2>2, <3>1 DEF Overruled
    <3> QED
      BY <1>1, <1>3, <2>2, <3>1, <3>2 DEF AnswerStands
  <2>3. CASE q # p /\ post[q].on = post[p].on
    <3>1. post[q].status = "redirect" /\ p \notin post[q].prior
      BY <1>1, <1>2, <1>4, <2>3 DEF PriorShape
    <3>2. Overruled(q)' => post[p].reject # post[q].reject
      BY <1>1, <1>2, <1>3, <2>3 DEF Overruled, PostState
    <3> QED
      BY <1>1, <1>3, <2>3, <3>1, <3>2 DEF AnswerStands
  <2> QED
    BY <2>1, <2>2, <2>3
<1> QED
  BY <1>2, <1>4 DEF AnswerStands

\* The handler of POST /interaction/:uid/finish.
LEMMA HandleStep == ASSUME IInv, NEW p \in Post, Handle(p) PROVE IInv'
<1> USE DEF IInv, Rest
<1> DEFINE k == post[p]
           over(status) == [k EXCEPT !.pc = "done", !.status = status]
<1>1. /\ k \in PostState /\ PostShape(k) /\ PriorShape /\ UnderWay(k)
      /\ k.status # "redirect" /\ \A q \in k.prior : post[q].pc = "done"
      /\ UNCHANGED <<known, tab, decide, allowed>>
      /\ \A status \in {"redirect", "failed"} : over(status) \in PostState
  <2>1. k \in PostState /\ PostShape(k) /\ PriorShape /\ UnderWay(k)
    BY DEF TypeOK, Handle, PostDetails, PostUpsert, PostFinish, UnderWay
  <2>2. k.status # "redirect" /\ \A q \in k.prior : post[q].pc = "done"
    BY <2>1 DEF PostShape, PriorShape, UnderWay
  <2>3. UNCHANGED <<known, tab, decide, allowed>>
    BY DEF Handle, PostDetails, PostUpsert, PostFinish
  <2> QED
    BY <2>1, <2>2, <2>3, PostUpdates
<1>2. TabShape' /\ (\A d \in Decide : DecideShape(decide[d]))'
  BY <1>1 DEF TabShape, DecideShape
<1>3. ASSUME NEW status \in {"redirect", "failed"}, post' = Answered(p, status),
             granted \subseteq granted'
      PROVE  /\ post' \in [Post -> PostState]
             /\ (\A q \in Post : PostShape(post[q]))' /\ PriorShape'
             /\ status = "failed" /\ result' = result => AnswerStands'
  <2> DEFINE b == over(status)
  <2>1. b \in PostState /\ post' = [post EXCEPT ![p] = b]
    BY <1>1, <1>3 DEF Answered
  <2>2. /\ b.pc = "done" /\ b.status = status /\ b.prior = k.prior /\ b.on = k.on
        /\ b.reject = k.reject
    BY <1>1 DEF PostState
  <2>3. k.pc # "done" /\ k.on \in Interaction
    BY <1>1 DEF PostShape, UnderWay
  <2> HIDE DEF b, over
  <2>4. /\ post' \in [Post -> PostState]
        /\ (\A q \in Post : PostShape(post[q]))' /\ PriorShape'
    BY <1>1, <1>3, <2>1, <2>2, <2>3, PostStep DEF UnderWay
  <2>5. status = "failed" /\ result' = result => AnswerStands'
    BY <1>1, <1>3, <2>1, <2>2, <2>3, AnswersKept
  <2> QED
    BY <2>4, <2>5
<1>4. ASSUME NEW pc \in {"upsert", "finish"}, post' = [post EXCEPT ![p].pc = pc], UnderWay(k),
             granted \subseteq granted', result' = result,
             pc = "upsert" => Grants(p),
             pc = "finish" /\ ~k.reject /\ k.on \in known => k.on \in granted'
      PROVE  /\ post' \in [Post -> PostState]
             /\ (\A q \in Post : PostShape(post[q]))' /\ PriorShape' /\ AnswerStands'
  <2> DEFINE b == [k EXCEPT !.pc = pc]
  <2>1. /\ b \in PostState /\ b.pc = pc /\ b.on = k.on /\ b.login = k.login
        /\ b.reject = k.reject /\ b.scope = k.scope /\ b.status = k.status
        /\ b.prior = k.prior
    BY <1>1, PostUpdates DEF PostState
  <2>2. post' = [post EXCEPT ![p] = b]
    BY <1>4
  <2>3. /\ k.on \in Interaction /\ (k.login <=> k.on \in known) /\ (k.scope <=> ~k.reject)
        /\ ~k.reject => k.on \in allowed'
    BY <1>1, <1>4 DEF PostShape
  <2>4. b.pc = "upsert" => b.login /\ ~b.reject
    BY <1>4, <2>1 DEF Grants
  <2>5. k.pc # "done"
    BY <1>4 DEF UnderWay
  <2>6. /\ \A q \in b.prior : post[q].pc = "done"
        /\ ~b.reject /\ b.pc = "finish" /\ b.on \in known => b.on \in granted'
        /\ b.status # "redirect" /\ b.pc \in {"upsert", "finish"}
        /\ known' = known /\ allowed' = allowed /\ granted \subseteq granted'
    BY <1>1, <1>4, <2>1
  <2>7. /\ b.on \in Interaction /\ (b.login <=> b.on \in known) /\ (b.scope <=> ~b.reject)
        /\ ~b.reject => b.on \in allowed'
    BY <2>1, <2>3
  <2> HIDE DEF b
  <2>8. /\ post' \in [Post -> PostState]
        /\ (\A q \in Post : PostShape(post[q]))' /\ PriorShape'
    BY <2>1, <2>2, <2>4, <2>5, <2>6, <2>7, PostStep
  <2>9. AnswerStands'
    BY <1>1, <1>4, <2>1, <2>2, <2>5, AnswersKept
  <2> QED
    BY <2>8, <2>9
<1>5. CASE PostDetails(p)
  <2>1. UNCHANGED <<result, consent, granted>> /\ k.pc = "details"
    BY <1>5 DEF PostDetails
  <2>2. AllowanceIsRecorded'
    BY <1>1, <2>1 DEF AllowanceIsRecorded
  <2>3. /\ post' \in [Post -> PostState]
        /\ (\A q \in Post : PostShape(post[q]))' /\ PriorShape' /\ AnswerStands'
    <3>1. CASE ~Grants(p) /\ post' = [post EXCEPT ![p].pc = "finish"]
      <4>1. ~(~k.reject /\ k.on \in known)
        BY <1>1, <2>1, <3>1 DEF Grants, PostShape, UnderWay
      <4> QED
        BY <1>4, <2>1, <3>1, <4>1 DEF UnderWay
    <3>2. CASE Grants(p) /\ post' = [post EXCEPT ![p].pc = "upsert"]
      BY <1>4, <2>1, <3>2 DEF UnderWay
    <3>3. CASE post' = Answered(p, "failed")
      BY <1>3, <2>1, <3>3
    <3> QED
      BY <1>5, <3>1, <3>2, <3>3 DEF PostDetails
  <2>4. TypeOK'
    BY <1>1, <2>1, <2>3 DEF TypeOK
  <2> QED
    BY <1>1, <1>2, <2>1, <2>2, <2>3, <2>4
<1>6. CASE PostUpsert(p)
  <2>1. PICK outcome \in Outcome :
          /\ Store(k.on, outcome)
          /\ post' = IF outcome = "done" THEN [post EXCEPT ![p].pc = "finish"]
                                         ELSE Answered(p, "failed")
    BY <1>6 DEF PostUpsert
  <2>2. k.pc = "upsert" /\ k.on \in Interaction /\ k.on \in allowed /\ result' = result
    BY <1>1, <1>6 DEF PostUpsert, PostShape, UnderWay
  <2>3. \/ granted' = granted /\ consent' = consent
        \/ granted' = granted \cup {k.on} /\ consent' = k.on
    BY <2>1 DEF Store
  <2>4. outcome = "done" => k.on \in granted'
    BY <2>1 DEF Store
  <2>5. /\ post' \in [Post -> PostState]
        /\ (\A q \in Post : PostShape(post[q]))' /\ PriorShape' /\ AnswerStands'
    <3>1. CASE outcome = "done"
      BY <1>4, <2>1, <2>2, <2>3, <2>4, <3>1 DEF UnderWay
    <3>2. CASE outcome # "done"
      BY <1>3, <2>1, <2>2, <2>3, <3>2
    <3> QED
      BY <3>1, <3>2
  <2>6. AllowanceIsRecorded'
    BY <1>1, <2>2, <2>3 DEF AllowanceIsRecorded
  <2>7. TypeOK'
    BY <1>1, <2>2, <2>3, <2>5 DEF TypeOK
  <2>8. (granted \subseteq allowed)' /\ (consent # None => consent \in granted)'
    BY <1>1, <2>2, <2>3
  <2> QED
    BY <1>2, <2>5, <2>6, <2>7, <2>8
<1>7. CASE PostFinish(p)
  <2>1. UNCHANGED <<consent, granted>> /\ k.pc = "finish"
    BY <1>7 DEF PostFinish
  <2>2. \E status \in {"redirect", "failed"} : post' = Answered(p, status)
    BY <1>7 DEF PostFinish
  <2>3. post' \in [Post -> PostState] /\ (\A q \in Post : PostShape(post[q]))' /\ PriorShape'
    BY <1>3, <2>1, <2>2
  <2>8. AnswerStands'
    <3>1. CASE result' = result /\ post' = Answered(p, "failed")
      BY <1>3, <2>1, <3>1
    <3>2. ASSUME NEW outcome \in {"done", "lost"}, Submit(k.on, k.reject, outcome),
                 post' = Answered(p, IF outcome = "done" THEN "redirect" ELSE "failed")
          PROVE  AnswerStands'
      BY <1>1, <2>1, <3>2, SubmissionStands DEF Submit
    <3> QED
      BY <1>7, <3>1, <3>2 DEF PostFinish, Outcome, Submit
  <2>4. /\ k.on \in Interaction
        /\ ~k.reject /\ k.on \in known => k.on \in granted
    BY <1>1, <2>1 DEF PostShape, UnderWay
  <2>5. \/ result' = result
        \/ result' = [result EXCEPT ![k.on] = IF k.reject THEN "denied" ELSE "allowed"]
    BY <1>7 DEF PostFinish, Submit
  <2>6. AllowanceIsRecorded' /\ result' \in [Interaction -> Result]
    BY <1>1, <2>1, <2>4, <2>5 DEF AllowanceIsRecorded, TypeOK, Result
  <2>7. TypeOK'
    BY <1>1, <2>1, <2>3, <2>6 DEF TypeOK
  <2> QED
    BY <1>1, <1>2, <2>1, <2>3, <2>6, <2>7, <2>8
<1> QED
  BY <1>5, <1>6, <1>7 DEF Handle

\* The decide route: its scheme is not the one the API looks for.
LEMMA DecideStep == ASSUME IInv, NEW d \in Decide, DecideBegin(d) \/ DecideCall(d) PROVE IInv'
<1> USE DEF IInv, Rest
<1>0. decide[d] \in DecideState /\ DecideShape(decide[d]) /\ UNCHANGED <<known, tab, post>>
  BY DEF TypeOK, DecideBegin, DecideCall
<1>1. ASSUME NEW a \in DecideState, DecideShape(a), decide' = [decide EXCEPT ![d] = a]
      PROVE  decide' \in [Decide -> DecideState] /\ (\A e \in Decide : DecideShape(decide[e]))'
  BY <1>1 DEF TypeOK, DecideShape
<1>2. CASE DecideBegin(d)
  <2>1. PICK choice \in Choice : /\ decide' = [decide EXCEPT ![d].pc = "details", ![d].choice = choice]
                                 /\ allowed' = Allowed(choice)
    BY <1>2 DEF DecideBegin
  <2> DEFINE a == [decide[d] EXCEPT !.pc = "details", !.choice = choice]
  <2>2. a \in DecideState /\ DecideShape(a) /\ decide' = [decide EXCEPT ![d] = a]
    BY <1>0, <2>1 DEF DecideState, DecideShape
  <2> HIDE DEF a
  <2>3. decide' \in [Decide -> DecideState] /\ (\A e \in Decide : DecideShape(decide[e]))'
    BY <1>1, <2>2
  <2>4. UNCHANGED <<result, consent, granted>>
    BY <1>2 DEF DecideBegin
  <2>5. /\ allowed \subseteq allowed' /\ allowed' \subseteq Interaction
        /\ (granted \subseteq allowed)' /\ AllowanceIsRecorded'
    BY <1>0, <2>1, <2>4, MoreAllowed
  <2>6. (\A p \in Post : PostShape(post[p]))' /\ TabShape' /\ PriorShape' /\ AnswerStands'
    BY <1>0, <2>4, <2>5 DEF PostShape, UnderWay, TabShape, PriorShape, AnswerStands, Overruled
  <2>7. TypeOK'
    BY <1>0, <2>3, <2>4, <2>5 DEF TypeOK
  <2> QED
    BY <2>3, <2>4, <2>5, <2>6, <2>7
<1>3. CASE DecideCall(d)
  <2>1. decide[d].pc = "details" /\ DecideScheme # BoundaryScheme
    BY <1>0, <1>3 DEF DecideCall, DecideShape, DecideOperation, DecideScheme, BoundaryScheme
  <2> DEFINE a == [pc |-> "done", choice |-> None, status |-> "failed"]
  <2>2. decide' = [decide EXCEPT ![d] = a] /\ UNCHANGED <<result, consent, granted, allowed>>
    BY <1>3, <2>1 DEF DecideCall
  <2>3. a \in DecideState /\ DecideShape(a)
    BY DEF DecideState, DecideShape
  <2> HIDE DEF a
  <2>4. decide' \in [Decide -> DecideState] /\ (\A e \in Decide : DecideShape(decide[e]))'
    BY <1>1, <2>2, <2>3
  <2>5. /\ (\A p \in Post : PostShape(post[p]))' /\ TabShape' /\ AllowanceIsRecorded'
        /\ PriorShape' /\ AnswerStands'
    BY <1>0, <2>2 DEF PostShape, TabShape, AllowanceIsRecorded, PriorShape, AnswerStands, Overruled
  <2>6. TypeOK'
    BY <1>0, <2>2, <2>4 DEF TypeOK
  <2> QED
    BY <2>2, <2>4, <2>5, <2>6
<1> QED
  BY <1>2, <1>3

\* The invariant is inductive, and holds throughout.
LEMMA NextIInv == IInv /\ [Next]_vars => IInv'
<1> SUFFICES ASSUME IInv, [Next]_vars PROVE IInv'
  OBVIOUS
<1>1. CASE Next
  BY <1>1, PageStep, PressStep, HandleStep, DecideStep DEF Next
<1>2. CASE UNCHANGED vars
  <2>1. TypeOK'
    BY <1>2 DEF IInv, TypeOK, vars
  <2>2. Rest'
    BY <1>2 DEF IInv, Rest, TabShape, PostShape, PriorShape, DecideShape, AllowanceIsRecorded,
       AnswerStands, Overruled, vars
  <2> QED
    BY <2>1, <2>2 DEF IInv
<1> QED
  BY <1>1, <1>2

\* The invariant holds in every reachable state.
LEMMA InvariantHolds == Spec => []IInv
BY InitIInv, NextIInv, PTL DEF Spec
-----------------------------------------------------------------------------
(* Theorems *)

\* The types hold, and what is stored in oauth_consents is something the subject
\* allowed, however its handlers, tabs and broken connections interleave
\* (protocol-app.ts, POST /interaction/:uid/finish).
THEOREM OnlyTheAllowedIsStored == Spec => []ConsentInv
<1>1. IInv => ConsentInv
  BY DEF IInv, Rest, ConsentInv, ConsentWasGiven
<1> QED
  BY <1>1, InvariantHolds, PTL

\* The provider is told of the allowance of a known subject only when the consent
\* is stored (protocol-app.ts, "Persist consent via boundary if approved").
THEOREM StoredBeforeAllowed == Spec => []AllowanceIsRecorded
<1>1. IInv => AllowanceIsRecorded
  BY DEF IInv, Rest
<1> QED
  BY <1>1, InvariantHolds, PTL

\* A submission that is answered with the redirect is overruled only by one that
\* had not been answered when it was pressed, in whatever order their handlers
\* write (protocol-app.ts, POST /interaction/:uid/finish).
THEOREM AnswersStand == Spec => []AnswerStands
<1>1. IInv => AnswerStands
  BY DEF IInv, Rest
<1> QED
  BY <1>1, InvariantHolds, PTL
=============================================================================
