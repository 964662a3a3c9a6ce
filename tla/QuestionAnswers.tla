--------------------------- MODULE QuestionAnswers ---------------------------
(***************************************************************************)
(* From a responder's form to the answers the agent gets: the questions of *)
(* one AskUserQuestion call (a form) are rendered as fields, the submitted *)
(* fields become an answer map, and on resume canUseTool looks the answers *)
(* of the repeated call up in that map (webhook/questionForm.ts,           *)
(* hitl/questionPolicy.ts, permissions/canUseToolRules.ts).                *)
(*                                                                         *)
(* Text is compared without case and outer blanks, so a name stands for a  *)
(* normalised text.  A text that may hold commas is the sequence of its    *)
(* comma-separated parts: joining selections with commas concatenates      *)
(* them.                                                                   *)
(***************************************************************************)
EXTENDS Naturals, Sequences, FiniteSets, SequencesExt, FiniteSetsExt

NoName == ""          \* a question without a header
FreeText == <<>>      \* options of a question that has none, or the free-text pair

(***************************************************************************)
(* Keys of an answer map: a name, "header: question" as a pair, field-<i>. *)
(***************************************************************************)
NameKey(name) == <<name>>
BothKey(q) == <<q.header, q.text>>
FieldKey(i) == <<"field", "field", i>>

\* buildQuestionLookupKeys, without the field-<name> forms that only a form body has.
LookupKeys(q, i) ==
    <<FieldKey(i)>> \o (IF q.header = NoName THEN <<NameKey(q.text)>>
                        ELSE <<NameKey(q.header), NameKey(q.text), BothKey(q)>>)
\* The candidate keys of resolveQueuedAnswerForQuestion, in its order.
QueuedKeys(q, i) ==
    (IF q.header = NoName THEN <<NameKey(q.text)>>
     ELSE <<NameKey(q.text), NameKey(q.header), BothKey(q)>>) \o <<FieldKey(i)>>

\* The value of the first key the map has, or the empty sequence.
FirstAnswer(answers, keys) ==
    LET hits == {k \in DOMAIN keys : keys[k] \in DOMAIN answers}
    IN  IF hits = {} THEN <<>> ELSE answers[keys[Min(hits)]]
-----------------------------------------------------------------------------
(***************************************************************************)
(* What a responder submits for a question: the indices of the options     *)
(* picked, in the order of the form, or a text.                            *)
(***************************************************************************)
Options(q) == DOMAIN q.options

\* HitlQuestionDefinition, and the submissions of a form.
QuestionDefinition ==
    [text : STRING, header : STRING, multiSelect : BOOLEAN,
     options : Seq([label : Seq(STRING), action : {"none", "resume", "complete"}])]
IsForm(form) == form \in Seq(QuestionDefinition)
IsSubmission(form, picks) ==
    /\ DOMAIN picks = DOMAIN form
    /\ \A i \in DOMAIN form :
          picks[i] \in IF form[i].options = FreeText THEN Seq(STRING) ELSE Seq(Options(form[i]))

\* mapSelectionsToQuestionLabels: the labels of the options picked.
MapSelectionsToLabels(q, pick) == [k \in DOMAIN pick |-> q.options[pick[k]].label]

\* parseOptionSelections and the branch of parseQuestionAnswers for the question's type.
ParsedValue(q, pick) ==
    CASE q.options = FreeText                   -> pick
      [] q.options # FreeText /\ q.multiSelect  -> FlattenSeq(MapSelectionsToLabels(q, pick))
      [] OTHER -> IF pick = <<>> THEN <<>> ELSE Head(MapSelectionsToLabels(q, pick))

AnswerKey(q) == NameKey(IF q.header = NoName THEN q.text ELSE q.header)

\* Mutant: answers are kept by position, where the resumed call does not look.
ParseByPosition(form, picks) ==
    [k \in {<<"position", "position", i>> : i \in DOMAIN form} |-> ParsedValue(form[k[3]], picks[k[3]])]

\* parseQuestionAnswers: an answer map by header, the last question of a header winning.
ParseQuestionAnswers(form, picks) ==
    LET given == {i \in DOMAIN form : ParsedValue(form[i], picks[i]) # <<>>}
        Latest(key) == Max({i \in given : AnswerKey(form[i]) = key})
    IN  [key \in {AnswerKey(form[i]) : i \in given} |-> ParsedValue(form[Latest(key)], picks[Latest(key)])]

\* A body whose answers the client has keyed itself, by question text.
AnswersByText(form, picks) ==
    [key \in {NameKey(form[i].text) : i \in DOMAIN form} |->
        LET i == CHOOSE i \in DOMAIN form : NameKey(form[i].text) = key
        IN  ParsedValue(form[i], picks[i])]

\* The raw WhatsApp reply to one question of the form.
AnswerOfField(form, picks, i) == [key \in {FieldKey(i)} |-> ParsedValue(form[i], picks[i])]
-----------------------------------------------------------------------------
(***************************************************************************)
(* Whether the answers resume the agent or complete the task: an option    *)
(* selected may carry an action, and resume wins over complete.            *)
(***************************************************************************)
SplitSelections(value, multiSelect) ==
    IF value = <<>> THEN {} ELSE IF multiSelect THEN {<<value[k]>> : k \in DOMAIN value} ELSE {value}

ActionsOf(form, answers) ==
    UNION {LET q == form[i]
           IN  {q.options[o].action : o \in {o \in Options(q) : q.options[o].label \in
                    SplitSelections(FirstAnswer(answers, LookupKeys(q, i)), q.multiSelect)}} :
           i \in DOMAIN form}

ResolveQuestionResponseAction(form, answers) ==
    CASE "resume" \in ActionsOf(form, answers) -> "resume"
      [] "resume" \notin ActionsOf(form, answers) /\ "complete" \in ActionsOf(form, answers) -> "complete"
      [] OTHER -> IF DOMAIN answers = {} THEN "none" ELSE "resume"
-----------------------------------------------------------------------------
(***************************************************************************)
(* The resumed call: each question's answer is looked up and kept if it is *)
(* one of the question's labels; the call is answered if every question is. *)
(***************************************************************************)
IsAnswerCompatible(q, value) ==
    LET labels == {q.options[o].label : o \in Options(q)}
    IN  q.options = FreeText \/ (IF q.multiSelect
                                 THEN \A k \in DOMAIN value : <<value[k]>> \in labels
                                 ELSE value \in labels)

\* mappedAnswers, by question text: a later question of the same text overwrites.
MappedAnswers(form, answers) ==
    LET Found(i) == FirstAnswer(answers, QueuedKeys(form[i], i))
        good == {i \in DOMAIN form : Found(i) # <<>> /\ IsAnswerCompatible(form[i], Found(i))}
        Latest(text) == Max({i \in good : form[i].text = text})
    IN  [text \in {form[i].text : i \in good} |-> Found(Latest(text))]

QueuedAnswerCompletes(form, answers) ==
    Cardinality(DOMAIN MappedAnswers(form, answers)) = Len(form)
-----------------------------------------------------------------------------
\* Every question has a text, and no name of one question is a name of another.
Unambiguous(form) ==
    /\ \A i \in DOMAIN form : form[i].text # NoName
    /\ \A i, j \in DOMAIN form : i # j =>
          {form[i].text, form[i].header} \cap {form[j].text, form[j].header} \subseteq {NoName}
\* No label of a multiple-choice question has a comma.
CommaFree(form) ==
    \A i \in DOMAIN form : form[i].multiSelect => \A o \in Options(form[i]) : Len(form[i].options[o].label) = 1
\* What the responder picked, by question text.
Picked(form, picks) ==
    [text \in {form[i].text : i \in DOMAIN form} |->
        LET i == CHOOSE i \in DOMAIN form : form[i].text = text IN ParsedValue(form[i], picks[i])]
=============================================================================
