------------------------------- MODULE ErrorValues -------------------------------
(***************************************************************************)
(* Error values, and what of them reaches a client.  internal/core/errors  *)
(* wraps an error of the database in constants of the program, each store  *)
(* chooses the constants by the condition the database reports, and        *)
(* handleError of the transport makes a status and a text of the result.   *)
(*                                                                         *)
(* Only operators: a handler's model keeps such a value where the handler  *)
(* has an err.                                                             *)
(***************************************************************************)
EXTENDS Integers, Sequences

\* What the database says: its condition, and the name of the column, type or
\* constraint the code looks for in the text.  "other" stands for errors that
\* do not come from it (a lost connection, a failed Scan or Marshal).
Conditions == {"no_rows", "string_data_right_truncation", "check_violation",
               "not_null_violation", "unique_violation",
               "invalid_text_representation", "foreign_key_violation",
               "numeric_value_out_of_range", "other"}
Names == {"none", "email", "nickname", "password", "uuid", "quest_to_email",
          "quest_id_email_unique"}
Cause == [condition : Conditions, name : Names]

\* The constants of the package errors, and those of a store or a handler.
Message == {"unknown", "invalid_request", "validation", "not_found", "forbidden",
            "invalid_email", "empty_nickname", "empty_password",
            "nickname_already_used", "already_sent_to_email", "already_sent",
            "invalid_id", "not_deleted", "no_access", "no_steps"}

\* The constants around a cause, the outermost first: what Unwrap walks along.
ErrorValue == [msgs : Seq(Message), cause : Cause]

Of(condition, name) ==
  [msgs |-> << >>, cause |-> [condition |-> condition, name |-> name]]

NoRows == Of("no_rows", "none")
NoUuid == Of("invalid_text_representation", "uuid")
Failure == Of("other", "none")

Wrap(m, e) == [msgs |-> <<m>> \o e.msgs, cause |-> e.cause]

\* errors.Is: each error of the chain is compared with the constant.
Is(e, m) == \E i \in DOMAIN e.msgs : e.msgs[i] = m

StatusOf(e) ==
  IF Is(e, "invalid_request") \/ Is(e, "validation") THEN 400
  ELSE IF Is(e, "not_found") THEN 404
  ELSE IF Is(e, "forbidden") THEN 403
  ELSE 500

\* The text of the answer is cut at the first separator.
TextOf(e) == IF e.msgs = << >> THEN e.cause.condition ELSE e.msgs[1]

\* The constants that say more than ErrValidation.
Detail(c) ==
  CASE c.condition \in {"check_violation", "not_null_violation"} /\ c.name = "email"
         -> "invalid_email"
    [] c.condition \in {"check_violation", "not_null_violation"} /\ c.name = "nickname"
         -> "empty_nickname"
    [] c.condition \in {"check_violation", "not_null_violation"} /\ c.name = "password"
         -> "empty_password"
    [] c.condition = "unique_violation" /\ c.name = "quest_id_email_unique"
         -> "already_sent_to_email"
    [] c.condition = "unique_violation" /\ c.name = "nickname" -> "nickname_already_used"
    [] c.condition = "invalid_text_representation" /\ c.name = "uuid" -> "invalid_id"
    [] OTHER -> "validation"

\* The conditions a client is to blame for.  A foreign key, and a number that
\* does not fit its column, are not among them.
Blamed(c) ==
  \/ c.condition \in {"string_data_right_truncation", "check_violation",
                      "not_null_violation", "unique_violation"}
  \/ c.condition = "invalid_text_representation" /\ c.name = "uuid"

Invalid(e) ==
  IF Detail(e.cause) = "validation" THEN Wrap("validation", e)
  ELSE Wrap(Detail(e.cause), Wrap("validation", e))

\* A foreign key violation taken for a row that is not there.
MutCheckWriteError(e) ==
  CASE Blamed(e.cause) -> Invalid(e)
    [] e.cause.condition = "foreign_key_violation" -> Wrap("not_found", e)
    [] OTHER -> Wrap("unknown", e)

\* checkWriteError of the quests store, for an error that is not nil.
CheckWriteError(e) == IF Blamed(e.cause) THEN Invalid(e) ELSE Wrap("unknown", e)

\* What GetQuest and GetAssignment make of a failed SELECT.
SelectError(e) ==
  CASE e.cause.condition = "no_rows" -> Wrap("not_found", e)
    [] e.cause = [condition |-> "invalid_text_representation", name |-> "uuid"]
         -> Invalid(e)
    [] OTHER -> Wrap("unknown", e)

\* What DeleteQuest makes of a failed DELETE.
DeleteError(e) ==
  CASE e.cause = [condition |-> "invalid_text_representation", name |-> "uuid"]
         -> Invalid(e)
    [] e.cause.name = "quest_to_email" -> Wrap("already_sent", Wrap("validation", e))
    [] OTHER -> Wrap("unknown", e)
================================================================================
