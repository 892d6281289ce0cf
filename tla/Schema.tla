-------------------------------- MODULE Schema --------------------------------
(***************************************************************************)
(* Field and Schema (pyro_db/schema.py).  A schema maps some of the fields *)
(* to a description; a record or patch maps every field to a value or      *)
(* Absent.  An error is the name of the check that failed.                 *)
(***************************************************************************)
EXTENDS FieldValues

Unbounded == -1

\* Field(...): a field that has a default is not required.  No types is any
\* type; choices and validator are the sets of values they let pass.
Field(types, required, default) ==
  [types |-> types, required |-> required /\ default = Absent,
   default |-> default, nullable |-> FALSE,
   min |-> Unbounded, max |-> Unbounded, shortest |-> Unbounded,
   longest |-> Unbounded, limited |-> FALSE, passing |-> {}]

\* The checks of a value that is not None and of the right type; all of those
\* that fail are reported.
Fails(field, v, check) ==
  LET number == Is(v, "int")
      sized  == Is(v, "str")
  IN CASE check = "min_value" ->
            number /\ field.min # Unbounded /\ v.n < field.min
       [] check = "max_value" ->
            number /\ field.max # Unbounded /\ v.n > field.max
       [] check = "min_length" ->
            sized /\ field.shortest # Unbounded /\ Len(v.chars) < field.shortest
       [] check = "max_length" ->
            sized /\ field.longest # Unbounded /\ Len(v.chars) > field.longest
       [] check = "choices" ->
            field.limited /\ v \notin field.passing

Checks == {"min_value", "max_value", "min_length", "max_length", "choices"}

NullErrors(field) ==
  IF field.required /\ ~field.nullable THEN {"required"} ELSE {}

\* Field.validate: None and a wrong type end the checks.
ErrorsOf(field, v) ==
  IF v = None THEN NullErrors(field)
  ELSE IF field.types # {} /\ v.type \notin field.types THEN {"type"}
  ELSE {check \in Checks : Fails(field, v, check)}

\* Schema.apply_defaults.
WithDefaults(schema, r) ==
  [f \in Fields |-> IF f \in DOMAIN schema /\ r[f] = Absent
                      THEN schema[f].default ELSE r[f]]

\* Schema.validate: what is there is checked, and unless the record is a
\* patch, what is required must be there.
Errors(schema, r, partial) ==
  UNION {IF r[f] # Absent THEN ErrorsOf(schema[f], r[f])
         ELSE IF schema[f].required /\ ~partial THEN {"missing"} ELSE {}
         : f \in DOMAIN schema}

Valid(schema, r) == Errors(schema, r, FALSE) = {}
ValidPatch(schema, r) == Errors(schema, r, TRUE) = {}
=============================================================================
