------------------------------ MODULE Templates ------------------------------
(***************************************************************************)
(* Verification templates and their registry (zktls-templates/src/lib.rs),     *)
(* and the one template built into the notary (zktls-notary/src/main.rs).      *)
(*                                                                          *)
(* A JSON path is the sequence of its segments.  Of a field the model keeps    *)
(* what the code reads: field_type, validation_pattern and description are     *)
(* never looked at.                                                            *)
(***************************************************************************)
EXTENDS Naturals, Sequences

FieldDefinition(FieldName, Path) ==
    [name : FieldName, json_path : Path, required : BOOLEAN]

DisclosureMask(Path) ==
    [disclosed_paths : SUBSET Path, redacted_paths : SUBSET Path]

UtahVoterTemplate ==
    [id       |-> "utah-voter-v1",
     hostname |-> "votesearch.utah.gov",
     fields   |->
        << [name |-> "status", json_path |-> <<"voter", "status">>,
            required |-> TRUE],
           [name |-> "state", json_path |-> <<"residence", "physicalState">>,
            required |-> TRUE],
           [name |-> "errorMessage", json_path |-> <<"errorMessage">>,
            required |-> FALSE] >>,
     default_disclosure |->
        [disclosed_paths |->
            {<<"voter", "status">>, <<"residence", "physicalState">>,
             <<"errorMessage">>},
         redacted_paths |->
            ({"voter"} \X {"first", "middle", "last", "party", "voterId"})
            \cup ({"residence"} \X {"physicalAddress1", "physicalCity",
                                    "physicalZip"})
            \cup {<<"countyName">>, <<"precinctId">>}],
     claim_type |-> "voter_registration"]

------------------------------------------------------------------------------
(* The registry: templates in the order they were registered. *)

Register(registry, template) == Append(registry, template)

ListIds(registry) == {registry[k].id : k \in DOMAIN registry}

Having(registry, id) == {k \in DOMAIN registry : registry[k].id = id}

(* A fault that BuiltinStays tells from GetTemplate: the last one registered    *)
(* is found.                                                                    *)
GetLast(registry, id) ==
    registry[CHOOSE k \in Having(registry, id) :
                \A j \in Having(registry, id) : j <= k]

(* What get finds for an id of the registry: the first one registered under it. *)
GetTemplate(registry, id) ==
    registry[CHOOSE k \in Having(registry, id) :
                \A j \in Having(registry, id) : k <= j]

==============================================================================
