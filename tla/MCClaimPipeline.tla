--------------------------- MODULE MCClaimPipeline ---------------------------
(* The built-in Utah template and one with what it lacks: redacted fields, three *)
(* fields of one name, a path below a value that is no object.  A body that has   *)
(* everything, one without residence, one whose status is null and that lacks the *)
(* first name, one that is no JSON.                                              *)
EXTENDS ClaimPipeline, TLC

(* The notaries differ in nothing; no property is about liveness. *)
Symmetry == Permutations(Notary)

Object(members) == [json |-> "object", members |-> members]
Scalar(text) == [json |-> "scalar", text |-> text]

(* A template as a TOML file may hold one. *)
RollTemplate ==
    [id       |-> "roll-v1",
     hostname |-> "roll.example.gov",
     fields   |->
        << [name |-> "status", json_path |-> <<"voter", "status">>,
            required |-> TRUE],
           [name |-> "first", json_path |-> <<"voter", "first">>,
            required |-> FALSE],
           [name |-> "status", json_path |-> <<"residence", "physicalState">>,
            required |-> FALSE],
           [name |-> "status", json_path |-> <<"residence", "physicalState", "iso">>,
            required |-> FALSE] >>,
     default_disclosure |->
        [disclosed_paths |->
            {<<"residence", "physicalState">>,
             <<"residence", "physicalState", "iso">>},
         redacted_paths |->
            {<<"voter", "first">>, <<"voter", "status">>,
             <<"residence", "physicalState">>}],
     claim_type |-> "roll_entry"]

MCTemplateId == {"utah-voter-v1", "roll-v1"}
MCTemplate == [t \in MCTemplateId |->
                 IF t = "utah-voter-v1" THEN UtahVoterTemplate ELSE RollTemplate]

(* A client may ask for the mask of the other template: it discloses less of the *)
(* Utah template and redacts its required status, or more of the other.           *)
MCDisclosure == {MCTemplate[t].default_disclosure : t \in MCTemplateId}

MCDefaultDisclosure == {UtahVoterTemplate.default_disclosure}

MCFieldList == {MCTemplate[t].fields : t \in MCTemplateId}

MCPath ==
    UNION {{fs[k].json_path : k \in DOMAIN fs} : fs \in MCFieldList}
    \cup UNION {m.disclosed_paths \cup m.redacted_paths : m \in MCDisclosure}

MCFieldName == UNION {{fs[k].name : k \in DOMAIN fs} : fs \in MCFieldList}

MCBody == {"whole", "no residence", "null status", "no json"}
MCParsed ==
    [b \in MCBody |->
        CASE b = "whole" ->
                Object([voter |-> Object([status |-> Scalar("Active"),
                                          first |-> Scalar("Ann")]),
                        residence |-> Object([physicalState |-> Scalar("UT")])])
          [] b = "no residence" ->
                Object([voter |-> Object([status |-> Scalar("Active"),
                                          first |-> Scalar("Ann")])])
          [] b = "null status" ->
                Object([voter |-> Object([status |-> Null]),
                        residence |-> Object([physicalState |-> Scalar("UT")])])
          [] b = "no json" -> None]
==============================================================================
