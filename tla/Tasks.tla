-------------------------------- MODULE Tasks --------------------------------
(***************************************************************************)
(* What the models of the client objects share: the asyncio tasks that use *)
(* an object, and names for the SDK objects it creates.                    *)
(***************************************************************************)
CONSTANTS
    Task,    \* tasks that share an object
    Closer,  \* those that close it, where only some do
    Name,    \* names of SDK objects; a credential has the name of its client
    None     \* Python's None

ASSUME TasksAssumption ==
    /\ Closer \subseteq Task
    /\ None \notin Task \cup Name
    /\ "direct" \notin Name \cup {None}
=============================================================================
