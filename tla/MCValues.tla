------------------------------ MODULE MCValues ------------------------------
(***************************************************************************)
(* What names and values come to: entity values with the scenarios of      *)
(* MCEntityValue, their scanner with the texts of MCValueScanner, and tags *)
(* with the settings of MCStartTags, side by side.  Each behaviour runs    *)
(* one of the three and leaves the others at rest.                         *)
(***************************************************************************)
EXTENDS MCEntityValue

CONSTANTS Texts, Settings, Tags, EndNames,
          MaxDepth, MaxAttributes, MaxEntityDepth, SmallList, MaxTokens

VARIABLES part,
          full, qualified, arrived, final, scanner, outcome, reported,
          setting, namespaces, scopes, stack, expanded, closedRoot, error, delivered, token, open

lexerVars == <<full, qualified, arrived, final, scanner, outcome, reported>>
tagVars == <<setting, namespaces, scopes, stack, expanded, closedRoot, error, delivered, token, open>>

Lexer == INSTANCE ValueScannerReference WITH namespaces <- qualified
Elements == INSTANCE StartTagsReference

TextsOf == INSTANCE MCValueScanner
TagsOf == INSTANCE MCStartTags
LexerTexts == TextsOf!MCTexts
TagSettings == TagsOf!MCSettings
TagTags == TagsOf!MCTags
TagEndNames == TagsOf!MCEndNames

ValuesInit ==
    /\ part \in {"values", "scanner", "tags"}
    /\ scenario \in IF part = "values" THEN Scenarios ELSE {CHOOSE s \in Scenarios : TRUE}
    /\ full \in IF part = "scanner" THEN Texts ELSE {<<>>}
    /\ qualified \in IF part = "scanner" THEN BOOLEAN ELSE {TRUE}
    /\ setting \in IF part = "tags" THEN Settings ELSE {CHOOSE s \in Settings : TRUE}
    /\ Init /\ Lexer!Init /\ Elements!Init

ValuesNext ==
    \/ part = "values" /\ Next /\ UNCHANGED <<part, lexerVars, tagVars>>
    \/ part = "scanner" /\ Lexer!Next /\ UNCHANGED <<part, vars, tagVars>>
    \/ part = "tags" /\ Elements!Next /\ UNCHANGED <<part, vars, lexerVars>>

ValuesSpec == ValuesInit /\ [][ValuesNext]_<<part, vars, lexerVars, tagVars>>

-----------------------------------------------------------------------------
(* The properties of ValueScannerReference and StartTagsReference.         *)

(* A text is judged by its tokens, and its XML declarations are reported   *)
(* once each, wherever the text was cut (ValueScannerReference), in time   *)
(* linear in its length.                                                   *)
ScanExpected == Lexer!ScanExpected /\ Lexer!LinearWork

(* Every tag gives the names, attributes, bindings or error that the       *)
(* declarations and the bindings in scope make of it (StartTagsReference). *)
TagsExpected == Elements!TagsExpected

(* The bindings in force are those of the open elements' declarations.     *)
ScopesRestored == Elements!ScopesRestored

(* What a tag copies out of declarations and bindings is charged.          *)
WorkCharged == Elements!WorkCharged
=============================================================================
