-------------------------- MODULE MCGengineParser --------------------------
EXTENDS GengineParser

(* the token masks of the generated code are what the guarded parts begin with *)
ASSUME MasksAreFirstTokens ==
  \A r \in DOMAIN Body : \A i \in DOMAIN Body[r] :
    Body[r][i].do \in {"if", "while", "repeat"} =>
      Body[r][i].tokens = First(Body[r][i].body)

Opening == <<"RULE", "DQUOTA_STRING", "BEGIN">>

(* what stands between two rules, and before a rule's content *)
Headers ==
  [given |-> <<"RULE">>, free |-> 7, maxErrors |-> 3,
   tokens |-> {"RULE", "DQUOTA_STRING", "SALIENCE", "MINUS", "INT", "BEGIN", "END"}]
Ifs ==
  [given |-> Opening \o <<"IF", "TRUE", "LR_BRACE">>, free |-> 9, maxErrors |-> 1,
   tokens |-> {"IF", "ELSE", "TRUE", "LR_BRACE", "RR_BRACE", "BREAK", "END"}]
Fors ==
  [given |-> Opening \o <<"FOR", "SIMPLENAME">>, free |-> 11, maxErrors |-> 1,
   tokens |-> {"ASSIGN", "SIMPLENAME", "SEMICOLON", "LR_BRACE", "RR_BRACE", "END"}]
Concs ==
  [given |-> Opening \o <<"CONC">>, free |-> 6, maxErrors |-> 1,
   tokens |-> {"CONC", "RETURN", "SIMPLENAME", "ASSIGN", "LR_BRACE", "RR_BRACE", "END"}]
ForRanges ==
  [given |-> Opening \o <<"FORRANGE">>, free |-> 8, maxErrors |-> 1,
   tokens |-> {"FORRANGE", "CONTINUE", "SIMPLENAME", "ASSIGN", "LR_BRACE", "RR_BRACE", "END"}]
Logic ==
  [given |-> Opening \o <<"RETURN">>, free |-> 8, maxErrors |-> 2,
   tokens |-> {"ATID", "AND", "EQUALS", "NOT", "PLUS", "END"}]
Arithmetic ==
  [given |-> Opening \o <<"RETURN">>, free |-> 7, maxErrors |-> 1,
   tokens |-> {"INT", "MINUS", "MUL", "LR_BRACKET", "RR_BRACKET", "END"}]
NestedCalls ==
  [given |-> Opening \o <<"RETURN">>, free |-> 5, maxErrors |-> 1,
   tokens |-> {"DOTTEDNAME", "LR_BRACKET", "RR_BRACKET", "COMMA", "END"}]
Maps ==
  [given |-> Opening \o <<"RETURN">>, free |-> 5, maxErrors |-> 1,
   tokens |-> {"SIMPLENAME", "LR_BRACKET", "RR_BRACKET", "LSQARE", "RSQARE", "END"}]
Literals ==
  [given |-> Opening \o <<"RETURN">>, free |-> 4, maxErrors |-> 1,
   tokens |-> {"ATNAME", "ATID", "ATDESC", "ATSAL", "TRUE", "FALSE", "MINUS", "REAL_LITERAL", "OR",
               "END"}]
Strings ==
  [given |-> Opening \o <<"RETURN">>, free |-> 5, maxErrors |-> 1,
   tokens |-> {"DQUOTA_STRING", "DOUBLEDOTTEDNAME", "LR_BRACKET", "RR_BRACKET", "OR", "END"}]

ParserScopes ==
  {Headers, Literals, Strings, Ifs, Fors, Concs, ForRanges, Logic, Arithmetic, NestedCalls, Maps}
============================================================================
