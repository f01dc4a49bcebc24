------------------------------ MODULE MCOperations ------------------------------
\* The instances of the modules about what surrounds the accounts that TLC checks: logins,
\* imports, the token exchange, the migration at a start, the dashboard's sessions and its
\* pages.  They share no state, so a behaviour is one of a single module, the others left
\* as they start.
EXTENDS Logins, Imports, TokenExchange, AccountMigration, DashboardSessions,
        DashboardView, TLC

VARIABLE focus

vars ==
    <<loginVars, importVars, exchangeVars, migrationVars, dashboardVars, viewVars>>

OperationsInit ==
    /\ focus \in {"logins", "imports", "exchange", "migration", "sessions", "view"}
    /\ LoginInit /\ ImportInit /\ ExchangeInit /\ MigrationInit /\ DashboardInit /\ ViewInit
    /\ focus # "logins" => ~portTaken
    /\ focus # "imports" => held = Absent
    /\ focus # "exchange" => accountProxy = Default /\ globalProxy = Direct /\ transport = "cli"
    /\ focus # "migration" => authFile = "none"
    /\ focus # "sessions" => ~keySet
    /\ focus # "view" => hook = "accounts" /\ atServer = NoRows

OperationsNext ==
    /\ UNCHANGED focus
    /\ \/ /\ focus = "logins" /\ LoginNext
          /\ UNCHANGED <<importVars, exchangeVars, migrationVars, dashboardVars, viewVars>>
       \/ /\ focus = "imports" /\ ImportNext
          /\ UNCHANGED <<loginVars, exchangeVars, migrationVars, dashboardVars, viewVars>>
       \/ /\ focus = "exchange" /\ ExchangeNext
          /\ UNCHANGED <<loginVars, importVars, migrationVars, dashboardVars, viewVars>>
       \/ /\ focus = "migration" /\ MigrationNext
          /\ UNCHANGED <<loginVars, importVars, exchangeVars, dashboardVars, viewVars>>
       \/ /\ focus = "sessions" /\ DashboardNext
          /\ UNCHANGED <<loginVars, importVars, exchangeVars, migrationVars, viewVars>>
       \/ /\ focus = "view" /\ ViewNext
          /\ UNCHANGED <<loginVars, importVars, exchangeVars, migrationVars, dashboardVars>>

OperationsSpec == OperationsInit /\ [][OperationsNext]_<<vars, focus>>

Symmetry == Permutations(Login) \cup Permutations(Batch)

SomeLists == {<<0>>, <<0, 0>>, <<0, 1>>}

\* Device logins are explored while no browser login has begun.
OneKind == (\E d \in Device : begun[d] # Never) => (\A s \in Login : begun[s] = Never)

\* A one-time token is never in two hands at once: two imports do not exchange it at the same
\* time, and one call does not go on to its next way once the server may have taken it.
OneTimeTokensGuarded ==
    ImportTypeOK /\ ExchangeTypeOK /\ ExchangesGuarded /\ MidFlightEndsIt
=============================================================================
