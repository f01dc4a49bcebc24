------------------------------- MODULE MCModels -------------------------------
\* The instance of ModelCatalogue that TLC checks: two plans whose lists change,
\* the last of one with a model whose name ends like an effort.
EXTENDS ModelCatalogue

MCStatic == {<<"g">>, <<"m">>}
MCAlias == <<"c">> :> <<"g">>
MCDefault == <<"m">>
MCLists == [plus |-> <<<< <<"g">>, <<"p">> >>, << <<"g">>, <<"g", "high">> >>>>,
            free |-> <<<< <<"m">> >>>>]

\* Writes of the cache are short: at most two are explored together.
FewWrites == Cardinality(cacheWrites) <= 2
=============================================================================
