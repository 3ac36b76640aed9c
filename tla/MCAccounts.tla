----------------------------- MODULE MCAccounts -----------------------------
EXTENDS Accounts, TLC

CONSTANTS a, u

Plain == [azurite |-> FALSE, string |-> None, sas |-> FALSE, key |-> FALSE,
          account |-> None, endpoint |-> None]
\* A string for an account of its own beside an account that is ignored, and an
\* account that two entries of the list may name.
MCGiven ==
    {[Plain EXCEPT !.string = [url |-> u, account |-> None, sas |-> TRUE, key |-> FALSE],
                   !.account = a],
     [Plain EXCEPT !.key = TRUE, !.account = a]}

Interchangeable == Permutations(Processes)
=============================================================================
