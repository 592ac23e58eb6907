-------------------------------- MODULE MarkedMoney --------------------------------
(***************************************************************************)
(* Marked digital rubles: the mark a purchase needs, what the demo wallets *)
(* hold, and the check the platform emulator makes of the two.             *)
(***************************************************************************)
EXTENDS Naturals

Marks == {"GENERAL", "EDUCATION", "HEALTHCARE", "SOCIAL_FOOD", "TRANSPORT",
          "BUDGET_TARGETED"}

(* Categories after NormalizeCategory; "general" stands for all others.    *)
MarkedCategories ==
    [EDUCATION       |-> {"education", "edu", "books", "school", "university"},
     HEALTHCARE      |-> {"medicine", "medical", "health", "healthcare", "pharmacy"},
     SOCIAL_FOOD     |-> {"food", "groceries", "social_food"},
     TRANSPORT       |-> {"transport", "taxi", "bus", "metro"},
     BUDGET_TARGETED |-> {"subsidy", "budget", "government", "state"}]

RequiredMoneyMark(category) ==
    IF \E m \in DOMAIN MarkedCategories : category \in MarkedCategories[m]
    THEN CHOOSE m \in DOMAIN MarkedCategories : category \in MarkedCategories[m]
    ELSE "GENERAL"

(* In rubles, as every amount of the table.                                *)
Holding(balances) ==
    [m \in Marks |-> IF m \in DOMAIN balances THEN balances[m] ELSE 0]

(* The balances of a wallet; a payer who names none pays with the first    *)
(* demo wallet, a wallet nobody knows holds general money.                 *)
walletMarkedBalance(wallet) ==
    Holding(CASE wallet \in {"", "dr_wallet_123"} ->
                     [GENERAL |-> 100000, EDUCATION |-> 10000, HEALTHCARE |-> 5000,
                      SOCIAL_FOOD |-> 3000, TRANSPORT |-> 2000, BUDGET_TARGETED |-> 1000]
              [] wallet = "dr_wallet_insufficient_marked" ->
                     [GENERAL |-> 100000, EDUCATION |-> 100]
              [] wallet = "dr_wallet_healthcare" ->
                     [GENERAL |-> 10000, HEALTHCARE |-> 20000]
              [] OTHER -> [GENERAL |-> 100000])

(* Allowed of CheckResult.                                                 *)
CheckMarkedMoney(wallet, mark, amount) == walletMarkedBalance(wallet)[mark] >= amount
=============================================================================
