------------------------------- MODULE MCLoan -------------------------------
(***************************************************************************)
(* Loans of three installments.  A month has four days, a day two units;   *)
(* the monthly rate is a tenth.                                            *)
(***************************************************************************)
EXTENDS Loan, TLC

\* Scores 60 and 30.
Regular  == [credit |-> 7, income |-> 100, debt |-> 10, age |-> 4]
Newcomer == [credit |-> 5, income |-> 192, debt |-> 0, age |-> 4]

\* Three installments of 12 with interest 3, 2 and 1, and one of 48, which
\* is a quarter of the income.
ThreeMonths == [applicant |-> Regular, principal |-> 30, term |-> 3]
OneMonth    == [applicant |-> Newcomer, principal |-> 40, term |-> 1]

MCApplications == {ThreeMonths, OneMonth}

Scoring == [base |-> 50, clamp |-> [min |-> 30, max |-> 100],
            factors |-> <<[input |-> "credit",
                           bands |-> <<[max |-> 5, points |-> -30],
                                       [min |-> 6, max |-> 8, points |-> 10],
                                       [min |-> 8, points |-> 40]>>]>>,
            tiers |-> <<[tier |-> "D", min_score |-> 0], [tier |-> "B", min_score |-> 60]>>]

Pricey(rate) ==
    [min_credit_score |-> 5, min_monthly_income |-> 50, max_debt_to_income_pct |-> 50,
     min_account_age |-> 3, min_risk_score |-> 20, terms |-> {1, 3},
     tiers |-> <<[tier |-> "C", min_risk_score |-> 40, rate |-> 2, max_principal |-> 30],
                 [tier |-> "B", min_risk_score |-> 60, rate |-> rate, max_principal |-> 30]>>]

Strict  == [grace |-> 1, threshold |-> 2, fee |-> 5]
Lenient == [grace |-> 1, threshold |-> 4, fee |-> 0]

MCShipped == [scoring |-> Scoring, underwriting |-> Pricey(1), servicing |-> Strict]

MCContents == [scoring |-> {Scoring}, underwriting |-> {Pricey(1), Pricey(3)},
               servicing |-> {Strict, Lenient}]

MCSymmetry == Permutations(Procs) \cup Permutations(Loans)
=============================================================================
