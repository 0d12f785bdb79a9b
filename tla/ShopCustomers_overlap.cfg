SPECIFICATION CustomersSpec
CONSTANTS
    r1 = r1  r2 = r2  c1 = c1  c2 = c2  s1 = s1  s2 = s2  a1 = a1  a2 = a2  h1 = h1   Absent = Absent
    Slots = {r1, r2}
    Customers = {c1, c2}
    Sellers = {s1, s2}
    Places = {a1, a2}
    Phones = {h1}
    Ratings = {1, 5}
    MaxBegun = 3
SYMMETRY Swaps
INVARIANTS CustomersAreTold ReviewsSound ReviewsShown
 
CHECK_DEADLOCK FALSE
